----------------------------- MODULE AppProofs -----------------------------
(***************************************************************************)
(* Theorems about the whole App, for every number of addresses, requests   *)
(* and photos and without any bound on prepares and stops.                 *)
(***************************************************************************)
EXTENDS App, FunctionTheorems, SequenceTheorems, WellFoundedInduction, TLAPS

-----------------------------------------------------------------------------
(* The tutorial's buttons *)

\* Complementary buttons, case by case.
Buttons ==
  \/ nextHidden = TRUE /\ signUpHidden = FALSE
  \/ nextHidden = FALSE /\ signUpHidden = TRUE

PagesInv == Pages!TypeOK /\ Buttons

Agree == Pages!ButtonsAgree

\* Every step keeps the buttons complementary, and all but one keep them in
\* agreement with the page control.
LEMMA PagesStep ==
  ASSUME PagesInv, [Next]_vars
  PROVE  PagesInv' /\ (Agree => Agree' \/ Pages!TapPageControl)
<1> USE DEF PagesInv, Pages!TypeOK, Pages!LastPage
<1> DEFINE Kept == PagesInv' /\ (Agree => Agree' \/ Pages!TapPageControl)
<1>1. ASSUME UNCHANGED tutorialVars PROVE Kept
  BY <1>1 DEF tutorialVars, Buttons, Agree, Pages!ButtonsAgree
<1>2. ASSUME NewTutorial PROVE Kept
  <2>1. offset' \in Nat /\ currentPage' \in 0 .. 4 /\ currentPage' # 4
    BY <1>2 DEF NewTutorial
  <2>2. moving' \in BOOLEAN /\ nextHidden' \in BOOLEAN /\ signUpHidden' \in BOOLEAN
    BY <1>2, Zenon DEF NewTutorial
  <2>3. nextHidden' = FALSE /\ signUpHidden' = TRUE
    BY <1>2, Zenon DEF NewTutorial
  <2>4. Agree'
    BY <2>1, <2>3, Zenon DEF Agree, Pages!ButtonsAgree
  <2> QED  BY <2>1, <2>2, <2>3, <2>4, Zenon DEF Buttons
<1>3. ASSUME Pages!TapSkip PROVE Kept
  BY <1>3
     DEF Pages!TapSkip, Buttons, Pages!PageWidth, Pages!Clamped, Pages!Turned, Pages!RevealSignUp,
         Agree, Pages!ButtonsAgree
<1>4. ASSUME Pages!TapNext PROVE Kept
  BY <1>4
     DEF Pages!TapNext, Buttons, Pages!PageWidth, Pages!Clamped, Pages!Turned, Pages!RevealSignUp,
         Agree, Pages!ButtonsAgree
<1>5. ASSUME Pages!Drag \/ Pages!Release PROVE Kept
  <2>1. offset' \in Nat
    BY <1>5 DEF Pages!Drag, Pages!Release, Pages!Positions, Pages!PageWidth
  <2>2. moving' \in BOOLEAN
    BY <1>5, Zenon DEF Pages!Drag, Pages!Release
  <2>3. UNCHANGED << currentPage, nextHidden, signUpHidden >>
    BY <1>5, Zenon DEF Pages!Drag, Pages!Release
  <2>4. Agree => Agree'
    BY <2>3 DEF Agree, Pages!ButtonsAgree
  <2> QED  BY <2>1, <2>2, <2>3, <2>4, Zenon DEF Buttons
<1>6. ASSUME NEW page \in 0 .. Pages!LastPage, Pages!StopAt(page) PROVE Kept
  <2>1. offset' \in Nat /\ currentPage' \in 0 .. 4
    BY <1>6 DEF Pages!StopAt, Pages!PageWidth, Pages!Clamped, Pages!Turned
  <2>2. /\ moving' = FALSE
        /\ nextHidden' = (currentPage' = 4)
        /\ signUpHidden' = (currentPage' # 4)
    BY <1>6, Zenon DEF Pages!StopAt
  <2>3. moving' \in BOOLEAN /\ nextHidden' \in BOOLEAN /\ signUpHidden' \in BOOLEAN
    BY <2>2, Zenon
  <2>4. Buttons'
    <3>1. CASE currentPage' = 4
      BY <2>2, <3>1, Zenon DEF Buttons
    <3>2. CASE currentPage' # 4
      BY <2>2, <3>2, Zenon DEF Buttons
    <3> QED  BY <3>1, <3>2
  <2>5. Agree'
    BY <2>2, Zenon DEF Agree, Pages!ButtonsAgree
  <2> QED  BY <2>1, <2>3, <2>4, <2>5, Zenon
<1>7. ASSUME Pages!TapPageControl PROVE Kept
  <2>1. currentPage' \in 0 .. 4
    BY <1>7 DEF Pages!TapPageControl
  <2>2. UNCHANGED << offset, moving, nextHidden, signUpHidden >>
    BY <1>7, Zenon DEF Pages!TapPageControl
  <2> QED  BY <1>7, <2>1, <2>2, Zenon DEF Buttons
<1>8. ASSUME PageStep PROVE Kept
  BY <1>3, <1>4, <1>5, <1>6, <1>7, <1>8 DEF PageStep, Pages!Next
<1>9. ASSUME TapSignUpButton PROVE Kept
  BY <1>9 DEF TapSignUpButton, Buttons, Pages!RevealSignUp, Agree, Pages!ButtonsAgree
<1> QED
  BY <1>1, <1>2, <1>8, <1>9
     DEF Next, HomeStep, Restart, SessionStep, HandleLogIn, AskToLogIn, vars, tutorialVars

LEMMA PagesStart == Init => PagesInv
<1> SUFFICES ASSUME Init PROVE PagesInv
  OBVIOUS
<1>1. offset \in Nat /\ currentPage \in 0 .. 4
  BY DEF Init, Pages!Init
<1>2. moving = FALSE /\ nextHidden = FALSE /\ signUpHidden = TRUE
  BY Zenon DEF Init, Pages!Init
<1>3. moving \in BOOLEAN /\ nextHidden \in BOOLEAN /\ signUpHidden \in BOOLEAN
  BY <1>2, Zenon
<1> QED  BY <1>1, <1>2, <1>3, Zenon DEF PagesInv, Pages!TypeOK, Buttons, Pages!LastPage

\* The user always has Skip and Next or the sign-up button, and only a tap on
\* the page control itself parts the buttons from its page, through every
\* mixture of taps and gestures and every window.
THEOREM ButtonsFollow == Spec => ButtonsFollowPage
<1> DEFINE Parting == Agree => Agree' \/ Pages!TapPageControl
<1>1. PagesInv => nextHidden # signUpHidden
  BY DEF PagesInv, Buttons
<1>2. PagesInv /\ [Next]_vars => PagesInv' /\ [Parting]_(Pages!vars)
  BY PagesStep
<1>3. Spec => [](nextHidden # signUpHidden) /\ [][Parting]_(Pages!vars)
  BY <1>1, <1>2, PagesStart, PTL DEF Spec
<1> QED  BY <1>3 DEF ButtonsFollowPage, Pages!ButtonsFollowPage, Agree

-----------------------------------------------------------------------------
(* Accounts, profiles and the main window *)

Stages == User!UnderWay \cup User!Ended

\* Requests that have come this far have an account.
HasAccount(q) ==
  \/ requests[q].kind = "signUp" /\ requests[q].stage \in {"created", "writing", "orphanWriting"}
  \/ requests[q].kind = "logIn" /\ requests[q].stage \in {"granted", "entered"}

AccountsKnown == \A q \in DOMAIN requests : HasAccount(q) => requests[q].email \in accounts

\* Log-ins leave no orphans, so whatever creates an account explains it.
OrphansCreate ==
  \A q \in DOMAIN requests :
    /\ requests[q].stage = "orphan" => requests[q].kind # "logIn"
    /\ requests[q].stage = "orphanWriting" => requests[q].kind = "signUp"
    /\ requests[q].stage = "writing" => requests[q].kind = "signUp"

SessionInv == User!TypeOK /\ AccountsKnown /\ OrphansCreate /\ AccountsExplained /\ MainNeedsLogIn

\* The requests are what they were, but for one's stage.
OnlyMoved(q, stage) ==
  /\ DOMAIN requests' = DOMAIN requests
  /\ \A p \in DOMAIN requests :
       /\ requests'[p].kind = requests[p].kind
       /\ requests'[p].email = requests[p].email
       /\ requests'[p].stage = IF p = q THEN stage ELSE requests[p].stage

LEMMA Moves ==
  ASSUME User!TypeOK, NEW q \in DOMAIN requests, NEW stage \in Stages, User!Moved(q, stage)
  PROVE  OnlyMoved(q, stage) /\ User!IsDict(requests', Request, User!RequestRecord)
<1> USE DEF User!TypeOK, User!IsDict, User!RequestRecord, Stages
<1>1. \A p \in DOMAIN requests : requests[p] \in User!RequestRecord
  OBVIOUS
<1>2. requests' = [requests EXCEPT ![q].stage = stage]
  BY DEF User!Moved
<1>3. DOMAIN requests' = DOMAIN requests
  BY <1>2
<1>4. \A p \in DOMAIN requests :
        requests'[p] = IF p = q THEN [requests[q] EXCEPT !.stage = stage] ELSE requests[p]
  BY <1>2
<1>5. [requests[q] EXCEPT !.stage = stage] \in User!RequestRecord
  BY <1>1
<1>6. \A p \in DOMAIN requests : requests'[p] \in User!RequestRecord
  BY <1>1, <1>4, <1>5
<1>7. OnlyMoved(q, stage)
  BY <1>1, <1>3, <1>4 DEF OnlyMoved
<1>8. requests' = [p \in DOMAIN requests' |-> requests'[p]]
  BY <1>2, <1>3
<1> QED  BY <1>3, <1>6, <1>7, <1>8

LEMMA AskKeeps ==
  ASSUME SessionInv, NEW q \in Request, NEW kind \in User!Kind, NEW email \in Email,
         User!Ask(q, kind, email)
  PROVE  SessionInv'
<1> DEFINE r == [kind |-> kind, email |-> email, stage |-> "asked"]
<1>1. /\ q \notin DOMAIN requests
      /\ requests' = User!Updated(requests, q, r)
      /\ UNCHANGED << root, signUpScreen, accounts, profiles >>
  BY DEF User!Ask
<1>2. DOMAIN requests' = DOMAIN requests \cup {q}
  BY <1>1 DEF User!Updated
<1>3. \A p \in DOMAIN requests' : requests'[p] = IF p = q THEN r ELSE requests[p]
  BY <1>1 DEF User!Updated
<1>4. r \in User!RequestRecord
  BY DEF User!RequestRecord, User!UnderWay, User!Ended
<1>5. requests' = [p \in DOMAIN requests' |-> requests'[p]]
  BY <1>1 DEF User!Updated
<1>6. User!TypeOK'
  <2>1. \A p \in DOMAIN requests' : requests'[p] \in User!RequestRecord
    BY <1>2, <1>3, <1>4 DEF SessionInv, User!TypeOK, User!IsDict
  <2>2. DOMAIN requests' \subseteq Request
    BY <1>2 DEF SessionInv, User!TypeOK, User!IsDict
  <2>3. User!IsDict(requests', Request, User!RequestRecord)
    BY <1>5, <2>1, <2>2 DEF User!IsDict
  <2> QED  BY <1>1, <2>3 DEF SessionInv, User!TypeOK
<1>7. r.stage = "asked"
  OBVIOUS
<1> HIDE DEF r
<1>8. AccountsKnown'
  BY <1>1, <1>2, <1>3, <1>7 DEF SessionInv, AccountsKnown, HasAccount
<1>9. AccountsExplained'
  BY <1>1, <1>2, <1>3, <1>7
     DEF SessionInv, AccountsExplained, User!AccountsExplained, User!HasLost
<1>10. MainNeedsLogIn'
  BY <1>1, <1>2, <1>3, <1>7 DEF SessionInv, MainNeedsLogIn, User!MainNeedsLogIn, User!At
<1>11. OrphansCreate'
  BY <1>1, <1>2, <1>3, <1>7 DEF SessionInv, OrphansCreate
<1> QED  BY <1>6, <1>8, <1>9, <1>10, <1>11 DEF SessionInv

LEMMA RestartKeeps == ASSUME SessionInv, User!Restart PROVE SessionInv'
<1>1. /\ root' = "tutorial" /\ signUpScreen' = FALSE
      /\ requests' = [q \in DOMAIN requests |-> User!Forgotten(requests[q])]
      /\ UNCHANGED << accounts, profiles >>
  BY DEF User!Restart
<1>2. DOMAIN requests' = DOMAIN requests
  BY <1>1
<1>3. \A q \in DOMAIN requests : requests[q] \in User!RequestRecord
  BY DEF SessionInv, User!TypeOK, User!IsDict
<1>4. ASSUME NEW q \in DOMAIN requests
      PROVE  /\ requests'[q] \in User!RequestRecord
             /\ requests'[q].kind = requests[q].kind
             /\ requests'[q].email = requests[q].email
             /\ requests'[q].stage \in
                  {"orphan", "orphanWriting", "registered", "refused", "failed", "lost"}
             /\ requests'[q].stage = "registered" => requests[q].stage = "registered"
             /\ requests'[q].stage = "orphan" => requests[q].kind # "logIn"
             /\ requests'[q].stage = "orphanWriting" =>
                  requests[q].kind = "signUp" /\ requests[q].email \in accounts
             /\ User!HasLost(q) => User!HasLost(q)'
  <2> DEFINE r == requests[q]
  <2>1. r \in User!RequestRecord
    BY <1>3
  <2>2. requests'[q] = User!Forgotten(r)
    BY <1>1
  <2>3. CASE r.kind # "logIn" /\ r.stage = "asked"
    <3>1. requests'[q] = [r EXCEPT !.stage = "orphan"]
      BY <2>2, <2>3 DEF User!Forgotten
    <3> QED  BY <2>1, <2>3, <3>1 DEF User!RequestRecord, User!UnderWay, User!Ended, User!HasLost
  <2>4. CASE r.stage = "writing"
    <3>1. requests'[q] = [r EXCEPT !.stage = "orphanWriting"]
      BY <2>2, <2>4 DEF User!Forgotten
    <3>2. r.kind = "signUp" /\ r.email \in accounts
      BY <2>4 DEF SessionInv, OrphansCreate, AccountsKnown, HasAccount
    <3> QED
      BY <2>1, <2>4, <3>1, <3>2 DEF User!RequestRecord, User!UnderWay, User!Ended, User!HasLost
  <2>5. CASE r.stage \in {"registered", "refused", "failed", "orphan", "orphanWriting"}
    <3>1. requests'[q] = r
      BY <2>2, <2>5 DEF User!Forgotten
    <3> QED
      BY <2>1, <2>5, <3>1 DEF User!HasLost, SessionInv, OrphansCreate, AccountsKnown, HasAccount
  <2>6. CASE /\ ~ (r.kind # "logIn" /\ r.stage = "asked")
             /\ r.stage \notin {"writing", "registered", "refused", "failed", "orphan", "orphanWriting"}
    <3>1. requests'[q] = [r EXCEPT !.stage = "lost"]
      BY <2>2, <2>6 DEF User!Forgotten
    <3> QED
      BY <2>1, <2>6, <3>1 DEF User!RequestRecord, User!UnderWay, User!Ended, User!HasLost
  <2> QED  BY <2>3, <2>4, <2>5, <2>6
<1>5. requests' = [q \in DOMAIN requests' |-> requests'[q]]
  BY <1>1
<1>6. User!TypeOK'
  <2>1. User!IsDict(requests', Request, User!RequestRecord)
    BY <1>2, <1>4, <1>5 DEF User!IsDict, SessionInv, User!TypeOK
  <2> QED  BY <1>1, <2>1 DEF SessionInv, User!TypeOK
<1>7. AccountsKnown'
  BY <1>1, <1>2, <1>4 DEF AccountsKnown, HasAccount
<1>8. AccountsExplained'
  BY <1>1, <1>2, <1>4 DEF SessionInv, AccountsExplained, User!AccountsExplained
<1>9. MainNeedsLogIn'
  BY <1>1 DEF MainNeedsLogIn, User!MainNeedsLogIn
<1>10. OrphansCreate'
  BY <1>2, <1>4 DEF OrphansCreate
<1> QED  BY <1>6, <1>7, <1>8, <1>9, <1>10 DEF SessionInv

\* What a step of a request does to the tables, and what it may not forget.
Step(q, stage) ==
  /\ q \in DOMAIN requests
  /\ stage \in Stages \ {"orphan", "orphanWriting"}
  /\ User!Moved(q, stage)
  /\ signUpScreen' \in BOOLEAN
  /\ accounts \subseteq accounts' /\ accounts' \subseteq accounts \cup {requests[q].email}
  /\ profiles \subseteq profiles' /\ profiles' \subseteq profiles \cup {requests[q].email}
  /\ requests[q].stage \notin User!Ended
  /\ \/ stage \in {"refused", "failed", "lost"}
     \/ requests[q].kind = "google"
     \/ requests[q].email \in accounts'
  /\ stage = "registered" => requests[q].email \in profiles' /\ requests[q].kind = "signUp"
  /\ stage = "writing" => requests[q].kind = "signUp"
  /\ \/ requests[q].stage = "asked" /\ accounts' = accounts
     \/ requests[q].kind = "signUp" /\ stage \in {"created", "writing", "registered", "failed", "lost"}
     \/ requests[q].kind = "google" /\ stage \in {"granted", "lost"}
     \/ requests[q].kind = "logIn"
  /\ accounts' = accounts \/ requests[q].kind \in {"signUp", "google"}
  /\ profiles' = profiles \/ requests[q].email \in accounts
  /\ \/ root' = root
     \/ root' = "main" /\ stage = "entered" /\ requests[q].kind = "logIn"

LEMMA MoveKeeps == ASSUME SessionInv, NEW q, NEW stage, Step(q, stage) PROVE SessionInv'
<1> USE DEF Step
<1>1. OnlyMoved(q, stage) /\ User!IsDict(requests', Request, User!RequestRecord)
  BY Moves DEF SessionInv
<1>2. requests[q].email \in Email
  BY DEF SessionInv, User!TypeOK, User!IsDict, User!RequestRecord
<1>3. User!TypeOK'
  <2>1. signUpScreen' \in BOOLEAN
    BY DEF SessionInv, User!TypeOK
  <2> QED  BY <1>1, <1>2, <2>1 DEF SessionInv, User!TypeOK
<1>4. AccountsKnown'
  BY <1>1 DEF OnlyMoved, SessionInv, AccountsKnown, HasAccount
<1>5. AccountsExplained'
  <2>1. profiles' \subseteq accounts'
    BY DEF SessionInv, AccountsExplained, User!AccountsExplained
  <2>2. \A p \in DOMAIN requests' : requests'[p].stage = "registered" => requests'[p].email \in profiles'
    BY <1>1 DEF OnlyMoved, SessionInv, AccountsExplained, User!AccountsExplained
  <2>3. ASSUME NEW email \in accounts' \ profiles'
        PROVE  \E p \in DOMAIN requests' : requests'[p].email = email /\ User!HasLost(p)'
    <3>1. CASE email \in accounts
      <4>1. PICK p \in DOMAIN requests : requests[p].email = email /\ User!HasLost(p)
        BY <3>1 DEF SessionInv, AccountsExplained, User!AccountsExplained
      <4>2. User!HasLost(p)'
        BY <1>1, <4>1 DEF OnlyMoved, User!HasLost
      <4> QED  BY <1>1, <4>1, <4>2 DEF OnlyMoved
    <3>2. CASE email \notin accounts
      <4>1. email = requests[q].email
        BY <3>2
      <4>2. User!HasLost(q)'
        BY <1>1, <3>2, <4>1 DEF OnlyMoved, User!HasLost
      <4> QED  BY <1>1, <4>1, <4>2 DEF OnlyMoved
    <3> QED  BY <3>1, <3>2
  <2> QED  BY <2>1, <2>2, <2>3 DEF AccountsExplained, User!AccountsExplained
<1>6. MainNeedsLogIn'
  <2> SUFFICES ASSUME root' = "main"
               PROVE  \E p \in DOMAIN requests' :
                        User!At(p, "logIn", "entered")' /\ requests'[p].email \in accounts'
    BY DEF MainNeedsLogIn, User!MainNeedsLogIn
  <2>1. CASE root = "main"
    <3>1. PICK p \in DOMAIN requests :
                 User!At(p, "logIn", "entered") /\ requests[p].email \in accounts
      BY <2>1 DEF SessionInv, MainNeedsLogIn, User!MainNeedsLogIn
    <3> QED  BY <1>1, <3>1 DEF OnlyMoved, User!At, User!Ended
  <2>2. CASE stage = "entered" /\ requests[q].kind = "logIn"
    BY <1>1, <2>2 DEF OnlyMoved, User!At
  <2> QED  BY <2>1, <2>2
<1>7. OrphansCreate'
  BY <1>1 DEF OnlyMoved, SessionInv, OrphansCreate
<1> QED  BY <1>3, <1>4, <1>5, <1>6, <1>7 DEF SessionInv

LEMMA SessionKeeps == SessionInv /\ [Next]_vars => SessionInv'
<1> SUFFICES ASSUME SessionInv, [Next]_vars PROVE SessionInv'
  OBVIOUS
<1>1. ASSUME signUpScreen' \in BOOLEAN, UNCHANGED << root, accounts, profiles, requests >>
      PROVE  SessionInv'
  <2>1. User!TypeOK'
    BY <1>1, Zenon DEF SessionInv, User!TypeOK, User!IsDict
  <2>2. AccountsKnown' /\ OrphansCreate'
    BY <1>1, Zenon DEF SessionInv, AccountsKnown, HasAccount, OrphansCreate
  <2>3. AccountsExplained' /\ MainNeedsLogIn'
    BY <1>1 DEF SessionInv, AccountsExplained, User!AccountsExplained, User!HasLost,
                MainNeedsLogIn, User!MainNeedsLogIn, User!At
  <2> QED  BY <2>1, <2>2, <2>3 DEF SessionInv
<1>2. ASSUME UNCHANGED sessionVars \/ User!OpenSignUp \/ User!CloseSignUp PROVE SessionInv'
  <2>1. signUpScreen' \in BOOLEAN
    BY <1>2, Zenon DEF sessionVars, User!OpenSignUp, User!CloseSignUp, SessionInv, User!TypeOK
  <2>2. UNCHANGED << root, accounts, profiles, requests >>
    BY <1>2 DEF sessionVars, User!OpenSignUp, User!CloseSignUp
  <2> QED  BY <1>1, <2>1, <2>2
<1>3. ASSUME NEW q \in Request, NEW email \in Email,
             User!TapSignUp(q, email) \/ User!TapLogIn(q, email) \/ User!TapGoogle(q, email)
      PROVE  SessionInv'
  <2>1. PICK kind \in User!Kind : User!Ask(q, kind, email)
    BY <1>3 DEF User!TapSignUp, User!TapLogIn, User!TapGoogle, User!Kind
  <2> QED  BY <2>1, AskKeeps
<1>4. ASSUME NEW q \in Request, SessionStep(q) PROVE SessionInv'
  <2>0. signUpScreen \in BOOLEAN
    BY DEF SessionInv, User!TypeOK
  <2>1. ASSUME User!CreateAccount(q) PROVE SessionInv'
    <3>1. Step(q, "created")
      BY <2>0, <2>1 DEF User!CreateAccount, User!At, Step, Stages, User!UnderWay, User!Ended, SessionInv
    <3> QED  BY <3>1, MoveKeeps
  <2>2. ASSUME User!HandleCreated(q) PROVE SessionInv'
    <3>1. Step(q, "writing")
      BY <2>0, <2>2
         DEF User!HandleCreated, User!At, Step, Stages, User!UnderWay, User!Ended, SessionInv, AccountsKnown,
             HasAccount
    <3> QED  BY <3>1, MoveKeeps
  <2>3. ASSUME User!WriteProfile(q) PROVE SessionInv'
    <3>1. Step(q, "registered")
      BY <2>0, <2>3
         DEF User!WriteProfile, User!At, Step, Stages, User!UnderWay, User!Ended, SessionInv, AccountsKnown,
             HasAccount
    <3> QED  BY <3>1, MoveKeeps
  <2>4. ASSUME User!SignUpFails(q) PROVE SessionInv'
    <3>1. Step(q, "failed")
      BY <2>0, <2>4
         DEF User!SignUpFails, User!At, Step, Stages, User!UnderWay, User!Ended, SessionInv,
             AccountsKnown, HasAccount
    <3> QED  BY <3>1, MoveKeeps
  <2>9. ASSUME User!SignUpRefused(q) PROVE SessionInv'
    <3>1. Step(q, "refused")
      BY <2>0, <2>9 DEF User!SignUpRefused, User!At, Step, Stages, User!UnderWay, User!Ended, SessionInv
    <3> QED  BY <3>1, MoveKeeps
  <2>10. ASSUME User!OrphanWrites(q) PROVE SessionInv'
    <3>1. Step(q, "lost")
      BY <2>0, <2>10
         DEF User!OrphanWrites, User!At, Step, Stages, User!UnderWay, User!Ended, SessionInv,
             AccountsKnown, HasAccount
    <3> QED  BY <3>1, MoveKeeps
  <2>5. ASSUME User!GrantLogIn(q) PROVE SessionInv'
    <3>1. Step(q, "granted")
      BY <2>0, <2>5 DEF User!GrantLogIn, User!At, Step, Stages, User!UnderWay, User!Ended, SessionInv
    <3> QED  BY <3>1, MoveKeeps
  <2>6. ASSUME User!GrantGoogle(q) PROVE SessionInv'
    <3>1. Step(q, "granted")
      BY <2>0, <2>6 DEF User!GrantGoogle, User!At, Step, Stages, User!UnderWay, User!Ended, SessionInv
    <3> QED  BY <3>1, MoveKeeps
  <2>7. ASSUME User!SignInFails(q) PROVE SessionInv'
    <3>1. Step(q, "refused")
      BY <2>0, <2>7 DEF User!SignInFails, User!At, Step, Stages, User!UnderWay, User!Ended, SessionInv
    <3> QED  BY <3>1, MoveKeeps
  <2>8. ASSUME User!OrphanCreates(q) PROVE SessionInv'
    <3>1. Step(q, "lost")
      <4>1. requests[q].kind \in User!Kind /\ requests[q].kind # "logIn"
        BY <2>8
           DEF User!OrphanCreates, SessionInv, OrphansCreate, User!TypeOK, User!IsDict,
               User!RequestRecord
      <4> QED
        BY <2>0, <2>8, <4>1 DEF User!OrphanCreates, User!Kind, Step, Stages, User!UnderWay, User!Ended
    <3> QED  BY <3>1, MoveKeeps
  <2> QED  BY <1>2, <1>3, <1>4, <2>1, <2>2, <2>3, <2>4, <2>5, <2>6, <2>7, <2>8, <2>9, <2>10
     DEF SessionStep
<1>5. ASSUME NEW q \in Request, HandleLogIn(q) PROVE SessionInv'
  <2>1. Step(q, "entered")
    BY <1>5 DEF HandleLogIn, User!HandleLogIn, User!At, Stages, User!UnderWay, User!Ended, SessionInv, Step,
                AccountsKnown, HasAccount
  <2> QED  BY <2>1, MoveKeeps
<1> QED
  BY <1>2, <1>3, <1>4, <1>5, RestartKeeps
     DEF Next, PageStep, TapSignUpButton, HomeStep, Restart, AskToLogIn, vars

LEMMA SessionStarts == Init => SessionInv
BY DEF Init, User!Init, SessionInv, User!TypeOK, User!IsDict, User!EmptyDict, AccountsKnown,
       OrphansCreate, AccountsExplained, User!AccountsExplained, MainNeedsLogIn,
       User!MainNeedsLogIn

\* Every account has its profile or a registration or Google to explain why
\* not, whatever is tapped, lost, orphaned and restarted.
THEOREM AccountsAreExplained == Spec => []AccountsExplained
<1>1. SessionInv => AccountsExplained
  BY DEF SessionInv
<1> QED  BY <1>1, SessionStarts, SessionKeeps, PTL DEF Spec

\* The main window is only ever reached through a granted log-in.
THEOREM MainAfterLogIn == Spec => []MainNeedsLogIn
<1>1. SessionInv => MainNeedsLogIn
  BY DEF SessionInv
<1> QED  BY <1>1, SessionStarts, SessionKeeps, PTL DEF Spec

-----------------------------------------------------------------------------
(* The bar *)

BarInv == bar \in Int /\ heardPage \in Int /\ plain \in BOOLEAN /\ BarFollowsPage

LEMMA BarStep == BarInv /\ [Next]_vars => BarInv'
<1> SUFFICES ASSUME BarInv, [Next]_vars PROVE BarInv'
  OBVIOUS
<1> USE DEF BarInv, BarFollowsPage, Start!BarFollowsPage
<1>1. ASSUME UNCHANGED << bar, heardPage, plain >> PROVE BarInv'
  BY <1>1
<1>2. ASSUME NewHome PROVE BarInv'
  BY <1>2 DEF NewHome
<1>3. ASSUME NEW page \in 0 .. Start!LastPage, Start!EndDecelerating(page) PROVE BarInv'
  <2>1. page \in Int
    BY DEF Start!LastPage
  <2>2. /\ plain' = (plain /\ page - heardPage \in -1 .. 1)
        /\ heardPage' = page
        /\ bar' = CASE page > heardPage -> bar + 1
                    [] page < heardPage -> bar - 1
                    [] OTHER -> bar
    BY <1>3 DEF Start!EndDecelerating, Start!Heard, Start!Near
  <2>3. bar' \in Int
    BY <2>1, <2>2
  <2>4. plain' \in BOOLEAN
    BY <2>2
  <2>5. ASSUME plain' PROVE bar' = heardPage'
    <3>1. plain /\ page - heardPage \in -1 .. 1
      BY <2>2, <2>5
    <3> QED  BY <2>1, <2>2, <3>1
  <2> QED  BY <2>1, <2>2, <2>3, <2>4, <2>5
<1>4. ASSUME Start!Prepare PROVE UNCHANGED << bar, heardPage, plain >>
  BY <1>4 DEF Start!Prepare
<1> QED
  BY <1>1, <1>2, <1>3, <1>4
     DEF Next, PageStep, TapSignUpButton, HomeStep, Restart, SessionStep, HandleLogIn, AskToLogIn,
         Start!Next, vars, homeVars

\* The bar and the page agree as long as pages are turned one by one.
THEOREM BarFollows == Spec => []BarFollowsPage
<1>1. Init => BarInv
  BY DEF Init, Start!Init, BarInv, BarFollowsPage, Start!BarFollowsPage
<1>2. BarInv => BarFollowsPage
  BY DEF BarInv
<1> QED  BY <1>1, <1>2, BarStep, PTL DEF Spec

-----------------------------------------------------------------------------
(* The waterfall *)

\* The library's induction in terms of sets: a set of numbers has a least one.
LEMMA LeastNumber ==
  ASSUME NEW S, S \subseteq Nat, S # {}
  PROVE  \E m \in S : \A k \in S : m <= k
<1> DEFINE R == OpToRel(<, Nat)
<1>1. IsWellFoundedOn(R, Nat)
  BY NatLessThanWellFounded
<1> HIDE DEF R
<1>2. PICK m \in S : \A k \in S : << k, m >> \notin R
  BY <1>1, WFMin
<1>3. \A k \in S : ~ (k < m)
  BY <1>2 DEF R, OpToRel
<1> QED  BY <1>2, <1>3

\* A set with 0 that has every number up to m after the one before it.
LEMMA UpTo ==
  ASSUME NEW m \in Nat, NEW S, 0 \in S, \A n \in 1 .. m : n - 1 \in S => n \in S
  PROVE  0 .. m \subseteq S
<1> DEFINE T == 0 .. m \ S
<1> SUFFICES ASSUME T # {} PROVE FALSE
  OBVIOUS
<1>1. PICK n \in T : \A k \in T : n <= k
  <2>1. T \subseteq Nat
    OBVIOUS
  <2> HIDE DEF T
  <2> QED  BY <2>1, LeastNumber
<1>2. n \in 1 .. m /\ n - 1 \in 0 .. m /\ ~ (n <= n - 1)
  BY <1>1
<1>3. n - 1 \in S
  BY <1>1, <1>2
<1> QED  BY <1>1, <1>2, <1>3

HomeTypes == heights \in [1 .. Photos -> Heights]

TopAt(g, n) ==
  IF n <= Start!Columns THEN 7 ELSE g[n - Start!Columns] + heights[n - Start!Columns]

\* The recursive definition of Top defines a function.
LEMMA TopUnfolds == Start!Top = [n \in 1 .. Photos + Start!Columns |-> TopAt(Start!Top, n)]
<1> DEFINE Defined(m) == \E g : g = [n \in 1 .. m |-> TopAt(g, n)]
           S == { m \in Nat : Defined(m) }
<1>1. 0 \in S
  <2>1. 1 .. 0 = {}
    OBVIOUS
  <2>2. [n \in 1 .. 0 |-> 0] = [n \in 1 .. 0 |-> TopAt([k \in 1 .. 0 |-> 0], n)]
    BY <2>1
  <2> QED  BY <2>2
<1>2. ASSUME NEW m \in Nat, m # 0, m - 1 \in S PROVE m \in S
  <2>1. PICK g : g = [n \in 1 .. m - 1 |-> TopAt(g, n)]
    BY <1>2
  <2> DEFINE h == [n \in 1 .. m |-> IF n = m THEN TopAt(g, m) ELSE g[n]]
  <2>2. ASSUME NEW n \in 1 .. m PROVE h[n] = TopAt(h, n)
    <3>1. h[n] = TopAt(g, n)
      BY <2>1
    <3>2. ~ (n <= Start!Columns) => n - Start!Columns \in 1 .. m /\ n - Start!Columns # m
      BY DEF Start!Columns
    <3> QED  BY <3>1, <3>2 DEF TopAt
  <2>3. h = [n \in 1 .. m |-> h[n]]
    OBVIOUS
  <2> HIDE DEF h
  <2>4. h = [n \in 1 .. m |-> TopAt(h, n)]
    BY <2>2, <2>3
  <2> QED  BY <2>4
<1>3. Photos + Start!Columns \in Nat
  BY HomeAssumption DEF Start!Columns
<1> HIDE DEF S
<1>4. Photos + Start!Columns \in S
  BY <1>1, <1>2, <1>3, UpTo
<1>5. PICK g : g = [n \in 1 .. Photos + Start!Columns |-> TopAt(g, n)]
  BY <1>4 DEF S
<1> QED  BY <1>5, Zenon DEF TopAt, Start!Top

LEMMA TopType ==
  ASSUME HomeTypes
  PROVE  \A n \in 1 .. Photos + Start!Columns : Start!Top[n] \in Nat
<1> DEFINE S == { m \in Nat : \A n \in 1 .. m : n <= Photos + 2 => Start!Top[n] \in Nat }
<1>1. 0 \in S
  OBVIOUS
<1>2. ASSUME NEW m \in Nat, m # 0, m - 1 \in S PROVE m \in S
  <2> SUFFICES ASSUME m <= Photos + 2 PROVE Start!Top[m] \in Nat
    BY <1>2
  <2>1. m \in 1 .. Photos + 2 /\ Photos \in Nat
    BY <1>2, HomeAssumption
  <2>2. Start!Top[m] = IF m <= 2 THEN 7 ELSE Start!Top[m - 2] + heights[m - 2]
    BY <2>1, TopUnfolds DEF TopAt, Start!Columns
  <2>3. CASE ~ (m <= 2)
    <3>1. m - 2 \in 1 .. m - 1 /\ m - 2 <= Photos + 2 /\ m - 2 \in 1 .. Photos
      BY <2>1, <2>3
    <3>2. Start!Top[m - 2] \in Nat
      BY <1>2, <3>1
    <3>3. heights[m - 2] \in Nat
      BY <3>1, HomeAssumption DEF HomeTypes
    <3> QED  BY <2>2, <2>3, <3>2, <3>3
  <2> QED  BY <2>2, <2>3
<1>3. Photos + 2 \in Nat
  BY HomeAssumption
<1> HIDE DEF S
<1>4. Photos + 2 \in S
  BY <1>1, <1>2, <1>3, UpTo
<1> QED  BY <1>4 DEF S, Start!Columns

\* One round of the loop of prepare().
LoopAt(g, n) ==
  IF n = 0
    THEN [column |-> 0, bottom |-> [c \in 0 .. Start!Columns - 1 |-> 7], frames |-> << >>]
    ELSE LET l == g[n - 1] IN
         [column |-> Start!NextColumn(l.column),
          bottom |-> [l.bottom EXCEPT ![l.column] = @ + heights[n]],
          frames |-> Append(l.frames,
                       Start!Frame(n + 1, l.column, l.bottom[l.column], 1, heights[n]))]

PhotoFrame(n) ==
  Start!Frame(n + 1, (n - 1) % Start!Columns, Start!Top[n], 1, heights[n])

\* What the loop has after n photos: the columns have been filled in turn.
Placed(n) ==
  [column |-> n % 2,
   bottom |-> [c \in 0 .. 1 |-> IF c = n % 2 THEN Start!Top[n + 1] ELSE Start!Top[n + 2]],
   frames |-> [i \in 1 .. n |-> PhotoFrame(i)]]

LEMMA PlacedNext ==
  ASSUME HomeTypes, NEW g, NEW n \in 0 .. Photos, n = 0 \/ g[n - 1] = Placed(n - 1)
  PROVE  LoopAt(g, n) = Placed(n)
<1>0. Photos \in Nat /\ n \in Nat
  BY HomeAssumption
<1>1. \A k \in 1 .. Photos + 2 :
        /\ Start!Top[k] = IF k <= 2 THEN 7 ELSE Start!Top[k - 2] + heights[k - 2]
        /\ Start!Top[k] \in Nat
  BY TopUnfolds, TopType DEF TopAt, Start!Columns
<1>2. CASE n = 0
  <2>1. Start!Top[1] = 7 /\ Start!Top[2] = 7
    BY <1>0, <1>1
  <2>2. [c \in 0 .. 1 |-> IF c = 0 % 2 THEN Start!Top[0 + 1] ELSE Start!Top[0 + 2]]
          = [c \in 0 .. 1 |-> 7]
    BY <2>1
  <2>3. [i \in 1 .. 0 |-> PhotoFrame(i)] = << >>
    OBVIOUS
  <2>4. 0 % 2 = 0
    OBVIOUS
  <2>5. Placed(0) = [column |-> 0, bottom |-> [c \in 0 .. 1 |-> 7], frames |-> << >>]
    BY <2>2, <2>3, <2>4 DEF Placed
  <2>6. 0 .. Start!Columns - 1 = 0 .. 1
    BY DEF Start!Columns
  <2> QED  BY <1>2, <2>5, <2>6 DEF LoopAt
<1>3. CASE n # 0
  <2> DEFINE l == Placed(n - 1)
             a == (n - 1) % 2
  <2>1. LoopAt(g, n) =
          [column |-> Start!NextColumn(l.column),
           bottom |-> [l.bottom EXCEPT ![l.column] = @ + heights[n]],
           frames |-> Append(l.frames,
                        Start!Frame(n + 1, l.column, l.bottom[l.column], 1, heights[n]))]
    BY <1>3 DEF LoopAt
  <2>2. /\ n \in 1 .. Photos /\ (n - 1) + 1 = n /\ (n - 1) + 2 = n + 1
        /\ a \in 0 .. 1 /\ n % 2 \in 0 .. 1 /\ n % 2 # a
        /\ n % 2 = IF a < 1 THEN a + 1 ELSE 0
    BY <1>0, <1>3
  <2>3. /\ l.column = a
        /\ l.bottom = [c \in 0 .. 1 |-> IF c = a THEN Start!Top[n] ELSE Start!Top[n + 1]]
        /\ l.frames = [i \in 1 .. n - 1 |-> PhotoFrame(i)]
    BY <2>2 DEF Placed
  <2>4. Start!Top[n + 2] = Start!Top[n] + heights[n]
    <3>1. n + 2 \in 1 .. Photos + 2 /\ ~ (n + 2 <= 2) /\ (n + 2) - 2 = n
      BY <1>0, <2>2
    <3> QED  BY <1>1, <3>1
  <2> HIDE DEF l, a
  <2>5. Start!NextColumn(l.column) = n % 2
    BY <2>2, <2>3 DEF Start!NextColumn, Start!Columns
  <2>6. [l.bottom EXCEPT ![l.column] = @ + heights[n]]
          = [c \in 0 .. 1 |-> IF c = n % 2 THEN Start!Top[n + 1] ELSE Start!Top[n + 2]]
    BY <2>2, <2>3, <2>4
  <2>7. Start!Frame(n + 1, l.column, l.bottom[l.column], 1, heights[n]) = PhotoFrame(n)
    BY <2>2, <2>3 DEF PhotoFrame, Start!Columns, a
  <2>8. Append(l.frames, PhotoFrame(n)) = [i \in 1 .. n |-> PhotoFrame(i)]
    <3> DEFINE F == { PhotoFrame(i) : i \in 1 .. n }
               frames == l.frames
               new == [i \in 1 .. n |-> PhotoFrame(i)]
    <3>1. frames \in [1 .. n - 1 -> F] /\ PhotoFrame(n) \in F
      BY <1>0, <2>2, <2>3
    <3>2. \A i \in 1 .. n : new[i] = IF i = n THEN PhotoFrame(n) ELSE frames[i]
      BY <1>0, <2>2, <2>3
    <3>3. new = [i \in 1 .. n |-> new[i]]
      OBVIOUS
    <3> HIDE DEF F, frames, new
    <3>4. frames \in Seq(F) /\ Len(frames) = n - 1
      BY <1>0, <2>2, <3>1
    <3>5. Append(frames, PhotoFrame(n)) \in [1 .. n -> F]
      <4>1. /\ Append(frames, PhotoFrame(n)) \in Seq(F)
            /\ Len(Append(frames, PhotoFrame(n))) = n
        BY <1>0, <3>1, <3>4, AppendProperties
      <4> QED  BY <4>1, LenProperties
    <3>6. \A i \in 1 .. n : Append(frames, PhotoFrame(n))[i] = new[i]
      BY <1>0, <2>2, <3>1, <3>2, <3>4, AppendProperties
    <3>7. Append(frames, PhotoFrame(n)) = new
      BY <3>3, <3>5, <3>6
    <3> QED  BY <3>7 DEF frames, new
  <2> QED  BY <2>1, <2>5, <2>6, <2>7, <2>8 DEF Placed
<1> QED  BY <1>2, <1>3

LEMMA LoopUnfolds ==
  ASSUME HomeTypes
  PROVE  Start!Loop = [n \in 0 .. Photos |-> LoopAt(Start!Loop, n)]
<1> DEFINE g == [n \in 0 .. Photos |-> Placed(n)]
<1>1. ASSUME NEW n \in 0 .. Photos PROVE g[n] = LoopAt(g, n)
  <2>1. n = 0 \/ g[n - 1] = Placed(n - 1)
    BY HomeAssumption
  <2> HIDE DEF g
  <2>2. LoopAt(g, n) = Placed(n)
    BY <2>1, PlacedNext
  <2> QED  BY <2>2 DEF g
<1>2. g = [n \in 0 .. Photos |-> g[n]]
  OBVIOUS
<1> HIDE DEF g
<1>3. g = [n \in 0 .. Photos |-> LoopAt(g, n)]
  BY <1>1, <1>2
<1> QED  BY <1>3, Zenon DEF LoopAt, Start!Loop

\* The loop puts every photo where it belongs.
LEMMA LoopPlaces ==
  ASSUME HomeTypes
  PROVE  Start!Loop[Photos] = Placed(Photos)
<1> DEFINE S == { n \in Nat : n <= Photos => Start!Loop[n] = Placed(n) }
<1>0. Photos \in Nat
  BY HomeAssumption
<1>1. \A n \in 0 .. Photos : Start!Loop[n] = LoopAt(Start!Loop, n)
  BY LoopUnfolds
<1>2. 0 \in S
  <2>1. LoopAt(Start!Loop, 0) = Placed(0)
    BY <1>0, PlacedNext
  <2> QED  BY <1>0, <1>1, <2>1
<1>3. ASSUME NEW n \in 1 .. Photos, n - 1 \in S PROVE n \in S
  <2>1. n \in 0 .. Photos /\ Start!Loop[n - 1] = Placed(n - 1)
    BY <1>0, <1>3
  <2>2. LoopAt(Start!Loop, n) = Placed(n)
    BY <2>1, PlacedNext
  <2> QED  BY <1>1, <2>1, <2>2
<1> HIDE DEF S
<1>4. Photos \in S
  BY <1>0, <1>2, <1>3, UpTo
<1> QED  BY <1>0, <1>4 DEF S

\* No photo so far reaches below both columns.
LEMMA NoneBelow ==
  ASSUME HomeTypes
  PROVE  \A k \in 1 .. Photos + 2 :
           Start!Top[k] <= Start!Top[Photos + 1] \/ Start!Top[k] <= Start!Top[Photos + 2]
<1> DEFINE Below(m) == \A k \in 1 .. m + 2 :
                         Start!Top[k] <= Start!Top[m + 1] \/ Start!Top[k] <= Start!Top[m + 2]
           S == { m \in Nat : m <= Photos => Below(m) }
<1>0. /\ Photos \in Nat
      /\ \A k \in 1 .. Photos + 2 :
           /\ Start!Top[k] = IF k <= 2 THEN 7 ELSE Start!Top[k - 2] + heights[k - 2]
           /\ Start!Top[k] \in Nat
      /\ \A k \in 1 .. Photos : heights[k] \in Nat
  BY HomeAssumption, TopUnfolds, TopType DEF TopAt, Start!Columns, HomeTypes
<1>1. 0 \in S
  BY <1>0
<1>2. ASSUME NEW m \in 1 .. Photos, m - 1 \in S PROVE m \in S
  <2>1. /\ m \in Nat /\ m + 2 \in 1 .. Photos + 2 /\ m \in 1 .. Photos + 2
        /\ m + 1 \in 1 .. Photos + 2 /\ (m + 2) - 2 = m /\ ~ (m + 2 <= 2)
        /\ (m - 1) + 1 = m /\ (m - 1) + 2 = m + 1
    BY <1>0
  <2>2. Start!Top[m + 2] = Start!Top[m] + heights[m]
    BY <1>0, <2>1
  <2>3. /\ Start!Top[m] \in Nat /\ Start!Top[m + 1] \in Nat /\ Start!Top[m + 2] \in Nat
        /\ heights[m] \in Nat
    BY <1>0, <2>1
  <2>4. Start!Top[m] <= Start!Top[m + 2]
    BY <2>2, <2>3
  <2>5. ASSUME NEW k \in 1 .. m + 2
        PROVE  Start!Top[k] <= Start!Top[m + 1] \/ Start!Top[k] <= Start!Top[m + 2]
    <3>1. k \in 1 .. Photos + 2 /\ (k = m + 2 \/ k \in 1 .. m + 1)
      BY <1>0
    <3>2. Start!Top[k] \in Nat
      BY <1>0, <3>1
    <3>3. k \in 1 .. m + 1 => Start!Top[k] <= Start!Top[m] \/ Start!Top[k] <= Start!Top[m + 1]
      BY <1>2, <2>1, <1>0
    <3>4. CASE k = m + 2
      BY <3>2, <3>4
    <3>5. CASE k \in 1 .. m + 1
      BY <2>3, <2>4, <3>2, <3>3, <3>5
    <3> QED  BY <3>1, <3>4, <3>5
  <2> QED  BY <2>1, <2>5
<1> HIDE DEF S
<1>3. Photos \in S
  <2>1. Photos \in Nat
    BY <1>0
  <2> QED  BY <1>1, <1>2, <2>1, UpTo
<1> QED  BY <1>0, <1>3 DEF S

LEMMA GreatestIsMax ==
  ASSUME NEW S, S \subseteq Int, NEW x \in S, \A y \in S : x >= y
  PROVE  Start!Max(S) = x
<1>1. \A y \in S : (\A z \in S : y >= z) => y = x
  OBVIOUS
<1> HIDE DEF Start!Max
<1>2. Start!Max(S) \in S /\ \A z \in S : Start!Max(S) >= z
  BY DEF Start!Max
<1> QED  BY <1>1, <1>2

\* The lower of the two columns ends where the lowest photo does.
LEMMA LowestPhoto ==
  ASSUME HomeTypes, Photos > 0
  PROVE  Start!Max({ Placed(Photos).bottom[c] : c \in 0 .. Start!Columns - 1 })
           = Start!Max({ Start!Bottom(n) : n \in 1 .. Photos })
<1> DEFINE a == Start!Top[Photos + 1]
           b == Start!Top[Photos + 2]
           columns == { Placed(Photos).bottom[c] : c \in 0 .. Start!Columns - 1 }
           photos == { Start!Bottom(n) : n \in 1 .. Photos }
           x == IF a <= b THEN b ELSE a
<1>0. /\ Photos \in Nat
      /\ \A k \in 1 .. Photos + 2 :
           /\ Start!Top[k] = IF k <= 2 THEN 7 ELSE Start!Top[k - 2] + heights[k - 2]
           /\ Start!Top[k] \in Nat
  BY HomeAssumption, TopUnfolds, TopType DEF TopAt, Start!Columns
<1>1. a \in Nat /\ b \in Nat
  <2>1. Photos + 1 \in 1 .. Photos + 2 /\ Photos + 2 \in 1 .. Photos + 2
    BY <1>0
  <2> QED  BY <1>0, <2>1
<1>2. columns = {a, b}
  <2>1. columns = { IF c = Photos % 2 THEN a ELSE b : c \in 0 .. 1 }
    BY DEF Placed, Start!Columns
  <2>2. Photos % 2 \in 0 .. 1
    BY <1>0
  <2> QED  BY <2>1, <2>2
<1>3. \A n \in 1 .. Photos : Start!Bottom(n) = Start!Top[n + 2] /\ Start!Top[n + 2] \in Nat
  <2> SUFFICES ASSUME NEW n \in 1 .. Photos
               PROVE  Start!Bottom(n) = Start!Top[n + 2] /\ Start!Top[n + 2] \in Nat
    OBVIOUS
  <2>1. n + 2 \in 1 .. Photos + 2 /\ ~ (n + 2 <= 2) /\ (n + 2) - 2 = n
    BY <1>0
  <2> QED  BY <1>0, <2>1 DEF Start!Bottom
<1>4. x \in photos
  <2>1. CASE a <= b
    <3>1. Photos \in 1 .. Photos
      BY <1>0
    <3> QED  BY <1>3, <2>1, <3>1
  <2>2. CASE ~ (a <= b)
    <3>1. Photos # 1
      <4>1. ASSUME Photos = 1 PROVE Start!Top[2] = 7 /\ Start!Top[3] = 7 + heights[1] /\ heights[1] \in Nat
        <5>1. 1 \in 1 .. 3 /\ 2 \in 1 .. 3 /\ 3 \in 1 .. 3 /\ 1 \in 1 .. 1
          OBVIOUS
        <5>2. heights[1] \in Nat
          BY <4>1, <5>1, HomeAssumption DEF HomeTypes
        <5>3. \A k \in 1 .. 3 : Start!Top[k] = IF k <= 2 THEN 7 ELSE Start!Top[k - 2] + heights[k - 2]
          BY <1>0, <4>1
        <5>4. Start!Top[3] = Start!Top[1] + heights[1]
          BY <5>1, <5>3
        <5> QED  BY <5>1, <5>2, <5>3, <5>4
      <4> QED  BY <2>2, <4>1
    <3>2. Photos - 1 \in 1 .. Photos /\ (Photos - 1) + 2 = Photos + 1
      BY <1>0, <3>1
    <3> QED  BY <1>3, <2>2, <3>2
  <2> QED  BY <2>1, <2>2
<1>5. \A y \in photos : y \in Nat /\ x >= y
  <2> SUFFICES ASSUME NEW n \in 1 .. Photos PROVE Start!Bottom(n) \in Nat /\ x >= Start!Bottom(n)
    OBVIOUS
  <2>1. n + 2 \in 1 .. Photos + 2
    BY <1>0
  <2>2. Start!Top[n + 2] <= a \/ Start!Top[n + 2] <= b
    BY <2>1, NoneBelow
  <2>3. Start!Bottom(n) = Start!Top[n + 2] /\ Start!Top[n + 2] \in Nat
    BY <1>3
  <2> HIDE DEF a, b
  <2> QED  BY <1>1, <2>2, <2>3
<1>6. x \in columns /\ columns \subseteq Int /\ \A y \in columns : x >= y
  <2> HIDE DEF a, b, columns
  <2> QED  BY <1>1, <1>2
<1>7. photos \subseteq Int
  BY <1>5
<1> HIDE DEF x, columns, photos
<1>8. Start!Max(columns) = x /\ Start!Max(photos) = x
  BY <1>4, <1>5, <1>6, <1>7, GreatestIsMax
<1> QED  BY <1>8 DEF columns, photos

\* PhotosInColumns speaks of every attribute in the cache: they are all of these.
InPlace ==
  { frame \in [item : Nat, x : Nat, y : Nat, width : Nat, height : Nat] :
      frame.item - 1 >= 1 => frame = PhotoFrame(frame.item - 1) }

ContentFits ==
  cache # << >> /\ Photos > 0 => contentHeight = Start!Max({ Start!Bottom(n) : n \in 1 .. Photos })

HomeInv == HomeTypes /\ cache \in Seq(InPlace) /\ ContentFits

\* Where photos belong depends on their heights alone.
LEMMA PlacesStay ==
  ASSUME heights' = heights
  PROVE  InPlace' = InPlace /\ \A n : Start!Bottom(n)' = Start!Bottom(n)
<1>1. Start!Top' = Start!Top
  BY Zenon DEF Start!Top
<1> QED  BY <1>1 DEF InPlace, PhotoFrame, Start!Bottom

LEMMA PrepareFrames ==
  ASSUME HomeTypes
  PROVE  /\ Start!Header \in Seq(InPlace)
         /\ Placed(Photos).frames \in Seq(InPlace)
<1>0. Photos \in Nat /\ 7 \in Nat
  BY HomeAssumption
<1>1. Start!Header \in Seq(InPlace)
  <2>1. /\ Start!Frame(0, 0, 0, Start!Columns, 6) \in InPlace
        /\ Start!Frame(1, 0, 6, Start!Columns, 1) \in InPlace
    BY DEF InPlace, Start!Frame, Start!Columns
  <2> QED  BY <2>1 DEF Start!Header
<1>2. ASSUME NEW n \in 1 .. Photos PROVE PhotoFrame(n) \in InPlace
  <2>1. /\ n \in Nat /\ n + 1 \in Nat /\ (n + 1) - 1 = n /\ (n - 1) % 2 \in Nat
        /\ n \in 1 .. Photos + 2
    BY <1>0
  <2>2. Start!Top[n] \in Nat /\ heights[n] \in Nat
    BY <2>1, TopType, HomeAssumption DEF HomeTypes, Start!Columns
  <2>3. /\ PhotoFrame(n) \in [item : Nat, x : Nat, y : Nat, width : Nat, height : Nat]
        /\ PhotoFrame(n).item = n + 1
    BY <2>1, <2>2 DEF PhotoFrame, Start!Frame, Start!Columns
  <2> QED  BY <2>1, <2>3 DEF InPlace
<1>3. Placed(Photos).frames \in [1 .. Photos -> InPlace]
  BY <1>2 DEF Placed
<1> QED  BY <1>0, <1>1, <1>3

LEMMA HomeStepKeeps == HomeInv /\ [Next]_vars => HomeInv'
<1> SUFFICES ASSUME HomeInv, [Next]_vars PROVE HomeInv'
  OBVIOUS
<1>0. HomeTypes /\ cache \in Seq(InPlace)
  BY DEF HomeInv
<1>1. ASSUME UNCHANGED << heights, cache, contentHeight >> PROVE HomeInv'
  BY <1>1, PlacesStay DEF HomeInv, HomeTypes, ContentFits
<1>2. ASSUME NewHome PROVE HomeInv'
  <2>1. heights' = heights /\ cache' = << >>
    BY <1>2 DEF NewHome
  <2> QED  BY <1>0, <2>1 DEF HomeInv, HomeTypes, ContentFits
<1>3. ASSUME Start!Prepare PROVE HomeInv'
  <2>1. Start!Loop[Photos] = Placed(Photos)
    BY <1>0, LoopPlaces
  <2>2. /\ heights' = heights
        /\ cache' = cache \o Start!Header \o Placed(Photos).frames
        /\ Photos > 0 =>
             contentHeight' = Start!Max({ Placed(Photos).bottom[c] : c \in 0 .. Start!Columns - 1 })
    BY <1>3, <2>1, HomeAssumption DEF Start!Prepare
  <2>3. cache' \in Seq(InPlace)
    BY <1>0, <2>2, PrepareFrames
  <2>4. ContentFits'
    <3> SUFFICES ASSUME Photos > 0
                 PROVE  contentHeight' = Start!Max({ Start!Bottom(n) : n \in 1 .. Photos })
      BY <2>2, PlacesStay DEF ContentFits
    <3> QED  BY <1>0, <2>2, LowestPhoto
  <2> QED  BY <1>0, <2>2, <2>3, <2>4, PlacesStay DEF HomeInv, HomeTypes
<1>4. ASSUME NEW page, Start!EndDecelerating(page) PROVE UNCHANGED << heights, cache, contentHeight >>
  BY <1>4 DEF Start!EndDecelerating, Start!Heard
<1> QED
  BY <1>1, <1>2, <1>3, <1>4
     DEF Next, PageStep, TapSignUpButton, HomeStep, Restart, SessionStep, HandleLogIn, AskToLogIn,
         Start!Next, vars, homeVars

\* Every photo of the waterfall is where it belongs, however many photos there
\* are, however high, and however often the layout is prepared.
THEOREM PhotosAreInColumns == Spec => []PhotosInColumns
<1>1. Init => HomeInv
  BY DEF Init, Start!Init, HomeInv, HomeTypes, ContentFits
<1>2. HomeInv => PhotosInColumns
  <2> SUFFICES ASSUME HomeInv, NEW i \in DOMAIN cache, cache[i].item - 1 >= 1
               PROVE  cache[i] = PhotoFrame(cache[i].item - 1)
    BY DEF PhotosInColumns, Start!PhotosInColumns, HomeInv, ContentFits, PhotoFrame
  <2>1. cache[i] \in InPlace
    BY DEF HomeInv
  <2> QED  BY <2>1 DEF InPlace
<1> QED  BY <1>1, <1>2, HomeStepKeeps, PTL DEF Spec
=============================================================================
