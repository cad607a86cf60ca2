------------------------------ MODULE Session ------------------------------
(***************************************************************************)
(* Registering and signing in, on one device.  A registration creates an   *)
(* account in Firebase Auth and then writes a profile to the Database; a   *)
(* log-in by e-mail builds the main window; a sign-in with Google creates  *)
(* an account too and builds nothing.                                      *)
(*                                                                         *)
(* Requests stand for taps; they bound a behaviour.  A step of the server  *)
(* and the callback that handles it are steps of their own.                *)
(***************************************************************************)
EXTENDS Integers, Dictionary

CONSTANTS
  Email,    \* valid addresses, with passwords that are long enough
  Request   \* the taps on sign-up, log-in and Google sign-in

VARIABLES
  root,          \* what the window shows: "tutorial" or "main"
  signUpScreen,  \* the sign-up screen covers the tutorial
  accounts,      \* the accounts of Firebase Auth
  profiles,      \* the e-mail addresses under users/ in the Database
  requests       \* the requests made so far (finished ones are kept as history)

vars == << root, signUpScreen, accounts, profiles, requests >>

Kind == {"signUp", "logIn", "google"}

\* A sign-up is asked, created, writing, registered; a log-in or a Google
\* sign-in is asked, granted, entered.  Each may be refused, fail half-way, or be
\* lost with its process; an orphan may still reach the server.
UnderWay == {"asked", "created", "writing", "granted", "orphan", "orphanWriting"}

Ended == {"registered", "entered", "refused", "failed", "lost"}

RequestRecord == [kind : Kind, email : Email, stage : UnderWay \cup Ended]

\* Accounts registered before have their profiles.
Init ==
  /\ root = "tutorial"
  /\ signUpScreen = FALSE
  /\ accounts \in SUBSET Email
  /\ profiles = accounts
  /\ requests = EmptyDict

At(q, kind, stage) ==
  q \in DOMAIN requests /\ requests[q].kind = kind /\ requests[q].stage = stage

Moved(q, stage) == requests' = [requests EXCEPT ![q].stage = stage]

Ask(q, kind, email) ==
  /\ q \notin DOMAIN requests
  /\ requests' = Updated(requests, q, [kind |-> kind, email |-> email, stage |-> "asked"])
  /\ UNCHANGED << root, signUpScreen, accounts, profiles >>

-----------------------------------------------------------------------------
(* Registering *)

\* The tutorial's sign-up button presents a sheet, which can be pulled down.
OpenSignUp ==
  /\ root = "tutorial"
  /\ ~ signUpScreen
  /\ signUpScreen' = TRUE
  /\ UNCHANGED << root, accounts, profiles, requests >>

CloseSignUp ==
  /\ signUpScreen
  /\ signUpScreen' = FALSE
  /\ UNCHANGED << root, accounts, profiles, requests >>

\* The button stays enabled while an earlier tap is being served.
TapSignUp(q, email) == signUpScreen /\ Ask(q, "signUp", email)

\* The server creates the account, unless there is one.
CreateAccount(q) ==
  /\ At(q, "signUp", "asked")
  /\ requests[q].email \notin accounts
  /\ accounts' = accounts \cup {requests[q].email}
  /\ Moved(q, "created")
  /\ UNCHANGED << root, signUpScreen, profiles >>

\* Mutant: an account is all that a registration needs.
HandleCreatedOnly(q) ==
  /\ At(q, "signUp", "created")
  /\ Moved(q, "registered")
  /\ UNCHANGED << root, signUpScreen, accounts, profiles >>

\* createUser's callback writes the profile.
HandleCreated(q) ==
  /\ At(q, "signUp", "created")
  /\ Moved(q, "writing")
  /\ UNCHANGED << root, signUpScreen, accounts, profiles >>

\* The profile is stored.  Nothing is called on success: the screen stays.
WriteProfile(q) ==
  /\ At(q, "signUp", "writing")
  /\ profiles' = profiles \cup {requests[q].email}
  /\ Moved(q, "registered")
  /\ UNCHANGED << root, signUpScreen, accounts >>

\* There is such an account, or the server cannot be reached.
SignUpRefused(q) ==
  /\ At(q, "signUp", "asked")
  /\ Moved(q, "refused")
  /\ UNCHANGED << root, signUpScreen, accounts, profiles >>

\* The answer to the created account is lost, the profile is refused, or it is
\* stored and the answer is lost: the error is printed.
SignUpFails(q) ==
  /\ \/ At(q, "signUp", "created") /\ UNCHANGED profiles
     \/ At(q, "signUp", "writing") /\ profiles' \in {profiles, profiles \cup {requests[q].email}}
  /\ Moved(q, "failed")
  /\ UNCHANGED << root, signUpScreen, accounts >>

-----------------------------------------------------------------------------
(* Signing in *)

\* The log-in page is the tutorial's last one.
TapLogIn(q, email) == root = "tutorial" /\ ~ signUpScreen /\ Ask(q, "logIn", email)

\* Google's own screen; it is also shown when the log-in page is loaded.
TapGoogle(q, email) == root = "tutorial" /\ ~ signUpScreen /\ Ask(q, "google", email)

\* The server knows the account and the password is right.
GrantLogIn(q) ==
  /\ At(q, "logIn", "asked")
  /\ requests[q].email \in accounts
  /\ Moved(q, "granted")
  /\ UNCHANGED << root, signUpScreen, accounts, profiles >>

\* signIn(with: credential) creates the account if there is none.
GrantGoogle(q) ==
  /\ At(q, "google", "asked")
  /\ accounts' = accounts \cup {requests[q].email}
  /\ Moved(q, "granted")
  /\ UNCHANGED << root, signUpScreen, profiles >>

SignInFails(q) ==
  /\ At(q, "logIn", "asked") \/ At(q, "google", "asked")
  /\ Moved(q, "refused")
  /\ UNCHANGED << root, signUpScreen, accounts, profiles >>

\* Mutant: the error is not looked at.
HandleLogInAnyhow(q) ==
  /\ At(q, "logIn", "granted") \/ At(q, "logIn", "refused")
  /\ root' = "main"
  /\ signUpScreen' = FALSE
  /\ Moved(q, "entered")
  /\ UNCHANGED << accounts, profiles >>

\* switchingView: a new window with new tabs, whatever is on the old one.
HandleLogIn(q) ==
  /\ At(q, "logIn", "granted")
  /\ root' = "main"
  /\ signUpScreen' = FALSE
  /\ Moved(q, "entered")
  /\ UNCHANGED << accounts, profiles >>

-----------------------------------------------------------------------------
(* The process *)

Forgotten(r) ==
  CASE r.kind # "logIn" /\ r.stage = "asked" -> [r EXCEPT !.stage = "orphan"]
    [] r.stage = "writing" -> [r EXCEPT !.stage = "orphanWriting"]
    [] r.stage \in {"registered", "refused", "failed", "orphan", "orphanWriting"} -> r
    [] OTHER -> [r EXCEPT !.stage = "lost"]

\* The app is killed and started again, with the tutorial.  Firebase Auth would
\* know the user, but nobody asks it.
Restart ==
  /\ root' = "tutorial"
  /\ signUpScreen' = FALSE
  /\ requests' = [q \in DOMAIN requests |-> Forgotten(requests[q])]
  /\ UNCHANGED << accounts, profiles >>

\* The request of a process that has died creates its account all the same,
\* unless it is a registration and there is one.
OrphanCreates(q) ==
  /\ q \in DOMAIN requests
  /\ requests[q].stage = "orphan"
  /\ requests[q].kind = "signUp" => requests[q].email \notin accounts
  /\ accounts' = accounts \cup {requests[q].email}
  /\ Moved(q, "lost")
  /\ UNCHANGED << root, signUpScreen, profiles >>

\* A profile under way when the process died is stored all the same.
OrphanWrites(q) ==
  /\ At(q, "signUp", "orphanWriting")
  /\ profiles' = profiles \cup {requests[q].email}
  /\ Moved(q, "lost")
  /\ UNCHANGED << root, signUpScreen, accounts >>

-----------------------------------------------------------------------------

Progress(q) ==
  \/ CreateAccount(q) \/ HandleCreated(q) \/ WriteProfile(q) \/ SignUpRefused(q) \/ SignUpFails(q)
  \/ GrantLogIn(q) \/ GrantGoogle(q) \/ SignInFails(q) \/ HandleLogIn(q)

Next ==
  \/ OpenSignUp \/ CloseSignUp \/ Restart
  \/ \E q \in Request : \/ Progress(q) \/ OrphanCreates(q) \/ OrphanWrites(q)
                        \/ \E email \in Email :
                             TapSignUp(q, email) \/ TapLogIn(q, email) \/ TapGoogle(q, email)

Spec == Init /\ [][Next]_vars

-----------------------------------------------------------------------------
(* Properties *)

\* Type correctness of the window, the server's tables and the requests.
TypeOK ==
  /\ root \in {"tutorial", "main"}
  /\ signUpScreen \in BOOLEAN
  /\ accounts \subseteq Email
  /\ profiles \subseteq Email
  /\ IsDict(requests, Request, RequestRecord)

\* The requests that made an account and did not complete it with a profile.
HasLost(q) ==
  \/ requests[q].kind = "google" /\ requests[q].stage \in {"granted", "lost"}
  \/ /\ requests[q].kind = "signUp"
     /\ requests[q].stage \in {"created", "writing", "orphanWriting", "failed", "lost"}

\* A registration that was completed has left both an account and a profile.
\* Where a profile is missing, the account was made by a registration that is
\* still writing it, failed after that or died with the app, or by Google: never
\* by one that was refused; and no profile is without its account (signUp's two
\* steps, retried at will).
AccountsExplained ==
  /\ profiles \subseteq accounts
  /\ \A email \in accounts \ profiles :
       \E q \in DOMAIN requests : requests[q].email = email /\ HasLost(q)
  /\ \A q \in DOMAIN requests : requests[q].stage = "registered" => requests[q].email \in profiles

\* The main window is shown only to a user whose log-in by e-mail was granted
\* since the app was started, however many requests are answered in whatever
\* order (didTapLoginButton, switchingView).
MainNeedsLogIn ==
  root = "main" =>
    \E q \in DOMAIN requests : At(q, "logIn", "entered") /\ requests[q].email \in accounts
=============================================================================
