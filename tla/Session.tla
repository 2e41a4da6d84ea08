-------------------------------- MODULE Session --------------------------------
(***************************************************************************)
(* Who is signed in, whose profile the device keeps, and which accounts    *)
(* have a users document: the login view, onboarding, getUser, sign-out.   *)
(*                                                                         *)
(* The Sign in button asks Auth to sign in; when that fails, for whatever  *)
(* reason, its callback asks Auth to create the account, with the text     *)
(* fields as they are by then. Requests are answered off the main thread;  *)
(* nothing stops the user from pressing again or from typing meanwhile.    *)
(*                                                                         *)
(* An account is named by its email. A document, and the profile kept in   *)
(* UserDefaults, are told apart by the email they carry.                   *)
(***************************************************************************)
EXTENDS Integers, FiniteSets

CONSTANTS
    Emails,        \* what the user may type that is an email
    MaxPresses,    \* bound: how often Sign in is pressed
    MaxLaunches    \* bound: how often the process is started

nil   == "nil"   \* no user, no document, no keys
blank == ""      \* an empty text field, which is text all the same
Texts == Emails \cup {blank}

ASSUME EmailsAssumption == nil \notin Emails /\ blank \notin Emails
ASSUME PressesAssumption == MaxPresses \in Nat
ASSUME LaunchesAssumption == MaxLaunches \in Nat

VARIABLES
    \* Firebase.
    accounts,      \* the accounts Auth's server has
    docs,          \* users/<uid> on the server: the email it carries
    pending,       \* per account: the setData its write queue still holds
    \* Keychain and UserDefaults.
    currentUser,   \* Auth.auth().currentUser
    defaults,      \* the profile in UserDefaults: its emailLocal
    \* The process.
    view,          \* "dead", "login" or "home"
    sheet,         \* what covers the login view
    dataTextEmail, \* the email field
    main,          \* where the main thread is inside a handler
    request,       \* per press of Sign in: how far it is
    \* History.
    presses, launches,
    overlapped,    \* Sign in was pressed while an answer was outstanding
    edited,        \* the email was changed while an answer was outstanding
    leaked,        \* the keys were last touched for a user no longer signed in
    halfMade       \* accounts that lost their onboarding to a crash or to an
                   \* answer that did not arrive

firebase == <<accounts, docs, pending>>
history  == <<presses, launches, overlapped, edited, leaked, halfMade>>
vars == <<firebase, currentUser, defaults, view, sheet, dataTextEmail, main,
          request, history>>

Presses == 1..MaxPresses
Stages  == {"none", "signIn", "signedIn", "refused", "getUser", "answered",
            "create", "created", "welcomed", "done"}
Request == [at : Stages, email : Texts, doc : Texts \cup {nil}]

Running  == view # "dead"
MainFree == Running /\ main = "free"
OnLogin  == MainFree /\ view = "login" /\ sheet = "none"

Waiting == \E r \in Presses : request[r].at \notin {"none", "done"}
HasDoc(e) == docs[e] # nil \/ pending[e] # nil

Init ==
    /\ accounts \in SUBSET Emails
    /\ docs = [e \in Emails |-> IF e \in accounts THEN e ELSE nil]
    /\ pending = [e \in Emails |-> nil]
    /\ currentUser = nil /\ defaults = nil
    /\ view = "login" /\ sheet = "none" /\ dataTextEmail = blank
    /\ main = "free"
    /\ request = [r \in Presses |-> [at |-> "none", email |-> blank, doc |-> nil]]
    /\ presses = 0 /\ launches = 1
    /\ overlapped = FALSE /\ edited = FALSE /\ leaked = FALSE
    /\ halfMade = {}

(***************************************************************************)
(* Launch, and the login view                                              *)
(***************************************************************************)
\* viewDidLoad: the home view when the keychain has a user; getUser is not called.
Launch ==
    /\ view = "dead" /\ launches < MaxLaunches
    /\ launches' = launches + 1
    /\ view' = IF currentUser = nil THEN "login" ELSE "home"
    /\ dataTextEmail' = blank
    /\ UNCHANGED <<firebase, currentUser, defaults, sheet, main, request,
                   presses, overlapped, edited, leaked, halfMade>>

\* (mutant) The personal information form offers the email field too.
EditAnywhere(e) ==
    /\ MainFree /\ view = "login" /\ e # dataTextEmail
    /\ dataTextEmail' = e
    /\ edited' = (edited \/ Waiting)
    /\ UNCHANGED <<firebase, currentUser, defaults, view, sheet, main, request,
                   presses, launches, overlapped, leaked, halfMade>>

\* The text field, which a sheet covers.
EditEmail(e) ==
    /\ OnLogin /\ e # dataTextEmail
    /\ dataTextEmail' = e
    /\ edited' = (edited \/ Waiting)
    /\ UNCHANGED <<firebase, currentUser, defaults, view, sheet, main, request,
                   presses, launches, overlapped, leaked, halfMade>>

\* (mutant) The permissions are asked for before the answer is there.
SignInOptimistic(r) ==
    /\ OnLogin /\ r = presses + 1
    /\ presses' = r
    /\ request' = [request EXCEPT ![r] = [at |-> "signIn", doc |-> nil,
                                          email |-> dataTextEmail]]
    /\ overlapped' = (overlapped \/ Waiting)
    /\ sheet' = "permissions"
    /\ UNCHANGED <<firebase, currentUser, defaults, view, dataTextEmail, main,
                   launches, edited, leaked, halfMade>>

\* The Sign in button, which is never disabled: signIn with the field as it is.
SignIn(r) ==
    /\ OnLogin /\ r = presses + 1
    /\ presses' = r
    /\ request' = [request EXCEPT ![r] = [at |-> "signIn", doc |-> nil,
                                          email |-> dataTextEmail]]
    /\ overlapped' = (overlapped \/ Waiting)
    /\ UNCHANGED <<firebase, currentUser, defaults, view, sheet, dataTextEmail,
                   main, launches, edited, leaked, halfMade>>

\* Auth's answer: currentUser changes before the callback reaches the main queue.
SignInWorked(r) ==
    /\ Running /\ request[r].at = "signIn" /\ request[r].email \in accounts
    /\ currentUser' = request[r].email
    /\ request' = [request EXCEPT ![r].at = "signedIn"]
    /\ UNCHANGED <<firebase, defaults, view, sheet, dataTextEmail, main, history>>

\* No such account, a wrong password, or no network: the code cannot tell.
SignInFailed(r) ==
    /\ Running /\ request[r].at = "signIn"
    /\ request' = [request EXCEPT ![r].at = "refused"]
    /\ UNCHANGED <<firebase, currentUser, defaults, view, sheet, dataTextEmail,
                   main, history>>

\* A sheet asked for when the login view is gone, or covered, is never shown:
\* whatever covers it ends by removing it.
Presented(s) == IF view = "login" /\ sheet = "none" THEN s ELSE sheet

\* (mutant) Everyone is sent through onboarding.
SignInCallbackOnboards(r) ==
    /\ MainFree /\ request[r].at = "signedIn"
    /\ request' = [request EXCEPT ![r].at = "getUser"]
    /\ sheet' = Presented("personalInfo")
    /\ UNCHANGED <<firebase, currentUser, defaults, view, dataTextEmail, main,
                   history>>

\* The callback of a sign-in that worked: getUser and showPermissions.
SignInCallback(r) ==
    /\ MainFree /\ request[r].at = "signedIn"
    /\ request' = [request EXCEPT ![r].at = "getUser"]
    /\ sheet' = Presented("permissions")
    /\ UNCHANGED <<firebase, currentUser, defaults, view, dataTextEmail, main,
                   history>>

\* The callback of one that did not: createUser, with the field as it is now.
CreateUser(r) ==
    /\ MainFree /\ request[r].at = "refused"
    /\ request' = [request EXCEPT ![r].at = "create", ![r].email = dataTextEmail]
    /\ UNCHANGED <<firebase, currentUser, defaults, view, sheet, dataTextEmail,
                   main, history>>

\* Auth's server makes the account ...
AccountCreated(r) ==
    /\ Running /\ request[r].at = "create"
    /\ request[r].email \in Emails \ accounts
    /\ accounts' = accounts \cup {request[r].email}
    /\ request' = [request EXCEPT ![r].at = "created"]
    /\ UNCHANGED <<docs, pending, currentUser, defaults, view, sheet,
                   dataTextEmail, main, history>>

\* ... the answer signs the new user in ...
CreateWorked(r) ==
    /\ Running /\ request[r].at = "created"
    /\ currentUser' = request[r].email
    /\ request' = [request EXCEPT ![r].at = "welcomed"]
    /\ UNCHANGED <<firebase, defaults, view, sheet, dataTextEmail, main, history>>

\* (mutant) Only an address that is no email is reported.
CreateFailedEmpty(r) ==
    /\ Running /\ request[r].at \in {"create", "created"}
    /\ request[r].email = blank
    /\ halfMade' = IF request[r].at = "created"
                     THEN halfMade \cup {request[r].email} ELSE halfMade
    /\ request' = [request EXCEPT ![r].at = "done"]
    /\ UNCHANGED <<firebase, currentUser, defaults, view, sheet, dataTextEmail,
                   main, presses, launches, overlapped, edited, leaked>>

\* ... or reports an error (the account exists, the address is no email, the
\* network), possibly after the account was made. The callback does nothing.
CreateFailed(r) ==
    /\ Running /\ request[r].at \in {"create", "created"}
    /\ halfMade' = IF request[r].at = "created"
                     THEN halfMade \cup {request[r].email} ELSE halfMade
    /\ request' = [request EXCEPT ![r].at = "done"]
    /\ UNCHANGED <<firebase, currentUser, defaults, view, sheet, dataTextEmail,
                   main, presses, launches, overlapped, edited, leaked>>

\* The callback of createUser: continueOnboarding.
CreateCallback(r) ==
    /\ MainFree /\ request[r].at = "welcomed"
    /\ request' = [request EXCEPT ![r].at = "done"]
    /\ sheet' = Presented("personalInfo")
    /\ UNCHANGED <<firebase, currentUser, defaults, view, dataTextEmail, main,
                   history>>

(***************************************************************************)
(* getUser                                                                 *)
(***************************************************************************)
\* Firestore's worker has an answer: the document under the pending writes of
\* the user who is signed in. Without a document decoding fails in the callback.
GetUserAnswered(r) ==
    /\ Running /\ request[r].at = "getUser"
    /\ LET e == request[r].email
           doc == IF currentUser = e /\ pending[e] # nil THEN pending[e]
                                                         ELSE docs[e]
       IN  request' = [request EXCEPT
               ![r].at = IF doc = nil THEN "done" ELSE "answered",
               ![r].doc = doc]
    /\ UNCHANGED <<firebase, currentUser, defaults, view, sheet, dataTextEmail,
                   main, history>>

GetUserFailed(r) ==
    /\ Running /\ request[r].at = "getUser"
    /\ request' = [request EXCEPT ![r].at = "done"]
    /\ UNCHANGED <<firebase, currentUser, defaults, view, sheet, dataTextEmail,
                   main, history>>

\* (mutant) The callback decodes into the keys of a user without a document.
GetUserCallbackClears(r) ==
    /\ MainFree /\ request[r].at = "answered"
    /\ defaults' = "Full Name"
    /\ leaked' = (currentUser # request[r].email)
    /\ request' = [request EXCEPT ![r].at = "done"]
    /\ UNCHANGED <<firebase, currentUser, view, sheet, dataTextEmail, main,
                   presses, launches, overlapped, edited, halfMade>>

\* The callback overwrites every key, whoever is signed in by then.
GetUserCallback(r) ==
    /\ MainFree /\ request[r].at = "answered"
    /\ defaults' = request[r].doc
    /\ leaked' = (currentUser # request[r].email)
    /\ request' = [request EXCEPT ![r].at = "done"]
    /\ UNCHANGED <<firebase, currentUser, view, sheet, dataTextEmail, main,
                   presses, launches, overlapped, edited, halfMade>>

(***************************************************************************)
(* Onboarding                                                              *)
(***************************************************************************)
\* The permission sheet's onDisappear: the home view replaces the login view.
FinishPermissions ==
    /\ MainFree /\ sheet = "permissions"
    /\ view' = "home" /\ sheet' = "none"
    /\ UNCHANGED <<firebase, currentUser, defaults, dataTextEmail, main, request,
                   history>>

\* The personal information's onDisappear: the seven keys ...
FinishPersonalInfo ==
    /\ MainFree /\ sheet = "personalInfo"
    /\ defaults' = dataTextEmail
    /\ leaked' = FALSE
    /\ main' = "upload"
    /\ UNCHANGED <<firebase, currentUser, view, sheet, dataTextEmail, request,
                   presses, launches, overlapped, edited, halfMade>>

\* (mutant) The document is left to the first update.
UploadUserLater ==
    /\ Running /\ main = "upload"
    /\ main' = "free" /\ view' = "home" /\ sheet' = "none"
    /\ UNCHANGED <<firebase, currentUser, defaults, dataTextEmail, request,
                   history>>

\* ... then uploadUser, which sets the document of whoever is signed in now, and
\* the home view.
UploadUser ==
    /\ Running /\ main = "upload"
    /\ pending' = IF currentUser = nil THEN pending
                  ELSE [pending EXCEPT ![currentUser] = dataTextEmail]
    /\ main' = "free" /\ view' = "home" /\ sheet' = "none"
    /\ UNCHANGED <<accounts, docs, currentUser, defaults, dataTextEmail, request,
                   history>>

\* Firestore's worker sends the pending writes of the user who is signed in.
DocumentArrives ==
    /\ Running /\ currentUser # nil /\ pending[currentUser] # nil
    /\ docs' = [docs EXCEPT ![currentUser] = pending[currentUser]]
    /\ pending' = [pending EXCEPT ![currentUser] = nil]
    /\ UNCHANGED <<accounts, currentUser, defaults, view, sheet, dataTextEmail,
                   main, request, history>>

(***************************************************************************)
(* Signing out, and the end of the process                                 *)
(***************************************************************************)
\* The Sign Out button, up to Auth's signOut ...
SignOut ==
    /\ MainFree /\ view = "home"
    /\ currentUser' = nil
    /\ main' = "wipe"
    /\ UNCHANGED <<firebase, defaults, view, sheet, dataTextEmail, request,
                   history>>

\* (mutant) The identity keys are kept for the next sign-in.
RemoveNothing ==
    /\ Running /\ main = "wipe"
    /\ leaked' = FALSE /\ main' = "free"
    /\ UNCHANGED <<firebase, currentUser, defaults, view, sheet, dataTextEmail,
                   request, presses, launches, overlapped, edited, halfMade>>

\* ... and the keys. The home view is put back: no login before the next launch.
RemoveKeys ==
    /\ Running /\ main = "wipe"
    /\ defaults' = nil /\ leaked' = FALSE
    /\ main' = "free"
    /\ UNCHANGED <<firebase, currentUser, view, sheet, dataTextEmail, request,
                   presses, launches, overlapped, edited, halfMade>>

\* The process is killed: callbacks are lost, and with them an onboarding.
Crash ==
    /\ Running
    /\ view' = "dead" /\ sheet' = "none" /\ main' = "free"
    /\ request' = [r \in Presses |->
                      IF request[r].at = "none" THEN request[r]
                      ELSE [request[r] EXCEPT !.at = "done"]]
    /\ leaked' = (leaked \/ main = "wipe")
    /\ halfMade' = halfMade \cup {e \in accounts : ~HasDoc(e)}
    /\ UNCHANGED <<firebase, currentUser, defaults, dataTextEmail, presses,
                   launches, overlapped, edited>>

Answer(r) ==
    \/ SignInWorked(r) \/ SignInFailed(r)
    \/ AccountCreated(r) \/ CreateWorked(r) \/ CreateFailed(r)
    \/ GetUserAnswered(r) \/ GetUserFailed(r)
Callback(r) == \/ SignInCallback(r) \/ CreateUser(r) \/ CreateCallback(r)
               \/ GetUserCallback(r)
MainStep == UploadUser \/ RemoveKeys

Next ==
    \/ Launch \/ Crash \/ SignOut \/ FinishPermissions \/ FinishPersonalInfo
    \/ MainStep \/ DocumentArrives
    \/ \E e \in Texts : EditEmail(e)
    \/ \E r \in Presses : SignIn(r) \/ Answer(r) \/ Callback(r)

Spec == Init /\ [][Next]_vars

\* A running handler goes on; Auth and Firestore answer, if only with an error;
\* the main queue is FIFO, so that a callback is
\* run however often the main thread is busy. The user owes nothing.
Fairness ==
    /\ WF_vars(MainStep)
    /\ \A r \in Presses : WF_vars(Answer(r)) /\ SF_vars(Callback(r))

FairSpec == Spec /\ Fairness

(***************************************************************************)
(* Properties                                                              *)
(***************************************************************************)
\* Every variable has the type of the state it stands for.
TypeOK ==
    /\ accounts \in SUBSET Emails
    /\ docs \in [Emails -> Texts \cup {nil}]
    /\ pending \in [Emails -> Texts \cup {nil}]
    /\ currentUser \in Emails \cup {nil}
    /\ defaults \in Texts \cup {nil}
    /\ view \in {"dead", "login", "home"}
    /\ sheet \in {"none", "permissions", "personalInfo"}
    /\ dataTextEmail \in Texts
    /\ main \in {"free", "upload", "wipe"}
    /\ request \in [Presses -> Request]
    /\ presses \in 0..MaxPresses
    /\ launches \in Nat
    /\ overlapped \in BOOLEAN /\ edited \in BOOLEAN /\ leaked \in BOOLEAN
    /\ halfMade \in SUBSET Emails

\* The profile that the home view shows is that of the user who is signed in,
\* across sign-outs, crashes and other users of the device. The exceptions are
\* exactly these: the email was edited under an outstanding request, or the keys
\* were last touched by a getUser callback that came after its user's sign-out,
\* or survived a crash between signOut and their removal.
ProfileIsOwn ==
    view = "home" /\ currentUser # nil /\ defaults # nil /\ ~edited /\ ~leaked
        => defaults = currentUser

\* Every document carries the email of its account, unless the email was edited
\* while createUser was outstanding.
DocumentNamesItsAccount ==
    ~edited => \A e \in Emails : /\ docs[e] \in {e, nil}
                                 /\ pending[e] \in {e, nil}

\* An account without a document is being onboarded, or lost its onboarding to a
\* crash or an unanswered createUser, or Sign in was pressed twice.
InOnboarding(e) ==
    \/ \E r \in Presses : request[r].email = e
                          /\ request[r].at \in {"created", "welcomed"}
    \/ currentUser = e /\ sheet = "personalInfo"
AccountsHaveDocuments ==
    ~overlapped => \A e \in accounts \ halfMade : HasDoc(e) \/ InOnboarding(e)

\* Onboarding, whose setData replaces a whole document with zeros, never finds
\* one in place, unless the email was edited under an outstanding request.
OnboardingKeepsDocuments ==
    [][\A e \in Emails : pending'[e] \notin {pending[e], nil}
                            => edited \/ ~HasDoc(e)]_vars

\* Once signed out, the process stays signed out, unless Sign in was pressed
\* twice: there is no login view before the next launch.
SignedOutStays ==
    [][view = "home" /\ currentUser = nil => currentUser' = nil \/ overlapped]_vars

\* Every press of Sign in is settled, unless the process dies: a callback is
\* always called.
RequestsSettle ==
    \A r \in Presses : request[r].at = "signIn" ~> request[r].at = "done"

=============================================================================
