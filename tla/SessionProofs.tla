----------------------------- MODULE SessionProofs -----------------------------
(***************************************************************************)
(* Proofs about Session, for every set of emails and every number of       *)
(* presses and launches.                                                   *)
(***************************************************************************)
EXTENDS Session, TLAPS

(***************************************************************************)
(* The inductive invariant                                                 *)
(***************************************************************************)
Outstanding(r) == request[r].at \notin {"none", "done"}

\* What a press has come to before its callback has changed the login view.
OnItsWay == {"signIn", "signedIn", "refused", "create", "created", "welcomed"}

\* A sheet covers the login view, for a user who is signed in; the onboarding's
\* last statements run under it.
SheetOnLogin ==
    /\ sheet # "none" => view = "login" /\ currentUser # nil
    /\ main = "upload" => sheet = "personalInfo"
    /\ view = "dead" => main = "free"

\* In the login view nobody is signed in but by a request that has not been
\* handled, or under a sheet.
LoginMeansNobody ==
    view = "login" /\ sheet = "none" /\ currentUser # nil
        => \E r \in Presses : request[r].at \in {"signedIn", "welcomed"}

\* The stages of a request.
RequestStages ==
    \A r \in Presses :
        /\ r > presses => request[r].at = "none"
        /\ Outstanding(r) => view # "dead"
        /\ request[r].at \in {"signedIn", "welcomed"} /\ view = "login"
               => currentUser # nil
        /\ request[r].at \in {"getUser", "answered"}
               => view = "home" \/ sheet # "none"
        /\ request[r].at \in {"signedIn", "created", "welcomed"}
               => request[r].email \in accounts
        /\ request[r].at \in {"getUser", "answered"} => request[r].email \in Emails
        /\ request[r].at = "answered" => request[r].doc # nil

\* Whoever is signed in has an account, and so has every document.
AccountsCover ==
    /\ currentUser # nil => currentUser \in accounts
    /\ \A e \in Emails : HasDoc(e) => e \in accounts

\* As long as nobody types under an outstanding request, everything that is under
\* way in the login view is about the address in the field.
OneAddress ==
    ~edited =>
        /\ \A r \in Presses : Outstanding(r) => request[r].email = dataTextEmail
        /\ view = "login" /\ currentUser # nil => currentUser = dataTextEmail
        /\ \A r \in Presses : request[r].at = "answered"
                                  => request[r].doc = request[r].email

\* A new account has no document before its onboarding has written one.
NewAccountsAreEmpty ==
    ~edited /\ view = "login" =>
        /\ \A r \in Presses : request[r].at \in {"created", "welcomed"}
                                  => ~HasDoc(request[r].email)
        /\ sheet = "personalInfo" => ~HasDoc(currentUser)

\* The keys in UserDefaults are nobody's, or those of the user signed in, and
\* agree with what a request under way will make of the user.
KeysAreOwn ==
    ~leaked =>
        /\ currentUser = nil /\ main # "wipe" => defaults = nil
        /\ view = "login" /\ sheet = "none" => defaults = nil
        /\ ~edited /\ defaults # nil =>
               /\ currentUser # nil => defaults = currentUser
               /\ Waiting => defaults = dataTextEmail

\* Without a second press under an outstanding request there is one at most, and
\* the login view is as it was until its callback.
OneAtATime ==
    ~overlapped =>
        /\ \A r, s \in Presses : Outstanding(r) /\ Outstanding(s) => r = s
        /\ \A r \in Presses : request[r].at \in OnItsWay
                                  => view = "login" /\ sheet = "none"
        /\ \A r \in Presses : request[r].at = "welcomed"
                                  => currentUser = request[r].email

SessionInv ==
    /\ TypeOK
    /\ SheetOnLogin
    /\ LoginMeansNobody
    /\ RequestStages
    /\ AccountsCover
    /\ DocumentNamesItsAccount
    /\ OneAddress
    /\ NewAccountsAreEmpty
    /\ KeysAreOwn
    /\ OneAtATime
    /\ AccountsHaveDocuments

(***************************************************************************)
(* Every step preserves it: one lemma per action                           *)
(***************************************************************************)
\* No user is nobody's name, and an empty text field is a text all the same.
LEMMA Names == nil # blank /\ nil \notin Texts
  BY EmailsAssumption DEF nil, blank, Texts

\* A step of the request of press r, and of no other.
Moves(r, at, email, doc) ==
    /\ request' \in [Presses -> Request]
    /\ request'[r].at = at
    /\ request'[r].email = email
    /\ request'[r].doc = doc
    /\ \A s \in Presses \ {r} : request'[s] = request[s]

\* viewDidLoad starts a process without requests or sheets, on the home view when
\* the keychain has a user.
LEMMA InvLaunch ==
  ASSUME SessionInv, Launch
  PROVE  SessionInv'
<1>1. /\ view = "dead" /\ launches' = launches + 1
      /\ view' = IF currentUser = nil THEN "login" ELSE "home"
      /\ dataTextEmail' = blank
      /\ UNCHANGED <<accounts, docs, pending, currentUser, defaults, sheet, main,
                     request, presses, overlapped, edited, leaked, halfMade>>
  BY DEF Launch, firebase, history
<1> USE Names, PressesAssumption DEF SessionInv, TypeOK, Request, Texts, Presses,
        Running, MainFree, OnLogin
<1>2. TypeOK'
  BY <1>1 DEF RequestStages
<1>3. SheetOnLogin' /\ LoginMeansNobody' /\ RequestStages' /\ AccountsCover'
  BY <1>1 DEF SheetOnLogin, LoginMeansNobody, RequestStages, AccountsCover,
     Outstanding, HasDoc
<1>4. DocumentNamesItsAccount' /\ OneAddress'
  BY <1>1 DEF DocumentNamesItsAccount, OneAddress, Outstanding, RequestStages,
     SheetOnLogin, Waiting, LoginMeansNobody
<1>5. NewAccountsAreEmpty'
  BY <1>1 DEF NewAccountsAreEmpty, HasDoc, OneAddress, AccountsCover, SheetOnLogin,
     RequestStages, Outstanding
<1>6. KeysAreOwn'
  BY <1>1 DEF KeysAreOwn, Waiting, OneAddress, SheetOnLogin, RequestStages,
     Outstanding, DocumentNamesItsAccount
<1>7. OneAtATime'
  BY <1>1 DEF OneAtATime, Outstanding, OnItsWay, Waiting, SheetOnLogin
<1>8. AccountsHaveDocuments'
  BY <1>1 DEF AccountsHaveDocuments, HasDoc, InOnboarding, OneAtATime, Outstanding,
     OnItsWay, RequestStages, SheetOnLogin, AccountsCover
<1> QED
  BY <1>2, <1>3, <1>4, <1>5, <1>6, <1>7, <1>8

\* Typing while a request is outstanding is what edited records; otherwise nothing is
\* under way that the field could disagree with.
LEMMA InvEditEmail ==
  ASSUME SessionInv, NEW e \in Texts, EditEmail(e)
  PROVE  SessionInv'
<1>1. /\ OnLogin /\ dataTextEmail' = e /\ edited' = (edited \/ Waiting)
      /\ UNCHANGED <<accounts, docs, pending, currentUser, defaults, view, sheet,
                     main, request, presses, launches, overlapped, leaked, halfMade>>
  BY DEF EditEmail, firebase, history
<1> USE Names, PressesAssumption DEF SessionInv, TypeOK, Request, Texts, Presses,
        Running, MainFree, OnLogin
<1>2. TypeOK'
  BY <1>1 DEF RequestStages
<1>3. SheetOnLogin' /\ LoginMeansNobody' /\ RequestStages' /\ AccountsCover'
  BY <1>1 DEF SheetOnLogin, LoginMeansNobody, RequestStages, AccountsCover,
     Outstanding, HasDoc
<1>4. DocumentNamesItsAccount' /\ OneAddress'
  BY <1>1 DEF DocumentNamesItsAccount, OneAddress, Outstanding, RequestStages,
     SheetOnLogin, Waiting, LoginMeansNobody
<1>5. NewAccountsAreEmpty'
  BY <1>1 DEF NewAccountsAreEmpty, HasDoc, OneAddress, AccountsCover, SheetOnLogin,
     RequestStages, Outstanding
<1>6. KeysAreOwn'
  BY <1>1 DEF KeysAreOwn, Waiting, OneAddress, SheetOnLogin, RequestStages,
     Outstanding, DocumentNamesItsAccount
<1>7. OneAtATime'
  BY <1>1 DEF OneAtATime, Outstanding, OnItsWay, Waiting, SheetOnLogin
<1>8. AccountsHaveDocuments'
  BY <1>1 DEF AccountsHaveDocuments, HasDoc, InOnboarding, OneAtATime, Outstanding,
     OnItsWay, RequestStages, SheetOnLogin, AccountsCover
<1> QED
  BY <1>2, <1>3, <1>4, <1>5, <1>6, <1>7, <1>8

\* The Sign Out button ends in the wipe stage: the keys are still there.
LEMMA InvSignOut ==
  ASSUME SessionInv, SignOut
  PROVE  SessionInv'
<1>1. /\ MainFree /\ view = "home" /\ currentUser' = nil /\ main' = "wipe"
      /\ UNCHANGED <<accounts, docs, pending, defaults, view, sheet, dataTextEmail,
                     request, presses, launches, overlapped, edited, leaked,
                     halfMade>>
  BY DEF SignOut, firebase, history
<1> USE Names, PressesAssumption DEF SessionInv, TypeOK, Request, Texts, Presses,
        Running, MainFree, OnLogin
<1>2. TypeOK'
  BY <1>1 DEF RequestStages
<1>3. SheetOnLogin' /\ LoginMeansNobody' /\ RequestStages' /\ AccountsCover'
  BY <1>1 DEF SheetOnLogin, LoginMeansNobody, RequestStages, AccountsCover,
     Outstanding, HasDoc
<1>4. DocumentNamesItsAccount' /\ OneAddress'
  BY <1>1 DEF DocumentNamesItsAccount, OneAddress, Outstanding, RequestStages,
     SheetOnLogin, Waiting, LoginMeansNobody
<1>5. NewAccountsAreEmpty'
  BY <1>1 DEF NewAccountsAreEmpty, HasDoc, OneAddress, AccountsCover, SheetOnLogin,
     RequestStages, Outstanding
<1>6. KeysAreOwn'
  BY <1>1 DEF KeysAreOwn, Waiting, OneAddress, SheetOnLogin, RequestStages,
     Outstanding, DocumentNamesItsAccount
<1>7. OneAtATime'
  BY <1>1 DEF OneAtATime, Outstanding, OnItsWay, Waiting, SheetOnLogin
<1>8. AccountsHaveDocuments'
  BY <1>1 DEF AccountsHaveDocuments, HasDoc, InOnboarding, OneAtATime, Outstanding,
     OnItsWay, RequestStages, SheetOnLogin, AccountsCover
<1> QED
  BY <1>2, <1>3, <1>4, <1>5, <1>6, <1>7, <1>8

\* The permission sheet goes, with the login view.
LEMMA InvFinishPermissions ==
  ASSUME SessionInv, FinishPermissions
  PROVE  SessionInv'
<1>1. /\ MainFree /\ sheet = "permissions" /\ view' = "home" /\ sheet' = "none"
      /\ UNCHANGED <<accounts, docs, pending, currentUser, defaults, dataTextEmail,
                     main, request, presses, launches, overlapped, edited, leaked,
                     halfMade>>
  BY DEF FinishPermissions, firebase, history
<1> USE Names, PressesAssumption DEF SessionInv, TypeOK, Request, Texts, Presses,
        Running, MainFree, OnLogin
<1>2. TypeOK'
  BY <1>1 DEF RequestStages
<1>3. SheetOnLogin' /\ LoginMeansNobody' /\ RequestStages' /\ AccountsCover'
  BY <1>1 DEF SheetOnLogin, LoginMeansNobody, RequestStages, AccountsCover,
     Outstanding, HasDoc
<1>4. DocumentNamesItsAccount' /\ OneAddress'
  BY <1>1 DEF DocumentNamesItsAccount, OneAddress, Outstanding, RequestStages,
     SheetOnLogin, Waiting, LoginMeansNobody
<1>5. NewAccountsAreEmpty'
  BY <1>1 DEF NewAccountsAreEmpty, HasDoc, OneAddress, AccountsCover, SheetOnLogin,
     RequestStages, Outstanding
<1>6. KeysAreOwn'
  BY <1>1 DEF KeysAreOwn, Waiting, OneAddress, SheetOnLogin, RequestStages,
     Outstanding, DocumentNamesItsAccount
<1>7. OneAtATime'
  BY <1>1 DEF OneAtATime, Outstanding, OnItsWay, Waiting, SheetOnLogin
<1>8. AccountsHaveDocuments'
  BY <1>1 DEF AccountsHaveDocuments, HasDoc, InOnboarding, OneAtATime, Outstanding,
     OnItsWay, RequestStages, SheetOnLogin, AccountsCover
<1> QED
  BY <1>2, <1>3, <1>4, <1>5, <1>6, <1>7, <1>8

\* The seven keys are written while the login view is still there.
LEMMA InvFinishPersonalInfo ==
  ASSUME SessionInv, FinishPersonalInfo
  PROVE  SessionInv'
<1>1. /\ MainFree /\ sheet = "personalInfo"
      /\ defaults' = dataTextEmail /\ leaked' = FALSE /\ main' = "upload"
      /\ UNCHANGED <<accounts, docs, pending, currentUser, view, sheet, dataTextEmail,
                     request, presses, launches, overlapped, edited, halfMade>>
  BY DEF FinishPersonalInfo, firebase, history
<1> USE Names, PressesAssumption DEF SessionInv, TypeOK, Request, Texts, Presses,
        Running, MainFree, OnLogin
<1>2. TypeOK'
  BY <1>1 DEF RequestStages
<1>3. SheetOnLogin' /\ LoginMeansNobody' /\ RequestStages' /\ AccountsCover'
  BY <1>1 DEF SheetOnLogin, LoginMeansNobody, RequestStages, AccountsCover,
     Outstanding, HasDoc
<1>4. DocumentNamesItsAccount' /\ OneAddress'
  BY <1>1 DEF DocumentNamesItsAccount, OneAddress, Outstanding, RequestStages,
     SheetOnLogin, Waiting, LoginMeansNobody
<1>5. NewAccountsAreEmpty'
  BY <1>1 DEF NewAccountsAreEmpty, HasDoc, OneAddress, AccountsCover, SheetOnLogin,
     RequestStages, Outstanding
<1>6. KeysAreOwn'
  BY <1>1 DEF KeysAreOwn, Waiting, OneAddress, SheetOnLogin, RequestStages,
     Outstanding, DocumentNamesItsAccount
<1>7. OneAtATime'
  BY <1>1 DEF OneAtATime, Outstanding, OnItsWay, Waiting, SheetOnLogin
<1>8. AccountsHaveDocuments'
  BY <1>1 DEF AccountsHaveDocuments, HasDoc, InOnboarding, OneAtATime, Outstanding,
     OnItsWay, RequestStages, SheetOnLogin, AccountsCover
<1> QED
  BY <1>2, <1>3, <1>4, <1>5, <1>6, <1>7, <1>8

\* The rest of the sign-out: the keys are gone.
LEMMA InvRemoveKeys ==
  ASSUME SessionInv, RemoveKeys
  PROVE  SessionInv'
<1>1. /\ Running /\ main = "wipe" /\ defaults' = nil /\ leaked' = FALSE
      /\ main' = "free"
      /\ UNCHANGED <<accounts, docs, pending, currentUser, view, sheet, dataTextEmail,
                     request, presses, launches, overlapped, edited, halfMade>>
  BY DEF RemoveKeys, firebase, history
<1> USE Names, PressesAssumption DEF SessionInv, TypeOK, Request, Texts, Presses,
        Running, MainFree, OnLogin
<1>2. TypeOK'
  BY <1>1 DEF RequestStages
<1>3. SheetOnLogin' /\ LoginMeansNobody' /\ RequestStages' /\ AccountsCover'
  BY <1>1 DEF SheetOnLogin, LoginMeansNobody, RequestStages, AccountsCover,
     Outstanding, HasDoc
<1>4. DocumentNamesItsAccount' /\ OneAddress'
  BY <1>1 DEF DocumentNamesItsAccount, OneAddress, Outstanding, RequestStages,
     SheetOnLogin, Waiting, LoginMeansNobody
<1>5. NewAccountsAreEmpty'
  BY <1>1 DEF NewAccountsAreEmpty, HasDoc, OneAddress, AccountsCover, SheetOnLogin,
     RequestStages, Outstanding
<1>6. KeysAreOwn'
  BY <1>1 DEF KeysAreOwn, Waiting, OneAddress, SheetOnLogin, RequestStages,
     Outstanding, DocumentNamesItsAccount
<1>7. OneAtATime'
  BY <1>1 DEF OneAtATime, Outstanding, OnItsWay, Waiting, SheetOnLogin
<1>8. AccountsHaveDocuments'
  BY <1>1 DEF AccountsHaveDocuments, HasDoc, InOnboarding, OneAtATime, Outstanding,
     OnItsWay, RequestStages, SheetOnLogin, AccountsCover
<1> QED
  BY <1>2, <1>3, <1>4, <1>5, <1>6, <1>7, <1>8

\* A press of Sign in: one more request, which overlaps if another one is outstanding.
LEMMA InvSignIn ==
  ASSUME SessionInv, NEW r \in Presses, SignIn(r)
  PROVE  SessionInv'
<1>1. Moves(r, "signIn", dataTextEmail, nil) /\ request[r] \in Request
  BY DEF SignIn, Moves, SessionInv, TypeOK, Request, Stages, Texts
<1>2. /\ OnLogin /\ r = presses + 1 /\ presses' = r
      /\ overlapped' = (overlapped \/ Waiting)
      /\ UNCHANGED <<accounts, docs, pending, currentUser, defaults, view, sheet,
                     dataTextEmail, main, launches, edited, leaked, halfMade>>
  BY DEF SignIn, firebase
<1>3. presses \in Nat /\ presses' \in 0..MaxPresses
  BY <1>2, PressesAssumption DEF SessionInv, TypeOK, Presses
<1>4. ~overlapped' => ~overlapped /\ ~Waiting
  BY <1>2, Zenon DEF SessionInv, TypeOK
<1> USE Names, PressesAssumption DEF SessionInv, TypeOK, Request, Texts, Presses,
        Running, MainFree, OnLogin, Moves
<1>5. TypeOK'
  BY <1>1, <1>2, <1>3
<1>6. SheetOnLogin' /\ LoginMeansNobody' /\ RequestStages' /\ AccountsCover'
  <2>1. SheetOnLogin' /\ AccountsCover'
    BY <1>2 DEF SheetOnLogin, AccountsCover, HasDoc
  <2>2. LoginMeansNobody'
    <3>1. request[r].at = "none"
      BY <1>2, <1>3 DEF RequestStages
    <3> QED
      BY <1>1, <1>2, <3>1 DEF LoginMeansNobody
  <2>3. RequestStages'
    BY <1>1, <1>2, <1>3 DEF RequestStages, Outstanding
  <2> QED
    BY <2>1, <2>2, <2>3
<1>7. DocumentNamesItsAccount' /\ OneAddress'
  <2>1. DocumentNamesItsAccount'
    BY <1>2 DEF DocumentNamesItsAccount
  <2>2. ASSUME ~edited, NEW s \in Presses
        PROVE  /\ Outstanding(s)' => request'[s].email = dataTextEmail
               /\ request'[s].at = "answered" => request'[s].doc = request'[s].email
    <3>1. CASE s = r
      BY <1>1, <3>1
    <3>2. CASE s # r
      BY <1>1, <2>2, <3>2 DEF OneAddress, Outstanding
    <3> QED
      BY <3>1, <3>2
  <2>3. OneAddress'
    BY <1>2, <2>2 DEF OneAddress
  <2> QED
    BY <2>1, <2>3
<1>8. NewAccountsAreEmpty'
  BY <1>1, <1>2 DEF NewAccountsAreEmpty, HasDoc
<1>9. KeysAreOwn'
  BY <1>1, <1>2 DEF KeysAreOwn, Waiting
<1>10. OneAtATime'
  <2> SUFFICES ASSUME ~overlapped' PROVE OneAtATime'
    BY DEF OneAtATime
  <2>1. \A s \in Presses : ~Outstanding(s)
    BY <1>4 DEF Waiting, Outstanding
  <2>2. \A s \in Presses \ {r} : ~Outstanding(s)' /\ request'[s].at \notin OnItsWay
    BY <2>1, <1>1 DEF Outstanding, OnItsWay
  <2> QED
    BY <1>1, <1>2, <2>2 DEF OneAtATime, Outstanding, OnItsWay
<1>11. AccountsHaveDocuments'
  BY <1>1, <1>2, <1>4 DEF AccountsHaveDocuments, HasDoc, InOnboarding, RequestStages,
     Waiting
<1> QED
  BY <1>5, <1>6, <1>7, <1>8, <1>9, <1>10, <1>11

\* Auth signs in the address that the request was made with.
LEMMA InvSignInWorked ==
  ASSUME SessionInv, NEW r \in Presses, SignInWorked(r)
  PROVE  SessionInv'
<1>1. Moves(r, "signedIn", request[r].email, request[r].doc) /\ request[r] \in Request
  BY DEF SignInWorked, Moves, SessionInv, TypeOK, Request, Stages, Texts
<1>2. /\ Running /\ request[r].at = "signIn" /\ request[r].email \in accounts
      /\ currentUser' = request[r].email
      /\ UNCHANGED <<accounts, docs, pending, defaults, view, sheet, dataTextEmail,
                     main, history>>
  BY DEF SignInWorked, firebase
<1> USE Names, PressesAssumption DEF SessionInv, TypeOK, Request, Texts, Presses,
        Running, MainFree, OnLogin, Moves, history
<1>3. TypeOK'
  BY <1>1, <1>2 DEF RequestStages
<1>4. SheetOnLogin' /\ LoginMeansNobody' /\ RequestStages' /\ AccountsCover'
  BY <1>1, <1>2 DEF SheetOnLogin, LoginMeansNobody, RequestStages, AccountsCover,
     Outstanding, HasDoc
<1>5. DocumentNamesItsAccount' /\ OneAddress'
  BY <1>1, <1>2 DEF DocumentNamesItsAccount, OneAddress, Outstanding, RequestStages,
     SheetOnLogin, Waiting, LoginMeansNobody
<1>6. NewAccountsAreEmpty'
  BY <1>1, <1>2 DEF NewAccountsAreEmpty, HasDoc, OneAddress, AccountsCover,
     SheetOnLogin, RequestStages, Outstanding
<1>7. KeysAreOwn'
  BY <1>1, <1>2 DEF KeysAreOwn, Waiting, OneAddress, SheetOnLogin, RequestStages,
     Outstanding, DocumentNamesItsAccount
<1>8. OneAtATime'
  BY <1>1, <1>2 DEF OneAtATime, Outstanding, OnItsWay, Waiting, SheetOnLogin
<1>9. AccountsHaveDocuments'
  BY <1>1, <1>2 DEF AccountsHaveDocuments, HasDoc, InOnboarding, OneAtATime,
     Outstanding, OnItsWay, RequestStages, SheetOnLogin, AccountsCover
<1> QED
  BY <1>3, <1>4, <1>5, <1>6, <1>7, <1>8, <1>9

\* A refused sign-in changes the request only.
LEMMA InvSignInFailed ==
  ASSUME SessionInv, NEW r \in Presses, SignInFailed(r)
  PROVE  SessionInv'
<1>1. Moves(r, "refused", request[r].email, request[r].doc) /\ request[r] \in Request
  BY DEF SignInFailed, Moves, SessionInv, TypeOK, Request, Stages, Texts
<1>2. /\ Running /\ request[r].at = "signIn"
      /\ UNCHANGED <<accounts, docs, pending, currentUser, defaults, view, sheet,
                     dataTextEmail, main, history>>
  BY DEF SignInFailed, firebase
<1> USE Names, PressesAssumption DEF SessionInv, TypeOK, Request, Texts, Presses,
        Running, MainFree, OnLogin, Moves, history
<1>3. TypeOK'
  BY <1>1, <1>2 DEF RequestStages
<1>4. SheetOnLogin' /\ LoginMeansNobody' /\ RequestStages' /\ AccountsCover'
  BY <1>1, <1>2 DEF SheetOnLogin, LoginMeansNobody, RequestStages, AccountsCover,
     Outstanding, HasDoc
<1>5. DocumentNamesItsAccount' /\ OneAddress'
  BY <1>1, <1>2 DEF DocumentNamesItsAccount, OneAddress, Outstanding, RequestStages,
     SheetOnLogin, Waiting, LoginMeansNobody
<1>6. NewAccountsAreEmpty'
  BY <1>1, <1>2 DEF NewAccountsAreEmpty, HasDoc, OneAddress, AccountsCover,
     SheetOnLogin, RequestStages, Outstanding
<1>7. KeysAreOwn'
  BY <1>1, <1>2 DEF KeysAreOwn, Waiting, OneAddress, SheetOnLogin, RequestStages,
     Outstanding, DocumentNamesItsAccount
<1>8. OneAtATime'
  BY <1>1, <1>2 DEF OneAtATime, Outstanding, OnItsWay, Waiting, SheetOnLogin
<1>9. AccountsHaveDocuments'
  BY <1>1, <1>2 DEF AccountsHaveDocuments, HasDoc, InOnboarding, OneAtATime,
     Outstanding, OnItsWay, RequestStages, SheetOnLogin, AccountsCover
<1> QED
  BY <1>3, <1>4, <1>5, <1>6, <1>7, <1>8, <1>9

\* A new account has no document: documents belong to accounts.
LEMMA InvAccountCreated ==
  ASSUME SessionInv, NEW r \in Presses, AccountCreated(r)
  PROVE  SessionInv'
<1>1. Moves(r, "created", request[r].email, request[r].doc) /\ request[r] \in Request
  BY DEF AccountCreated, Moves, SessionInv, TypeOK, Request, Stages, Texts
<1>2. /\ Running /\ request[r].at = "create"
      /\ request[r].email \in Emails \ accounts
      /\ accounts' = accounts \cup {request[r].email}
      /\ UNCHANGED <<docs, pending, currentUser, defaults, view, sheet, dataTextEmail,
                     main, history>>
  BY DEF AccountCreated, firebase
<1> USE Names, PressesAssumption DEF SessionInv, TypeOK, Request, Texts, Presses,
        Running, MainFree, OnLogin, Moves, history
<1>3. TypeOK'
  BY <1>1, <1>2 DEF RequestStages
<1>4. SheetOnLogin' /\ LoginMeansNobody' /\ AccountsCover'
  BY <1>1, <1>2 DEF SheetOnLogin, LoginMeansNobody, AccountsCover, HasDoc
<1>5. RequestStages'
  BY <1>1, <1>2 DEF RequestStages, Outstanding
<1>6. DocumentNamesItsAccount' /\ OneAddress'
  BY <1>1, <1>2 DEF DocumentNamesItsAccount, OneAddress, Outstanding, RequestStages,
     SheetOnLogin, Waiting, LoginMeansNobody
<1>7. NewAccountsAreEmpty'
  BY <1>1, <1>2 DEF NewAccountsAreEmpty, HasDoc, OneAddress, AccountsCover,
     SheetOnLogin, RequestStages, Outstanding
<1>8. KeysAreOwn'
  BY <1>1, <1>2 DEF KeysAreOwn, Waiting, OneAddress, SheetOnLogin, RequestStages,
     Outstanding, DocumentNamesItsAccount
<1>9. OneAtATime'
  BY <1>1, <1>2 DEF OneAtATime, Outstanding, OnItsWay, Waiting, SheetOnLogin
<1>10. AccountsHaveDocuments'
  BY <1>1, <1>2 DEF AccountsHaveDocuments, HasDoc, InOnboarding, OneAtATime,
     Outstanding, OnItsWay, RequestStages, SheetOnLogin, AccountsCover
<1> QED
  BY <1>3, <1>4, <1>5, <1>6, <1>7, <1>8, <1>9, <1>10

\* createUser's answer signs the new user in.
LEMMA InvCreateWorked ==
  ASSUME SessionInv, NEW r \in Presses, CreateWorked(r)
  PROVE  SessionInv'
<1>1. Moves(r, "welcomed", request[r].email, request[r].doc) /\ request[r] \in Request
  BY DEF CreateWorked, Moves, SessionInv, TypeOK, Request, Stages, Texts
<1>2. /\ Running /\ request[r].at = "created" /\ currentUser' = request[r].email
      /\ UNCHANGED <<accounts, docs, pending, defaults, view, sheet, dataTextEmail,
                     main, history>>
  BY DEF CreateWorked, firebase
<1> USE Names, PressesAssumption DEF SessionInv, TypeOK, Request, Texts, Presses,
        Running, MainFree, OnLogin, Moves, history
<1>3. TypeOK'
  BY <1>1, <1>2 DEF RequestStages
<1>4. SheetOnLogin' /\ LoginMeansNobody' /\ RequestStages' /\ AccountsCover'
  BY <1>1, <1>2 DEF SheetOnLogin, LoginMeansNobody, RequestStages, AccountsCover,
     Outstanding, HasDoc
<1>5. DocumentNamesItsAccount' /\ OneAddress'
  <2>1. DocumentNamesItsAccount'
    BY <1>2 DEF DocumentNamesItsAccount
  <2>2. OneAddress'
    <3>1. ~edited => request[r].email = dataTextEmail
      BY <1>2 DEF OneAddress, Outstanding
    <3> QED
      BY <1>1, <1>2, <3>1 DEF OneAddress, Outstanding
  <2> QED
    BY <2>1, <2>2
<1>6. NewAccountsAreEmpty'
  BY <1>1, <1>2 DEF NewAccountsAreEmpty, HasDoc, OneAddress, AccountsCover,
     SheetOnLogin, RequestStages, Outstanding
<1>7. KeysAreOwn'
  BY <1>1, <1>2 DEF KeysAreOwn, Waiting, OneAddress, SheetOnLogin, RequestStages,
     Outstanding, DocumentNamesItsAccount
<1>8. OneAtATime'
  BY <1>1, <1>2 DEF OneAtATime, Outstanding, OnItsWay, Waiting, SheetOnLogin
<1>9. AccountsHaveDocuments'
  BY <1>1, <1>2 DEF AccountsHaveDocuments, HasDoc, InOnboarding, OneAtATime,
     Outstanding, OnItsWay, RequestStages, SheetOnLogin, AccountsCover
<1> QED
  BY <1>3, <1>4, <1>5, <1>6, <1>7, <1>8, <1>9

\* createUser's error may leave an account behind, which halfMade then has.
LEMMA InvCreateFailed ==
  ASSUME SessionInv, NEW r \in Presses, CreateFailed(r)
  PROVE  SessionInv'
<1>1. Moves(r, "done", request[r].email, request[r].doc) /\ request[r] \in Request
  BY DEF CreateFailed, Moves, SessionInv, TypeOK, Request, Stages, Texts
<1>2. /\ Running /\ request[r].at \in {"create", "created"}
      /\ halfMade' = IF request[r].at = "created" THEN halfMade \cup {request[r].email}
                        ELSE halfMade
      /\ UNCHANGED <<accounts, docs, pending, currentUser, defaults, view, sheet,
                     dataTextEmail, main, presses, launches, overlapped, edited,
                     leaked>>
  BY DEF CreateFailed, firebase
<1> USE Names, PressesAssumption DEF SessionInv, TypeOK, Request, Texts, Presses,
        Running, MainFree, OnLogin, Moves, history
<1>3. TypeOK'
  BY <1>1, <1>2 DEF RequestStages
<1>4. SheetOnLogin' /\ LoginMeansNobody' /\ RequestStages' /\ AccountsCover'
  BY <1>1, <1>2 DEF SheetOnLogin, LoginMeansNobody, RequestStages, AccountsCover,
     Outstanding, HasDoc
<1>5. DocumentNamesItsAccount' /\ OneAddress'
  BY <1>1, <1>2 DEF DocumentNamesItsAccount, OneAddress, Outstanding, RequestStages,
     SheetOnLogin, Waiting, LoginMeansNobody
<1>6. NewAccountsAreEmpty'
  BY <1>1, <1>2 DEF NewAccountsAreEmpty, HasDoc, OneAddress, AccountsCover,
     SheetOnLogin, RequestStages, Outstanding
<1>7. KeysAreOwn'
  BY <1>1, <1>2 DEF KeysAreOwn, Waiting, OneAddress, SheetOnLogin, RequestStages,
     Outstanding, DocumentNamesItsAccount
<1>8. OneAtATime'
  BY <1>1, <1>2 DEF OneAtATime, Outstanding, OnItsWay, Waiting, SheetOnLogin
<1>9. AccountsHaveDocuments'
  BY <1>1, <1>2 DEF AccountsHaveDocuments, HasDoc, InOnboarding, OneAtATime,
     Outstanding, OnItsWay, RequestStages, SheetOnLogin, AccountsCover
<1> QED
  BY <1>3, <1>4, <1>5, <1>6, <1>7, <1>8, <1>9

\* The document that getUser answers with carries the address that was asked for.
LEMMA InvGetUserAnswered ==
  ASSUME SessionInv, NEW r \in Presses, GetUserAnswered(r)
  PROVE  SessionInv'
<1>0. request[r] \in Request /\ request[r].at = "getUser" /\ request[r].email \in Emails
  BY DEF SessionInv, TypeOK, RequestStages, GetUserAnswered
<1> DEFINE e == request[r].email
           doc == IF currentUser = e /\ pending[e] # nil THEN pending[e] ELSE docs[e]
<1>1. doc \in Texts \cup {nil}
  BY <1>0 DEF SessionInv, TypeOK
<1>2. Moves(r, IF doc = nil THEN "done" ELSE "answered", e, doc)
  BY <1>0, <1>1 DEF GetUserAnswered, Moves, SessionInv, TypeOK, Request, Stages, Texts
<1>3. ~edited => doc \in {e, nil}
  BY <1>0 DEF SessionInv, DocumentNamesItsAccount
<1>4. Running /\ UNCHANGED <<accounts, docs, pending, currentUser, defaults, view,
                             sheet, dataTextEmail, main, history>>
  BY DEF GetUserAnswered, firebase
<1> HIDE DEF doc
<1> USE Names, PressesAssumption DEF SessionInv, TypeOK, Request, Texts, Presses, 
        Running, Moves, history
<1>5. TypeOK'
  BY <1>0, <1>1, <1>2, <1>4
<1>6. SheetOnLogin' /\ LoginMeansNobody' /\ RequestStages' /\ AccountsCover'
  <2>1. SheetOnLogin' /\ AccountsCover'
    BY <1>4 DEF SheetOnLogin, AccountsCover, HasDoc
  <2>2. LoginMeansNobody'
    BY <1>0, <1>2, <1>4 DEF LoginMeansNobody, RequestStages
  <2>3. RequestStages'
    BY <1>0, <1>2, <1>4 DEF RequestStages, Outstanding
  <2> QED
    BY <2>1, <2>2, <2>3
<1>7. DocumentNamesItsAccount'
  BY <1>4 DEF DocumentNamesItsAccount
<1>8. OneAddress'
  BY <1>0, <1>2, <1>3, <1>4 DEF OneAddress, Outstanding
<1>9. NewAccountsAreEmpty' /\ KeysAreOwn'
  <2>1. NewAccountsAreEmpty'
    BY <1>0, <1>2, <1>4 DEF NewAccountsAreEmpty, HasDoc
  <2>2. Waiting' => Waiting
    BY <1>0, <1>2 DEF Waiting
  <2>3. KeysAreOwn'
    BY <1>4, <2>2 DEF KeysAreOwn
  <2> QED
    BY <2>1, <2>3
<1>10. OneAtATime' /\ AccountsHaveDocuments'
  BY <1>0, <1>2, <1>4 DEF OneAtATime, Outstanding, OnItsWay, AccountsHaveDocuments,
     HasDoc, InOnboarding
<1> QED
  BY <1>5, <1>6, <1>7, <1>8, <1>9, <1>10

\* A failed getUser changes the request only.
LEMMA InvGetUserFailed ==
  ASSUME SessionInv, NEW r \in Presses, GetUserFailed(r)
  PROVE  SessionInv'
<1>1. Moves(r, "done", request[r].email, request[r].doc) /\ request[r] \in Request
  BY DEF GetUserFailed, Moves, SessionInv, TypeOK, Request, Stages, Texts
<1>2. /\ Running /\ request[r].at = "getUser"
      /\ UNCHANGED <<accounts, docs, pending, currentUser, defaults, view, sheet,
                     dataTextEmail, main, history>>
  BY DEF GetUserFailed, firebase
<1> USE Names, PressesAssumption DEF SessionInv, TypeOK, Request, Texts, Presses,
        Running, MainFree, OnLogin, Moves, history
<1>3. TypeOK'
  BY <1>1, <1>2 DEF RequestStages
<1>4. SheetOnLogin' /\ LoginMeansNobody' /\ RequestStages' /\ AccountsCover'
  BY <1>1, <1>2 DEF SheetOnLogin, LoginMeansNobody, RequestStages, AccountsCover,
     Outstanding, HasDoc
<1>5. DocumentNamesItsAccount' /\ OneAddress'
  BY <1>1, <1>2 DEF DocumentNamesItsAccount, OneAddress, Outstanding, RequestStages,
     SheetOnLogin, Waiting, LoginMeansNobody
<1>6. NewAccountsAreEmpty'
  BY <1>1, <1>2 DEF NewAccountsAreEmpty, HasDoc, OneAddress, AccountsCover,
     SheetOnLogin, RequestStages, Outstanding
<1>7. KeysAreOwn'
  BY <1>1, <1>2 DEF KeysAreOwn, Waiting, OneAddress, SheetOnLogin, RequestStages,
     Outstanding, DocumentNamesItsAccount
<1>8. OneAtATime'
  BY <1>1, <1>2 DEF OneAtATime, Outstanding, OnItsWay, Waiting, SheetOnLogin
<1>9. AccountsHaveDocuments'
  BY <1>1, <1>2 DEF AccountsHaveDocuments, HasDoc, InOnboarding, OneAtATime,
     Outstanding, OnItsWay, RequestStages, SheetOnLogin, AccountsCover
<1> QED
  BY <1>3, <1>4, <1>5, <1>6, <1>7, <1>8, <1>9

\* The permissions are asked for on a login view that is still there.
LEMMA InvSignInCallback ==
  ASSUME SessionInv, NEW r \in Presses, SignInCallback(r)
  PROVE  SessionInv'
<1>1. Moves(r, "getUser", request[r].email, request[r].doc) /\ request[r] \in Request
  BY DEF SignInCallback, Moves, SessionInv, TypeOK, Request, Stages, Texts
<1>2. /\ MainFree /\ request[r].at = "signedIn"
      /\ sheet' = Presented("permissions")
      /\ UNCHANGED <<accounts, docs, pending, currentUser, defaults, view,
                     dataTextEmail, main, history>>
  BY DEF SignInCallback, firebase
<1> USE Names, PressesAssumption DEF SessionInv, TypeOK, Request, Texts, Presses,
        Running, MainFree, OnLogin, Moves, history, Presented
<1>3. TypeOK'
  BY <1>1, <1>2 DEF RequestStages
<1>4. SheetOnLogin' /\ LoginMeansNobody' /\ RequestStages' /\ AccountsCover'
  BY <1>1, <1>2 DEF SheetOnLogin, LoginMeansNobody, RequestStages, AccountsCover,
     Outstanding, HasDoc
<1>5. DocumentNamesItsAccount' /\ OneAddress'
  BY <1>1, <1>2 DEF DocumentNamesItsAccount, OneAddress, Outstanding, RequestStages,
     SheetOnLogin, Waiting, LoginMeansNobody
<1>6. NewAccountsAreEmpty'
  BY <1>1, <1>2 DEF NewAccountsAreEmpty, HasDoc, OneAddress, AccountsCover,
     SheetOnLogin, RequestStages, Outstanding
<1>7. KeysAreOwn'
  BY <1>1, <1>2 DEF KeysAreOwn, Waiting, OneAddress, SheetOnLogin, RequestStages,
     Outstanding, DocumentNamesItsAccount
<1>8. OneAtATime'
  BY <1>1, <1>2 DEF OneAtATime, Outstanding, OnItsWay, Waiting, SheetOnLogin
<1>9. AccountsHaveDocuments'
  BY <1>1, <1>2 DEF AccountsHaveDocuments, HasDoc, InOnboarding, OneAtATime,
     Outstanding, OnItsWay, RequestStages, SheetOnLogin, AccountsCover
<1> QED
  BY <1>3, <1>4, <1>5, <1>6, <1>7, <1>8, <1>9

\* createUser takes the address from the field.
LEMMA InvCreateUser ==
  ASSUME SessionInv, NEW r \in Presses, CreateUser(r)
  PROVE  SessionInv'
<1>1. Moves(r, "create", dataTextEmail, request[r].doc) /\ request[r] \in Request
  BY DEF CreateUser, Moves, SessionInv, TypeOK, Request, Stages, Texts
<1>2. /\ MainFree /\ request[r].at = "refused"
      /\ UNCHANGED <<accounts, docs, pending, currentUser, defaults, view, sheet,
                     dataTextEmail, main, history>>
  BY DEF CreateUser, firebase
<1> USE Names, PressesAssumption DEF SessionInv, TypeOK, Request, Texts, Presses,
        Running, MainFree, OnLogin, Moves, history
<1>3. TypeOK'
  BY <1>1, <1>2 DEF RequestStages
<1>4. SheetOnLogin' /\ LoginMeansNobody' /\ RequestStages' /\ AccountsCover'
  BY <1>1, <1>2 DEF SheetOnLogin, LoginMeansNobody, RequestStages, AccountsCover,
     Outstanding, HasDoc
<1>5. DocumentNamesItsAccount' /\ OneAddress'
  BY <1>1, <1>2 DEF DocumentNamesItsAccount, OneAddress, Outstanding, RequestStages,
     SheetOnLogin, Waiting, LoginMeansNobody
<1>6. NewAccountsAreEmpty'
  BY <1>1, <1>2 DEF NewAccountsAreEmpty, HasDoc, OneAddress, AccountsCover,
     SheetOnLogin, RequestStages, Outstanding
<1>7. KeysAreOwn'
  BY <1>1, <1>2 DEF KeysAreOwn, Waiting, OneAddress, SheetOnLogin, RequestStages,
     Outstanding, DocumentNamesItsAccount
<1>8. OneAtATime'
  BY <1>1, <1>2 DEF OneAtATime, Outstanding, OnItsWay, Waiting, SheetOnLogin
<1>9. AccountsHaveDocuments'
  BY <1>1, <1>2 DEF AccountsHaveDocuments, HasDoc, InOnboarding, OneAtATime,
     Outstanding, OnItsWay, RequestStages, SheetOnLogin, AccountsCover
<1> QED
  BY <1>3, <1>4, <1>5, <1>6, <1>7, <1>8, <1>9

\* continueOnboarding, on a login view that is still there.
LEMMA InvCreateCallback ==
  ASSUME SessionInv, NEW r \in Presses, CreateCallback(r)
  PROVE  SessionInv'
<1>1. Moves(r, "done", request[r].email, request[r].doc) /\ request[r] \in Request
  BY DEF CreateCallback, Moves, SessionInv, TypeOK, Request, Stages, Texts
<1>2. /\ MainFree /\ request[r].at = "welcomed"
      /\ sheet' = Presented("personalInfo")
      /\ UNCHANGED <<accounts, docs, pending, currentUser, defaults, view,
                     dataTextEmail, main, history>>
  BY DEF CreateCallback, firebase
<1> USE Names, PressesAssumption DEF SessionInv, TypeOK, Request, Texts, Presses,
        Running, MainFree, OnLogin, Moves, history, Presented
<1>3. TypeOK'
  BY <1>1, <1>2 DEF RequestStages
<1>4. SheetOnLogin' /\ LoginMeansNobody' /\ RequestStages' /\ AccountsCover'
  BY <1>1, <1>2 DEF SheetOnLogin, LoginMeansNobody, RequestStages, AccountsCover,
     Outstanding, HasDoc
<1>5. DocumentNamesItsAccount' /\ OneAddress'
  BY <1>1, <1>2 DEF DocumentNamesItsAccount, OneAddress, Outstanding, RequestStages,
     SheetOnLogin, Waiting, LoginMeansNobody
<1>6. NewAccountsAreEmpty'
  <2>1. ~edited => request[r].email = dataTextEmail
    BY <1>2 DEF OneAddress, Outstanding
  <2>2. ~edited /\ view = "login" => ~HasDoc(request[r].email) /\ currentUser # nil
    BY <1>2 DEF NewAccountsAreEmpty, RequestStages
  <2>3. ~edited /\ view = "login" => ~HasDoc(currentUser)
    BY <2>1, <2>2 DEF OneAddress
  <2> QED
    BY <1>1, <1>2, <2>3 DEF NewAccountsAreEmpty, HasDoc
<1>7. KeysAreOwn'
  BY <1>1, <1>2 DEF KeysAreOwn, Waiting, OneAddress, SheetOnLogin, RequestStages,
     Outstanding, DocumentNamesItsAccount
<1>8. OneAtATime'
  BY <1>1, <1>2 DEF OneAtATime, Outstanding, OnItsWay, Waiting, SheetOnLogin
<1>9. AccountsHaveDocuments'
  BY <1>1, <1>2 DEF AccountsHaveDocuments, HasDoc, InOnboarding, OneAtATime,
     Outstanding, OnItsWay, RequestStages, SheetOnLogin, AccountsCover
<1> QED
  BY <1>3, <1>4, <1>5, <1>6, <1>7, <1>8, <1>9

\* The keys become the document's; leaked records whether its user is still signed in.
LEMMA InvGetUserCallback ==
  ASSUME SessionInv, NEW r \in Presses, GetUserCallback(r)
  PROVE  SessionInv'
<1>1. Moves(r, "done", request[r].email, request[r].doc) /\ request[r] \in Request
  BY DEF GetUserCallback, Moves, SessionInv, TypeOK, Request, Stages, Texts
<1>2. /\ MainFree /\ request[r].at = "answered" /\ defaults' = request[r].doc
      /\ leaked' = (currentUser # request[r].email)
      /\ UNCHANGED <<accounts, docs, pending, currentUser, view, sheet, dataTextEmail,
                     main, presses, launches, overlapped, edited, halfMade>>
  BY DEF GetUserCallback, firebase
<1> USE Names, PressesAssumption DEF SessionInv, TypeOK, Request, Texts, Presses,
        Running, MainFree, OnLogin, Moves, history
<1>3. TypeOK'
  BY <1>1, <1>2 DEF RequestStages
<1>4. SheetOnLogin' /\ LoginMeansNobody' /\ RequestStages' /\ AccountsCover'
  BY <1>1, <1>2 DEF SheetOnLogin, LoginMeansNobody, RequestStages, AccountsCover,
     Outstanding, HasDoc
<1>5. DocumentNamesItsAccount' /\ OneAddress'
  BY <1>1, <1>2 DEF DocumentNamesItsAccount, OneAddress, Outstanding, RequestStages,
     SheetOnLogin, Waiting, LoginMeansNobody
<1>6. NewAccountsAreEmpty'
  BY <1>1, <1>2 DEF NewAccountsAreEmpty, HasDoc, OneAddress, AccountsCover,
     SheetOnLogin, RequestStages, Outstanding
<1>7. KeysAreOwn'
  BY <1>1, <1>2 DEF KeysAreOwn, Waiting, OneAddress, SheetOnLogin, RequestStages,
     Outstanding, DocumentNamesItsAccount
<1>8. OneAtATime'
  BY <1>1, <1>2 DEF OneAtATime, Outstanding, OnItsWay, Waiting, SheetOnLogin
<1>9. AccountsHaveDocuments'
  BY <1>1, <1>2 DEF AccountsHaveDocuments, HasDoc, InOnboarding, OneAtATime,
     Outstanding, OnItsWay, RequestStages, SheetOnLogin, AccountsCover
<1> QED
  BY <1>3, <1>4, <1>5, <1>6, <1>7, <1>8, <1>9

\* uploadUser writes the document of the user who is being onboarded.
LEMMA InvUploadUser ==
  ASSUME SessionInv, UploadUser
  PROVE  SessionInv'
<1>1. /\ Running /\ main = "upload"
      /\ pending' = IF currentUser = nil THEN pending
                    ELSE [pending EXCEPT ![currentUser] = dataTextEmail]
      /\ main' = "free" /\ view' = "home" /\ sheet' = "none"
      /\ UNCHANGED <<accounts, docs, currentUser, defaults, dataTextEmail, request,
                     history>>
  BY DEF UploadUser
<1>2. sheet = "personalInfo" /\ view = "login" /\ currentUser \in Emails
  BY <1>1 DEF SessionInv, SheetOnLogin, TypeOK
<1>3. /\ pending'[currentUser] = dataTextEmail
      /\ \A e \in Emails \ {currentUser} : pending'[e] = pending[e]
      /\ pending' \in [Emails -> Texts \cup {nil}]
  BY <1>1, <1>2, Names DEF SessionInv, TypeOK, Texts
<1>4. ~edited => dataTextEmail = currentUser
  BY <1>2, Names DEF SessionInv, OneAddress, Texts
<1> USE Names, PressesAssumption DEF SessionInv, TypeOK, Texts, Presses, Running, history
<1>5. TypeOK'
  BY <1>1, <1>3
<1>6. SheetOnLogin' /\ LoginMeansNobody' /\ RequestStages' /\ AccountsCover'
  BY <1>1, <1>2, <1>3 DEF SheetOnLogin, LoginMeansNobody, RequestStages, AccountsCover,
     Outstanding, HasDoc
<1>7. DocumentNamesItsAccount' /\ OneAddress'
  BY <1>1, <1>2, <1>3, <1>4 DEF DocumentNamesItsAccount, OneAddress, Outstanding
<1>8. NewAccountsAreEmpty' /\ KeysAreOwn'
  BY <1>1, <1>2, <1>4 DEF NewAccountsAreEmpty, KeysAreOwn, Waiting
<1>9. OneAtATime' /\ AccountsHaveDocuments'
  BY <1>1, <1>2, <1>3 DEF OneAtATime, Outstanding, OnItsWay, AccountsHaveDocuments,
     HasDoc, InOnboarding
<1> QED
  BY <1>5, <1>6, <1>7, <1>8, <1>9

\* The server takes a pending document over.
LEMMA InvDocumentArrives ==
  ASSUME SessionInv, DocumentArrives
  PROVE  SessionInv'
<1>1. /\ currentUser \in Emails /\ pending[currentUser] # nil
      /\ docs' = [docs EXCEPT ![currentUser] = pending[currentUser]]
      /\ pending' = [pending EXCEPT ![currentUser] = nil]
      /\ UNCHANGED <<accounts, currentUser, defaults, view, sheet, dataTextEmail,
                     main, request, history>>
  BY DEF DocumentArrives, SessionInv, TypeOK
<1>2. /\ docs'[currentUser] = pending[currentUser] /\ pending'[currentUser] = nil
      /\ \A e \in Emails \ {currentUser} : docs'[e] = docs[e] /\ pending'[e] = pending[e]
      /\ docs' \in [Emails -> Texts \cup {nil}] /\ pending' \in [Emails -> Texts \cup {nil}]
  BY <1>1 DEF SessionInv, TypeOK
<1>3. \A e \in Emails : HasDoc(e)' <=> HasDoc(e)
  BY <1>1, <1>2 DEF HasDoc
<1> USE DEF SessionInv, history
<1>4. TypeOK'
  BY <1>1, <1>2 DEF TypeOK
<1>5. SheetOnLogin' /\ LoginMeansNobody' /\ RequestStages' /\ AccountsCover'
  BY <1>1, <1>3 DEF SheetOnLogin, LoginMeansNobody, RequestStages, AccountsCover,
     Outstanding, TypeOK
<1>6. DocumentNamesItsAccount' /\ OneAddress'
  BY <1>1, <1>2 DEF DocumentNamesItsAccount, OneAddress, Outstanding, TypeOK
<1>7. NewAccountsAreEmpty' /\ KeysAreOwn'
  BY <1>1, <1>3 DEF NewAccountsAreEmpty, KeysAreOwn, Waiting, RequestStages, TypeOK
<1>8. OneAtATime' /\ AccountsHaveDocuments'
  BY <1>1, <1>3 DEF OneAtATime, Outstanding, OnItsWay, AccountsHaveDocuments,
     InOnboarding, TypeOK
<1> QED
  BY <1>4, <1>5, <1>6, <1>7, <1>8

\* A process that is killed leaves no request and no sheet.
LEMMA InvCrash ==
  ASSUME SessionInv, Crash
  PROVE  SessionInv'
<1>1. /\ view' = "dead" /\ sheet' = "none" /\ main' = "free"
      /\ leaked' = (leaked \/ main = "wipe")
      /\ halfMade' = halfMade \cup {e \in accounts : ~HasDoc(e)}
      /\ UNCHANGED <<accounts, docs, pending, currentUser, defaults, dataTextEmail,
                     presses, launches, overlapped, edited>>
  BY DEF Crash, firebase
<1>2. /\ request' \in [Presses -> Request]
      /\ \A r \in Presses : request'[r].at \in {"none", "done"}
      /\ \A r \in Presses : request[r].at = "none" => request'[r].at = "none"
  BY DEF Crash, SessionInv, TypeOK, Request, Stages
<1>3. ~leaked' => ~leaked /\ main # "wipe"
  BY <1>1, Zenon DEF SessionInv, TypeOK
<1> USE DEF SessionInv, TypeOK
<1>4. TypeOK'
  BY <1>1, <1>2
<1>5. SheetOnLogin' /\ LoginMeansNobody' /\ RequestStages' /\ AccountsCover'
  BY <1>1, <1>2 DEF SheetOnLogin, LoginMeansNobody, RequestStages, AccountsCover,
     Outstanding, HasDoc
<1>6. DocumentNamesItsAccount' /\ OneAddress' /\ NewAccountsAreEmpty'
  BY <1>1, <1>2 DEF DocumentNamesItsAccount, OneAddress, Outstanding, NewAccountsAreEmpty
<1>7. KeysAreOwn'
  BY <1>1, <1>2, <1>3 DEF KeysAreOwn, Waiting
<1>8. OneAtATime'
  BY <1>1, <1>2 DEF OneAtATime, Outstanding, OnItsWay
<1>9. AccountsHaveDocuments'
  BY <1>1 DEF AccountsHaveDocuments, HasDoc
<1> QED
  BY <1>4, <1>5, <1>6, <1>7, <1>8, <1>9

\* A login view on a fresh device, whatever accounts there are.
LEMMA InvInit == Init => SessionInv
<1> SUFFICES ASSUME Init PROVE SessionInv
  OBVIOUS
<1> USE Names, PressesAssumption DEF Init
<1>1. request \in [Presses -> Request] /\ \A r \in Presses : request[r].at = "none"
  BY DEF Request, Stages, Texts
<1>2. /\ docs \in [Emails -> Texts \cup {nil}]
      /\ pending \in [Emails -> Texts \cup {nil}]
      /\ dataTextEmail \in Texts /\ presses \in 0..MaxPresses
  BY DEF Texts
<1>3. TypeOK
  BY <1>1, <1>2 DEF TypeOK
<1>4. SheetOnLogin /\ LoginMeansNobody /\ RequestStages /\ AccountsCover
  BY <1>1 DEF SheetOnLogin, LoginMeansNobody, RequestStages, AccountsCover, Outstanding,
     HasDoc
<1>5. DocumentNamesItsAccount /\ OneAddress /\ NewAccountsAreEmpty /\ KeysAreOwn
  BY <1>1 DEF DocumentNamesItsAccount, OneAddress, NewAccountsAreEmpty, KeysAreOwn,
     Outstanding
<1>6. OneAtATime /\ AccountsHaveDocuments
  BY <1>1 DEF OneAtATime, Outstanding, OnItsWay, AccountsHaveDocuments, HasDoc, Texts
<1> QED
  BY <1>3, <1>4, <1>5, <1>6 DEF SessionInv

\* Every step of the user, of Auth, of Firestore and of the process keeps it.
LEMMA InvNext == SessionInv /\ [Next]_vars => SessionInv'
<1> SUFFICES ASSUME SessionInv, [Next]_vars PROVE SessionInv'
  OBVIOUS
<1>1. CASE Launch \/ Crash \/ SignOut \/ FinishPermissions \/ FinishPersonalInfo
  BY <1>1, InvLaunch, InvCrash, InvSignOut, InvFinishPermissions, InvFinishPersonalInfo
<1>2. CASE MainStep \/ DocumentArrives
  BY <1>2, InvUploadUser, InvRemoveKeys, InvDocumentArrives DEF MainStep
<1>3. CASE \E e \in Texts : EditEmail(e)
  BY <1>3, InvEditEmail
<1>4. CASE \E r \in Presses : SignIn(r) \/ Answer(r)
  BY <1>4, InvSignIn, InvSignInWorked, InvSignInFailed, InvAccountCreated,
     InvCreateWorked, InvCreateFailed, InvGetUserAnswered, InvGetUserFailed DEF Answer
<1>5. CASE \E r \in Presses : Callback(r)
  BY <1>5, InvSignInCallback, InvCreateUser, InvCreateCallback, InvGetUserCallback
     DEF Callback
<1>6. CASE UNCHANGED vars
  BY <1>6 DEF vars, firebase, history, SessionInv, TypeOK, SheetOnLogin,
     LoginMeansNobody, RequestStages, AccountsCover, DocumentNamesItsAccount, OneAddress,
     NewAccountsAreEmpty, KeysAreOwn, OneAtATime, AccountsHaveDocuments, Outstanding,
     HasDoc, Waiting, InOnboarding
<1> QED
  BY <1>1, <1>2, <1>3, <1>4, <1>5, <1>6 DEF Next

(***************************************************************************)
(* The theorems                                                            *)
(***************************************************************************)
\* In every reachable state of the session the invariant holds.
THEOREM SessionInvariant == Spec => []SessionInv
<1> QED
  BY InvInit, InvNext, PTL DEF Spec

\* Every variable of the session keeps its type.
THEOREM SessionTypes == Spec => []TypeOK
<1>1. SessionInv => TypeOK
  BY DEF SessionInv
<1> QED
  BY <1>1, SessionInvariant, PTL

\* The profile kept in UserDefaults is that of the user who is signed in, except where
\* ProfileIsOwn says (getUser's late callback, a crash inside the sign-out, typing under
\* an outstanding request), however many users share the device.
THEOREM ProfilesAreOwn == Spec => []ProfileIsOwn
<1>1. SessionInv => ProfileIsOwn
  BY DEF SessionInv, KeysAreOwn, ProfileIsOwn
<1> QED
  BY <1>1, SessionInvariant, PTL

\* uploadUser writes no user's address into another user's document.
THEOREM DocumentsNameAccounts == Spec => []DocumentNamesItsAccount
<1>1. SessionInv => DocumentNamesItsAccount
  BY DEF SessionInv
<1> QED
  BY <1>1, SessionInvariant, PTL

\* An account without a document is being onboarded, or is one of those that
\* AccountsHaveDocuments excepts.
THEOREM AccountsAreOnboarded == Spec => []AccountsHaveDocuments
<1>1. SessionInv => AccountsHaveDocuments
  BY DEF SessionInv
<1> QED
  BY <1>1, SessionInvariant, PTL

\* The onboarding's setData never replaces a document, unless the address was edited
\* under an outstanding request.
THEOREM OnboardingSafe == Spec => OnboardingKeepsDocuments
<1>1. SessionInv /\ [Next]_vars
          => [\A e \in Emails : pending'[e] \notin {pending[e], nil}
                                   => edited \/ ~HasDoc(e)]_vars
  <2> SUFFICES ASSUME SessionInv, [Next]_vars, NEW e \in Emails,
                      pending'[e] \notin {pending[e], nil}, ~edited, HasDoc(e)
               PROVE  FALSE
    OBVIOUS
  <2>1. pending \in [Emails -> Texts \cup {nil}]
    BY DEF SessionInv, TypeOK
  <2>2. UploadUser \/ DocumentArrives
    BY DEF Next, vars, firebase, MainStep, Answer, Callback, Launch, Crash, SignOut,
       FinishPermissions, FinishPersonalInfo, RemoveKeys, EditEmail, SignIn,
       SignInWorked, SignInFailed, AccountCreated, CreateWorked, CreateFailed,
       GetUserAnswered, GetUserFailed, SignInCallback, CreateUser, CreateCallback,
       GetUserCallback
  <2>3. UploadUser
    BY <2>1, <2>2 DEF DocumentArrives, SessionInv, TypeOK
  <2>4. e = currentUser
    BY <2>1, <2>3 DEF UploadUser
  <2>5. sheet = "personalInfo" /\ view = "login"
    BY <2>3 DEF UploadUser, SessionInv, SheetOnLogin
  <2> QED
    BY <2>4, <2>5 DEF SessionInv, NewAccountsAreEmpty
<1> QED
  BY <1>1, SessionInvariant, PTL DEF Spec, OnboardingKeepsDocuments

\* After a sign-out no late answer signs anybody in, unless Sign in was pressed twice.
THEOREM SignedOutForGood == Spec => SignedOutStays
<1>1. SessionInv /\ [Next]_vars
          => [view = "home" /\ currentUser = nil => currentUser' = nil \/ overlapped]_vars
  <2> SUFFICES ASSUME SessionInv, [Next]_vars, view = "home", currentUser' # currentUser,
                      ~overlapped, currentUser = nil
               PROVE  FALSE
    OBVIOUS
  <2>1. \E r \in Presses : SignInWorked(r) \/ CreateWorked(r)
    BY DEF Next, vars, MainStep, Answer, Callback, Launch, Crash, SignOut,
       FinishPermissions, FinishPersonalInfo, UploadUser, DocumentArrives, RemoveKeys,
       EditEmail, SignIn, SignInFailed, AccountCreated, CreateFailed,
       GetUserAnswered, GetUserFailed, SignInCallback, CreateUser, CreateCallback,
       GetUserCallback
  <2> QED
    BY <2>1 DEF SignInWorked, CreateWorked, SessionInv, OneAtATime, OnItsWay
<1> QED
  BY <1>1, SessionInvariant, PTL DEF Spec, SignedOutStays
=============================================================================
