------------------------------ MODULE SnapLedger ------------------------------
(***************************************************************************)
(* The reward ledger of Datability: what one device does to one onboarded  *)
(* account while its user photographs plants, earns money and withdraws it.*)
(*                                                                         *)
(* Three threads of control share the ledger:                              *)
(*   - the main thread, which runs the buttons, the mail sheet and every   *)
(*     Firebase callback;                                                  *)
(*   - URLSession's serial delegate queue, which runs the completion of    *)
(*     plantScanner, one photo at a time;                                  *)
(*   - Firestore's worker, which persists every write in the queue of the  *)
(*     user it knows of and sends it to the server when it can. It learns  *)
(*     of a sign-in or a sign-out later than the main thread.              *)
(* The process may be killed between any two steps of any of them.         *)
(*                                                                         *)
(* A write is an operation (add one, add an amount, set to 0), and one     *)
(* whose answer is lost is sent again: the server then applies it twice.   *)
(* Which writes are so repeated, and which snaps were written while there  *)
(* was no user to write them for, is recorded, and the properties say what *)
(* that can do to the account and that nothing else can.                   *)
(*                                                                         *)
(* Money is counted in units of which a snap earns 1..MaxAward.            *)
(***************************************************************************)
EXTENDS Integers, Sequences, FiniteSets

CONSTANTS
    Photos,        \* the photos that may be captured
    Challenges,    \* the documents of the "challenges" collection
    WithId,        \* the challenges whose document has an "id" field
    MaxAward,      \* the most that one snap earns
    kMaxPendingWrites, \* how many writes may be sent and not yet answered
    MaxLaunches,   \* bound: how often the process is started
    MaxMails,      \* bound: how many withdrawal mails are sent
    MaxPresses,    \* bound: how often Sign in is pressed in a process
    MaxLosses      \* bound: how often the connection takes answers with it

ASSUME PhotosAssumption == IsFiniteSet(Photos)
ASSUME ChallengesAssumption == WithId \subseteq Challenges
ASSUME AwardAssumption == MaxAward \in Nat \ {0}
ASSUME CapacityAssumption == kMaxPendingWrites \in Nat \ {0}
ASSUME BoundsAssumption == /\ MaxLaunches \in Nat /\ MaxMails \in Nat
                           /\ MaxPresses \in Nat /\ MaxLosses \in Nat

VARIABLES
    \* The keychain and UserDefaults: they survive the process.
    currentUser,       \* Auth.auth().currentUser: "uid" or "nil"
    defaults,          \* UserDefaults: the three counters, and whether the
                       \* keys fetchProfileData needs are there
    \* The server.
    cloud,             \* its copy of the account and its entries
    \* Firestore's worker.
    worker,            \* the user it writes for: "uid" or "nil"
    notices,           \* changes of user on their way to it, oldest first
    writes,            \* the persisted queue of the account, oldest first
    taken,             \* of these, how many the server has taken
    answers,           \* and how many over this connection, to be answered
    \* Storage.
    blobs,             \* the photos in Storage
    \* The process.
    screen,            \* what the window shows; "dead" when not running
    spinner,           \* isProcessingResults of the visible challenge view:
                       \* the photo whose result it waits for
    databaseProfile,   \* money in the snapshot the profile view holds
    shouldPresentWithdrawal,  \* the mail sheet is up
    main,              \* where the main thread is inside a handler
    request,           \* per press of Sign in: its sign-in, then its getUser
    job,               \* per photo: how far its completion handler is
    challengeOf,       \* per photo: the challenge it is taken for (chosen
                       \* once, in Init: the user decides what to open)
    upload,            \* per photo: its Storage upload
    query,             \* per photo: its question whether it is the first
    award,             \* per photo: moneyIncrementedRandom, once drawn
    reg,               \* the counter the running completion has read
    \* Observations of the environment.
    mails, launches,   \* how many mails were sent, how often started
    losses,            \* how often the connection broke
    committed,         \* the writes that the server has taken at least once
    repeats,           \* how often it took an increment that it had already
    astray             \* the photos whose snap was written for nobody

store     == <<currentUser, defaults>>
server    == <<cloud, committed, repeats>>
link      == <<worker, notices, taken, answers>>
firestore == <<writes, link>>
ui        == <<screen, spinner, databaseProfile, shouldPresentWithdrawal>>
snap      == <<job, challengeOf, award, reg, astray>>
world     == <<mails, launches, losses>>
vars      == <<store, server, firestore, blobs, ui, main, request, snap, upload,
               query, world>>

(***************************************************************************)
(* Values                                                                  *)
(***************************************************************************)
Counters == [snaps : Nat, money : Nat, challenges : Nat]
Account  == [snaps : Nat, money : Nat, challenges : Nat,
             entries : SUBSET Photos]
Defaults == [named : BOOLEAN, snaps : Nat, money : Nat, challenges : Nat]

Screens == {"dead", "login", "permissions", "list", "challenge", "profile"}
MainAt  == {"free", "bumpLocal", "clearRemote", "wipe"}

\* The statements of the completion handler, in program order.
Handler == {"readSnaps", "writeSnaps", "readMoney", "writeMoney",
            "countSnap", "awardMoney", "ask"}
JobAt    == {"new", "stuck", "scanning", "rejected", "done", "dead"} \cup Handler
UploadAt == {"none", "putting", "stored", "done", "failed"}
QueryAt  == {"none", "asked", "seen", "unseen", "done", "lost"}

Presses   == 1..MaxPresses
RequestAt == {"none", "signIn", "set", "getUser", "answered", "done"}

\* What a write does, and for which photo; a withdrawal is for none.
Credits  == {"snap", "award", "challenge"}
Op(k, p) == [kind |-> k, photo |-> p]
Clear    == Op("clear", "none")
Writes   == [kind : Credits \cup {"entry"}, photo : Photos] \cup {Clear}

Empty   == [named |-> FALSE, snaps |-> 0, money |-> 0, challenges |-> 0]
NoRequest == [at |-> "none", user |-> [snaps |-> 0, money |-> 0, challenges |-> 0]]

SignedIn == currentUser = "uid"
Running  == screen # "dead"
AtHome   == screen \in {"list", "challenge", "profile"}

\* A handler of the main thread starts only when no other is running.
MainFree == Running /\ main = "free"

\* The delegate queue is serial: one completion handler at a time.
QueueFree == \A p \in Photos : job[p] \notin Handler

\* The photos that have a write of kind k in the queue behind the first n, and the
\* units of money that the awards among these add after the last withdrawal.
Behind(n)   == n + 1 .. Len(writes)
Queued(k, n) == {p \in Photos : \E i \in Behind(n) : writes[i] = Op(k, p)}
Units(n) == {q \in Photos \X (1..MaxAward) :
                /\ q[2] <= award[q[1]]
                /\ \E i \in Behind(n) : /\ writes[i] = Op("award", q[1])
                                        /\ \A j \in Behind(i) : writes[j].kind # "clear"}

\* The server's copy under the writes of the queue behind the first n.
Over(n) ==
    [snaps      |-> cloud.snaps + Cardinality(Queued("snap", n)),
     money      |-> (IF \E i \in Behind(n) : writes[i].kind = "clear"
                       THEN 0 ELSE cloud.money) + Cardinality(Units(n)),
     challenges |-> cloud.challenges + Cardinality(Queued("challenge", n)),
     entries    |-> cloud.entries \cup Queued("entry", n)]

\* The account once the server has taken what is pending.
Due == Over(taken)

\* The document as the worker gives it: under all that is unanswered when it is
\* read from the server, which may have taken some of that already; from the cache,
\* as if the server had not. Without a user nothing is pending.
Seen == IF worker = "uid" THEN {Over(0), Over(taken)} ELSE {cloud}

\* (mutant) A write that ignores who is signed in.
WriteAnyway(w) == writes' = Append(writes, w)

\* Signed out, a write goes to users/ERROR, a document that does not exist and
\* whose update the server refuses. While the worker knows of no user yet, it goes
\* to the queue of nobody, and the server is taken to refuse that as well.
Filed == SignedIn /\ worker = "uid"
Write(w) == writes' = IF Filed THEN Append(writes, w) ELSE writes

\* What each write makes of the account: two increments for a snap, one for a
\* challenge, an added entry, and the assignment of 0 by a withdrawal.
Counted(v) == [v EXCEPT !.snaps = v.snaps + 1]
Awarded(v, a) == [v EXCEPT !.money = v.money + a]
Completed(v) == [v EXCEPT !.challenges = v.challenges + 1]
WithEntry(v, p) == [v EXCEPT !.entries = v.entries \cup {p}]

\* (mutant) The withdrawal takes off what a snap earns.
ClearedByDecrement(v) == [v EXCEPT !.money = v.money - MaxAward]

Cleared(v) == [v EXCEPT !.money = 0]

Applied(w, v) ==
    CASE w.kind = "snap"      -> Counted(v)
      [] w.kind = "award"     -> Awarded(v, award[w.photo])
      [] w.kind = "challenge" -> Completed(v)
      [] w.kind = "entry"     -> WithEntry(v, w.photo)
      [] w.kind = "clear"     -> Cleared(v)

CountersOf(v) == [snaps |-> v.snaps, money |-> v.money,
                  challenges |-> v.challenges]

\* Onboarding is over. A second press of Sign in may still wait for its answer.
Init ==
    /\ currentUser = "uid"
    /\ defaults = [Empty EXCEPT !.named = TRUE]
    /\ cloud = [snaps |-> 0, money |-> 0, challenges |-> 0, entries |-> {}]
    /\ worker = "uid" /\ notices = <<>>
    /\ writes = <<>> /\ taken = 0 /\ answers = 0
    /\ blobs = {}
    /\ screen = "list"
    /\ spinner = {}
    /\ databaseProfile = 0
    /\ shouldPresentWithdrawal = FALSE
    /\ main = "free"
    /\ request \in [Presses -> {NoRequest, [NoRequest EXCEPT !.at = "signIn"]}]
    /\ job = [p \in Photos |-> "new"]
    /\ challengeOf \in [Photos -> Challenges]
    /\ upload = [p \in Photos |-> "none"]
    /\ query = [p \in Photos |-> "none"]
    /\ award = [p \in Photos |-> 0]
    /\ reg = 0
    /\ mails = 0
    /\ launches = 1 /\ losses = 0
    /\ committed = {}
    /\ repeats = [k \in Credits |-> 0]
    /\ astray = {}

(***************************************************************************)
(* Launch and navigation                                                   *)
(***************************************************************************)
\* viewDidLoad: the home view when the keychain still has a user, otherwise
\* the login view. getUser is not called: the counters shown are UserDefaults'.
Launch ==
    /\ screen = "dead"
    /\ launches < MaxLaunches
    /\ launches' = launches + 1
    /\ screen' = IF SignedIn THEN "list" ELSE "login"
    /\ UNCHANGED <<store, server, firestore, blobs, spinner, databaseProfile,
                   shouldPresentWithdrawal, main, request, snap, upload, query,
                   mails, losses>>

\* A row of the challenge list: a new view, with its spinner off.
OpenChallenge ==
    /\ MainFree /\ screen = "list"
    /\ screen' = "challenge"
    /\ UNCHANGED <<store, server, firestore, blobs, spinner, databaseProfile,
                   shouldPresentWithdrawal, main, request, snap, upload, query,
                   world>>

\* Back to the list, or the Home tab: the view shown is discarded, what it
\* started goes on.
BackToList ==
    /\ MainFree /\ screen \in {"challenge", "profile"}
    /\ ~shouldPresentWithdrawal
    /\ screen' = "list"
    /\ spinner' = {}
    /\ databaseProfile' = 0
    /\ UNCHANGED <<store, server, firestore, blobs, shouldPresentWithdrawal, main,
                   request, snap, upload, query, world>>

\* fetchProfileData: nil, shown as 0, unless every key is there.
FetchProfileData == IF defaults.named THEN defaults.money ELSE 0

\* The Profile tab: a new DatabilityProfile, whose databaseProfile is read once.
OpenProfile ==
    /\ MainFree /\ screen \in {"list", "challenge"}
    /\ screen' = "profile"
    /\ spinner' = {}
    /\ databaseProfile' = FetchProfileData
    /\ UNCHANGED <<store, server, firestore, blobs, shouldPresentWithdrawal, main,
                   request, snap, upload, query, world>>

(***************************************************************************)
(* Signing in and out                                                      *)
(***************************************************************************)
At(n, stage) == [request EXCEPT ![n].at = stage]

\* The Sign in button is never disabled: it may be pressed again before the first
\* answer.
PressSignIn(n) ==
    /\ MainFree /\ screen = "login"
    /\ request[n].at = "none" /\ \A m \in 1..n - 1 : request[m].at # "none"
    /\ request' = At(n, "signIn")
    /\ UNCHANGED <<store, server, firestore, blobs, ui, main, snap, upload, query,
                   world>>

\* Both signIn and the createUser that follows fail: the account exists.
SignInRefused(n) ==
    /\ Running /\ request[n].at = "signIn"
    /\ request' = At(n, "done")
    /\ UNCHANGED <<store, server, firestore, blobs, ui, main, snap, upload, query,
                   world>>

\* Auth's work queue sets the user when the answer comes, whatever view is shown
\* by then and whoever has signed out meanwhile. Firestore hears of it later.
SignInWorked(n) ==
    /\ Running /\ request[n].at = "signIn"
    /\ request' = At(n, "set")
    /\ currentUser' = "uid"
    /\ notices' = IF SignedIn THEN notices ELSE Append(notices, "uid")
    /\ UNCHANGED <<defaults, server, writes, worker, taken, answers, blobs, ui, main,
                   snap, upload, query, world>>

\* The callback: getUser is asked, and permissions are requested if the login view
\* is still there to show the sheet.
SignInCallback(n) ==
    /\ MainFree /\ request[n].at = "set"
    /\ request' = At(n, "getUser")
    /\ screen' = IF screen = "login" THEN "permissions" ELSE screen
    /\ UNCHANGED <<store, server, firestore, blobs, spinner, databaseProfile,
                   shouldPresentWithdrawal, main, snap, upload, query, world>>

\* The permission sheet's onDisappear: the home view replaces the login view.
FinishPermissions ==
    /\ MainFree /\ screen = "permissions"
    /\ screen' = "list"
    /\ UNCHANGED <<store, server, firestore, blobs, spinner, databaseProfile,
                   shouldPresentWithdrawal, main, request, snap, upload, query,
                   world>>

\* Firestore's worker has the document.
GetUserSnapshot(n) ==
    /\ Running /\ request[n].at = "getUser"
    /\ \E v \in Seen :
          request' = [request EXCEPT ![n] = [at |-> "answered", user |-> CountersOf(v)]]
    /\ UNCHANGED <<store, server, firestore, blobs, ui, main, snap, upload, query,
                   world>>

\* No document (offline and not cached, or refused): the callback does nothing.
GetUserError(n) ==
    /\ Running /\ request[n].at = "getUser"
    /\ request' = At(n, "done")
    /\ UNCHANGED <<store, server, firestore, blobs, ui, main, snap, upload, query,
                   world>>

\* The getUser callback overwrites every key, whatever happened meanwhile.
GetUserCallback(n) ==
    /\ MainFree /\ request[n].at = "answered"
    /\ defaults' = [named |-> TRUE, snaps |-> request[n].user.snaps,
                    money |-> request[n].user.money,
                    challenges |-> request[n].user.challenges]
    /\ request' = [request EXCEPT ![n] = [NoRequest EXCEPT !.at = "done"]]
    /\ UNCHANGED <<currentUser, server, firestore, blobs, ui, main, snap, upload,
                   query, world>>

\* The Sign Out button, up to Auth's signOut ...
SignOut ==
    /\ MainFree /\ screen = "profile" /\ ~shouldPresentWithdrawal
    /\ currentUser' = "nil"
    /\ notices' = IF SignedIn THEN Append(notices, "nil") ELSE notices
    /\ main' = "wipe"
    /\ UNCHANGED <<defaults, server, writes, worker, taken, answers, blobs, ui,
                   request, snap, upload, query, world>>

\* ... and the rest: the keys are removed, and the same home view, still on its
\* profile with the same databaseProfile, is taken off the window and put back.
RemoveKeys ==
    /\ Running /\ main = "wipe"
    /\ defaults' = Empty
    /\ main' = "free"
    /\ UNCHANGED <<currentUser, server, firestore, blobs, ui, request, snap, upload,
                   query, world>>

(***************************************************************************)
(* Taking a photo: onChange(of: dataSelectedImage) and plantScanner        *)
(***************************************************************************)
\* The button is there only while the spinner is off. Without a location the
\* handler returns with the spinner on; plantScanner may also fail at once; or
\* the photo is on its way to the identification service.
CapturePhoto(p) ==
    /\ MainFree /\ screen = "challenge"
    /\ spinner = {} /\ job[p] = "new"
    /\ \/ job' = [job EXCEPT ![p] = "stuck"] /\ spinner' = {p}
       \/ job' = [job EXCEPT ![p] = "rejected"] /\ UNCHANGED spinner
       \/ job' = [job EXCEPT ![p] = "scanning"] /\ spinner' = {p}
    /\ UNCHANGED <<store, server, firestore, blobs, screen, databaseProfile,
                   shouldPresentWithdrawal, main, request, challengeOf, award,
                   reg, astray, upload, query, world>>

\* isProcessingResults = false, in the view that waits for p if it is still shown.
Finished(p) == spinner \ {p}

\* completion(false): an error, an answer that lacks a field, a wrong plant.
PlantScannerFailed(p) ==
    /\ Running /\ job[p] = "scanning" /\ QueueFree
    /\ job' = [job EXCEPT ![p] = "rejected"]
    /\ spinner' = Finished(p)
    /\ UNCHANGED <<store, server, firestore, blobs, screen, databaseProfile,
                   shouldPresentWithdrawal, main, request, challengeOf, award,
                   reg, astray, upload, query, world>>

\* completion(true): uploadPhoto is started and the award drawn.
PlantScannerWorked(p) ==
    /\ Running /\ job[p] = "scanning" /\ QueueFree
    /\ job' = [job EXCEPT ![p] = "readSnaps"]
    /\ spinner' = Finished(p)
    /\ upload' = [upload EXCEPT ![p] = "putting"]
    /\ \E a \in 1..MaxAward : award' = [award EXCEPT ![p] = a]
    /\ UNCHANGED <<store, server, firestore, blobs, screen, databaseProfile,
                   shouldPresentWithdrawal, main, request, challengeOf, reg, astray,
                   query, world>>

\* The handler's next statement, which touches neither views nor the server.
Step(p, from, to) ==
    /\ Running /\ job[p] = from
    /\ job' = [job EXCEPT ![p] = to]
    /\ UNCHANGED <<currentUser, server, link, blobs, ui, main, request, challengeOf,
                   award, upload, world>>

\* UserDefaults: each counter is read, incremented and written back, while the
\* main thread may write it too.
ReadSnaps(p) ==
    /\ Step(p, "readSnaps", "writeSnaps")
    /\ reg' = defaults.snaps
    /\ UNCHANGED <<defaults, writes, astray, query>>

WriteSnaps(p) ==
    /\ Step(p, "writeSnaps", "readMoney")
    /\ defaults' = [defaults EXCEPT !.snaps = reg + 1]
    /\ reg' = 0
    /\ UNCHANGED <<writes, astray, query>>

ReadMoney(p) ==
    /\ Step(p, "readMoney", "writeMoney")
    /\ reg' = defaults.money
    /\ UNCHANGED <<defaults, writes, astray, query>>

WriteMoney(p) ==
    /\ Step(p, "writeMoney", "countSnap")
    /\ defaults' = [defaults EXCEPT !.money = reg + award[p]]
    /\ reg' = 0
    /\ UNCHANGED <<writes, astray, query>>

\* (mutant) The increment is sent again and again.
CountSnapRetried(p) ==
    /\ Step(p, "countSnap", "countSnap")
    /\ Write(Op("snap", p))
    /\ UNCHANGED <<defaults, reg, query, astray>>

\* (mutant) The increment is forgotten.
CountSnapForgotten(p) ==
    /\ Step(p, "countSnap", "awardMoney")
    /\ UNCHANGED <<defaults, writes, reg, query, astray>>

\* Firestore: two increments, each a write of its own.
CountSnap(p) ==
    /\ Step(p, "countSnap", "awardMoney")
    /\ Write(Op("snap", p))
    /\ astray' = IF Filed THEN astray ELSE astray \cup {p}
    /\ UNCHANGED <<defaults, reg, query>>

AwardMoney(p) ==
    /\ Step(p, "awardMoney", "ask")
    /\ Write(Op("award", p))
    /\ UNCHANGED <<defaults, reg, query, astray>>

\* (mutant) A listener, which answers more than once.
AskEntriesRepeatedly(p) ==
    /\ Step(p, "ask", "ask")
    /\ query' = [query EXCEPT ![p] = "asked"]
    /\ UNCHANGED <<defaults, writes, reg, astray>>

\* getDocuments on the challenge's entries; the handler is done.
AskEntries(p) ==
    /\ Step(p, "ask", "done")
    /\ query' = [query EXCEPT ![p] = "asked"]
    /\ UNCHANGED <<defaults, writes, reg, astray>>

(***************************************************************************)
(* The entry: uploadPhoto and uploadEntries                                *)
(***************************************************************************)
\* Storage has the photo; its callback has still to run.
BlobStored(p) ==
    /\ Running /\ upload[p] = "putting"
    /\ blobs' = blobs \cup {p}
    /\ upload' = [upload EXCEPT ![p] = "stored"]
    /\ UNCHANGED <<store, server, firestore, ui, main, request, snap, query, world>>

\* putData reports an error: nothing is retried and nobody is told.
UploadFailed(p) ==
    /\ Running /\ upload[p] = "putting"
    /\ upload' = [upload EXCEPT ![p] = "failed"]
    /\ UNCHANGED <<store, server, firestore, blobs, ui, main, request, snap, query,
                   world>>

\* (mutants) The entry is added without waiting for the upload, or only while the
\* challenge is still shown.
PutStarted(p) == upload[p] \in {"putting", "stored"}
PutReportedIfShown(p) == upload[p] = "stored" /\ screen = "challenge"

\* The condition of putData's callback.
PutReported(p) == upload[p] = "stored"

\* uploadEntries: an entry for the user signed in now, unless the challenge has
\* no id or nobody is.
UploadEntries(p) ==
    /\ MainFree /\ PutReported(p)
    /\ upload' = [upload EXCEPT ![p] = "done"]
    /\ IF challengeOf[p] \in WithId
         THEN Write(Op("entry", p))
         ELSE UNCHANGED writes
    /\ UNCHANGED <<store, server, link, blobs, ui, main, request, snap, query, world>>

(***************************************************************************)
(* The first entry of a challenge                                          *)
(***************************************************************************)
\* The user's entries in the collection asked for: the challenge's, or that of
\* the document "Error" when the challenge has no id.
OwnEntries(v, c) == {q \in v.entries : challengeOf[q] = c /\ c \in WithId}

\* Firestore's worker has the entries, and hands them to the main queue.
EntriesSnapshot(p) ==
    /\ Running /\ query[p] = "asked"
    /\ \E v \in Seen :
          query' = [query EXCEPT ![p] =
                       IF OwnEntries(v, challengeOf[p]) = {} THEN "unseen" ELSE "seen"]
    /\ UNCHANGED <<store, server, firestore, blobs, ui, main, request, snap, upload,
                   world>>

EntriesError(p) ==
    /\ Running /\ query[p] = "asked"
    /\ query' = [query EXCEPT ![p] = "lost"]
    /\ UNCHANGED <<store, server, firestore, blobs, ui, main, request, snap, upload,
                   world>>

\* doesHaveCurrentUserEntrie: no entry's host is the user signed in now.
HasEntry(p) == query[p] = "seen" /\ SignedIn

\* The callback: without an entry of the user, the challenge counts, first in
\* Firestore ...
EntriesCallback(p) ==
    /\ MainFree /\ query[p] \in {"seen", "unseen"}
    /\ query' = [query EXCEPT ![p] = "done"]
    /\ IF HasEntry(p)
         THEN UNCHANGED <<writes, main>>
         ELSE /\ Write(Op("challenge", p))
              /\ main' = "bumpLocal"
    /\ UNCHANGED <<store, server, link, blobs, ui, request, snap, upload, world>>

\* (mutant) The wrong key is incremented.
BumpLocalSnaps ==
    /\ Running /\ main = "bumpLocal"
    /\ defaults' = [defaults EXCEPT !.snaps = defaults.snaps + 1]
    /\ main' = "free"
    /\ UNCHANGED <<currentUser, server, firestore, blobs, ui, request, snap, upload,
                   query, world>>

\* ... then in UserDefaults.
BumpLocal ==
    /\ Running /\ main = "bumpLocal"
    /\ defaults' = [defaults EXCEPT !.challenges = defaults.challenges + 1]
    /\ main' = "free"
    /\ UNCHANGED <<currentUser, server, firestore, blobs, ui, request, snap, upload,
                   query, world>>

(***************************************************************************)
(* Withdrawal                                                              *)
(***************************************************************************)
RequestWithdrawal ==
    /\ MainFree /\ screen = "profile"
    /\ ~shouldPresentWithdrawal
    /\ shouldPresentWithdrawal' = TRUE
    /\ UNCHANGED <<store, server, firestore, blobs, screen, spinner,
                   databaseProfile, main, request, snap, upload, query, world>>

\* The amount in the mail's subject: the profile view's snapshot.
MoneyNeeded == databaseProfile

\* didFinishWith, when the mail was not sent.
MailNotSent ==
    /\ MainFree /\ shouldPresentWithdrawal
    /\ shouldPresentWithdrawal' = FALSE
    /\ UNCHANGED <<store, server, firestore, blobs, screen, spinner,
                   databaseProfile, main, request, snap, upload, query, world>>

\* didFinishWith .sent: the mail asks for MoneyNeeded, UserDefaults drops to 0,
MailSent ==
    /\ MainFree /\ shouldPresentWithdrawal
    /\ mails < MaxMails
    /\ mails' = mails + 1
    /\ defaults' = [defaults EXCEPT !.money = 0]
    /\ main' = "clearRemote"
    /\ UNCHANGED <<currentUser, server, firestore, blobs, ui, request, snap, upload,
                   query, launches, losses>>

\* (mutant) The snapshot is kept.
ProfileKept == databaseProfile

\* The snapshot is reset as well.
ProfileAfterClear == 0

\* then the account and the snapshot drop to 0, and the sheet closes.
ClearRemote ==
    /\ Running /\ main = "clearRemote"
    /\ Write(Clear)
    /\ databaseProfile' = ProfileAfterClear
    /\ shouldPresentWithdrawal' = FALSE
    /\ main' = "free"
    /\ UNCHANGED <<store, server, link, blobs, screen, spinner, request, snap, upload,
                   query, world>>

(***************************************************************************)
(* Firestore's worker, and the end of the process                          *)
(***************************************************************************)
\* The server takes the next write of the queue and applies it, also one that it
\* took over an earlier connection. This goes on after a sign-out until the worker
\* hears of it.
Commit ==
    /\ Running /\ worker = "uid" /\ answers < Len(writes)
    /\ answers < kMaxPendingWrites
    /\ LET w == writes[answers + 1]
       IN  /\ cloud' = Applied(w, cloud)
           /\ committed' = committed \cup {w}
           /\ repeats' = IF answers < taken /\ w.kind \in Credits
                           THEN [repeats EXCEPT ![w.kind] = repeats[w.kind] + 1]
                           ELSE repeats
    /\ answers' = answers + 1
    /\ taken' = IF answers < taken THEN taken ELSE answers + 1
    /\ UNCHANGED <<store, writes, worker, notices, blobs, ui, main, request, snap,
                   upload, query, world>>

\* The answer to the oldest write: it leaves the queue.
Acknowledge ==
    /\ Running /\ worker = "uid" /\ answers > 0
    /\ writes' = Tail(writes)
    /\ taken' = taken - 1
    /\ answers' = answers - 1
    /\ UNCHANGED <<store, server, worker, notices, blobs, ui, main, request, snap,
                   upload, query, world>>

\* The connection breaks, and the answers are lost: what was sent is sent again.
LoseConnection ==
    /\ Running /\ answers > 0
    /\ losses < MaxLosses
    /\ losses' = losses + 1
    /\ answers' = 0
    /\ UNCHANGED <<store, server, writes, worker, notices, taken, blobs, ui, main,
                   request, snap, upload, query, mails, launches>>

\* (mutant) A change of user empties the queue.
QueueDropped == <<>>

\* What a change of user leaves of the queue.
QueueKept == writes

\* The worker hears of a change of user: it restarts the stream. The queue of a
\* user who has left waits.
HandleCredentialChange ==
    /\ Running /\ notices # <<>>
    /\ worker' = Head(notices)
    /\ notices' = Tail(notices)
    /\ writes' = QueueKept
    /\ answers' = 0
    /\ UNCHANGED <<store, server, taken, blobs, ui, main, request, snap, upload,
                   query, world>>

\* The process is killed: only keychain, UserDefaults and write queue stay. The next
\* one begins with the user of the keychain, and sends what is unanswered again.
Crash ==
    /\ Running
    /\ screen' = "dead"
    /\ spinner' = {}
    /\ databaseProfile' = 0
    /\ shouldPresentWithdrawal' = FALSE
    /\ main' = "free"
    /\ request' = [n \in Presses |-> NoRequest]
    /\ worker' = currentUser
    /\ notices' = <<>>
    /\ answers' = 0
    /\ job' = [p \in Photos |-> IF job[p] \in {"new", "rejected", "done"}
                                  THEN job[p] ELSE "dead"]
    /\ upload' = [p \in Photos |-> IF upload[p] \in {"putting", "stored"}
                                     THEN "failed" ELSE upload[p]]
    /\ query' = [p \in Photos |-> IF query[p] \in {"asked", "seen", "unseen"}
                                    THEN "lost" ELSE query[p]]
    /\ reg' = 0
    /\ UNCHANGED <<store, server, writes, taken, blobs, challengeOf, award, astray,
                   world>>

Navigate == OpenChallenge \/ BackToList \/ OpenProfile
Press(n) == \/ PressSignIn(n) \/ SignInRefused(n) \/ SignInWorked(n)
            \/ SignInCallback(n)
            \/ GetUserSnapshot(n) \/ GetUserError(n) \/ GetUserCallback(n)
Session  == \/ \E n \in Presses : Press(n)
            \/ FinishPermissions \/ SignOut \/ RemoveKeys
ScanResult(p) == PlantScannerFailed(p) \/ PlantScannerWorked(p)
Completion(p) == \/ ReadSnaps(p) \/ WriteSnaps(p) \/ ReadMoney(p)
                 \/ WriteMoney(p) \/ CountSnap(p) \/ AwardMoney(p)
                 \/ AskEntries(p)
PutData(p) == BlobStored(p) \/ UploadFailed(p)
GetEntries(p) == EntriesSnapshot(p) \/ EntriesError(p)
Withdrawal == \/ RequestWithdrawal \/ MailNotSent \/ MailSent \/ ClearRemote

Worker == Commit \/ Acknowledge \/ LoseConnection \/ HandleCredentialChange

\* What the main thread does next inside a handler it has begun.
MainStep == RemoveKeys \/ BumpLocal \/ ClearRemote

Next ==
    \/ Launch \/ Navigate \/ Session \/ Withdrawal \/ BumpLocal
    \/ \E p \in Photos : \/ CapturePhoto(p) \/ ScanResult(p) \/ Completion(p)
                         \/ PutData(p) \/ UploadEntries(p)
                         \/ GetEntries(p) \/ EntriesCallback(p)
    \/ Worker \/ Crash

Spec == Init /\ [][Next]_vars

(***************************************************************************)
(* Fairness: a handler that the main thread has begun goes on. In the      *)
(* background something goes on as long as anything can, whichever it is:  *)
(* the completion runs its next statement, the identification service      *)
(* answers or times out, Firestore and Storage answer, the server is       *)
(* reached again some day. Callbacks wait for the main queue, which is     *)
(* FIFO: they are run however often the main thread is busy with others,   *)
(* hence strong fairness. The user owes nothing.                           *)
(***************************************************************************)
Background == \/ Commit \/ Acknowledge \/ HandleCredentialChange
              \/ \E p \in Photos : \/ ScanResult(p) \/ Completion(p)
                                   \/ PutData(p) \/ UploadEntries(p)
                                   \/ GetEntries(p) \/ EntriesCallback(p)
Fairness == WF_vars(MainStep) /\ SF_vars(Background)

FairSpec == Spec /\ Fairness

(***************************************************************************)
(* Properties                                                              *)
(***************************************************************************)
\* Every variable has the type of the state it stands for.
TypeOK ==
    /\ currentUser \in {"uid", "nil"}
    /\ defaults \in Defaults
    /\ cloud \in Account
    /\ worker \in {"uid", "nil"}
    /\ notices \in Seq({"uid", "nil"})
    /\ writes \in Seq(Writes)
    /\ taken \in 0..Len(writes)
    /\ answers \in 0..taken
    /\ blobs \in SUBSET Photos
    /\ screen \in Screens
    /\ spinner \in SUBSET Photos
    /\ databaseProfile \in Nat
    /\ shouldPresentWithdrawal \in BOOLEAN
    /\ main \in MainAt
    /\ request \in [Presses -> [at : RequestAt, user : Counters]]
    /\ job \in [Photos -> JobAt]
    /\ challengeOf \in [Photos -> Challenges]
    /\ upload \in [Photos -> UploadAt]
    /\ query \in [Photos -> QueryAt]
    /\ award \in [Photos -> 0..MaxAward]
    /\ reg \in Nat
    /\ mails \in Nat
    /\ launches \in Nat
    /\ losses \in Nat
    /\ committed \in SUBSET Writes
    /\ repeats \in [Credits -> Nat]
    /\ astray \in SUBSET Photos

\* The photos whose upload was ever started: the identified ones.
Accepted == {p \in Photos : upload[p] # "none"}

\* Every entry that is on the server, or on its way there, shows a photo that
\* Storage holds: uploadEntries runs only in the callback of a successful put.
EntryHasBlob == Due.entries \subseteq blobs

\* The account completes no more challenges than it counts snaps, whatever callbacks
\* arrive late, never, after a sign-out or after a sign-in answer that came late
\* itself: but for the photos whose snap was written while there was no user, and
\* for challenges that the server took again after a lost answer.
ChallengesWithinSnaps ==
    cloud.challenges <= cloud.snaps + Cardinality(astray) + repeats["challenge"]

\* The account holds no more money than its snaps can have earned, with the same
\* two exceptions: the snap is written before its award, and the queue is FIFO.
MoneyWithinSnaps ==
    cloud.money <= MaxAward * (cloud.snaps + Cardinality(astray) + repeats["award"])

\* The account counts no photo that was not identified or whose snap was written
\* for nobody, and counts one twice only if the server takes its increment again,
\* across crashes, restarts and changes of user.
SnapsWithinAccepted ==
    cloud.snaps <= Cardinality(Accepted \ astray) + repeats["snap"]

\* A completion that went past its increment of snaps has not lost it: the
\* increment is in the queue or on the server, or was written for nobody, however
\* often the user changes, the connection breaks or the process ends.
PhotosTaken(k) == {p \in Photos : Op(k, p) \in committed}
Issued(k) == PhotosTaken(k) \cup Queued(k, 0)
SnapsKept ==
    \A p \in Photos : job[p] \in {"awardMoney", "ask", "done"}
                         => p \in Issued("snap") \cup astray

\* Until the first crash, sign-out or late sign-in answer, UserDefaults and the
\* account agree on snaps and challenges up to the statements that are under way
\* and the increments the server took again.
Undisturbed == /\ launches = 1 /\ Running /\ SignedIn
               /\ \A n \in Presses : request[n].at = "none"
Uncounted == {p \in Photos : job[p] \in {"readMoney", "writeMoney", "countSnap"}}
LocalMirrorsAccount ==
    Undisturbed =>
        /\ defaults.snaps + repeats["snap"] = Due.snaps + Cardinality(Uncounted)
        /\ Due.challenges = defaults.challenges + repeats["challenge"] +
                            (IF main = "bumpLocal" THEN 1 ELSE 0)

\* A process in which nobody pressed Sign in never asks by mail for more than the
\* balance UserDefaults has, however old the snapshot it shows is.
MailWithinBalance ==
    /\ MainFree /\ SignedIn /\ shouldPresentWithdrawal
    /\ \A n \in Presses : request[n].at = "none"
    => MoneyNeeded <= defaults.money

\* "If first time uploading to a challenge, then increment the counter": once all
\* is settled, with no failure, crash or sign-out, the challenges counted are
\* those that have an entry of the user.
AllWentWell == /\ Undisturbed /\ main = "free" /\ losses = 0
               /\ \A p \in Photos : \/ upload[p] = "none"
                                    \/ upload[p] = "done" /\ query[p] = "done"
FirstEntryCounted ==
    AllWentWell =>
        Due.challenges = Cardinality({challengeOf[p] : p \in Due.entries})

\* "Total Money Earned": in a process that never signed out, the sheet asks for
\* the balance that sending it clears.
MailAsksTotalEarned ==
    Undisturbed /\ MainFree /\ shouldPresentWithdrawal
        => MoneyNeeded = defaults.money

\* The server's document is a RewardAccount.
Reward == INSTANCE RewardAccount WITH
              snaps <- cloud.snaps, money <- cloud.money,
              challenges <- cloud.challenges, earns <- award, missed <- astray,
              counted <- PhotosTaken("snap"), rewarded <- PhotosTaken("award"),
              completed <- PhotosTaken("challenge")
ImplementsRewardAccount == Reward!Spec

\* A photo that was sent for identification is settled in the end: its spinner is
\* gone and it was refused, or it was counted, asked about and uploaded or given up,
\* or the process died.
Settled(p) == /\ p \notin spinner
              /\ job[p] \in {"rejected", "done", "dead"}
              /\ upload[p] \notin {"putting", "stored"}
              /\ query[p] \notin {"asked", "seen", "unseen"}
PhotosSettle == \A p \in Photos : job[p] = "scanning" ~> Settled(p)

(***************************************************************************)
(* The inductive invariant behind the bounds on the account: every write   *)
(* is made once and taken in order, and the server's numbers are those of  *)
(* the writes it has taken, plus the repetitions.                          *)
(***************************************************************************)
InFlight == {"asked", "seen", "unseen"}

\* The writes the server has taken are the first of the queue, and no increment is
\* in the queue twice or comes back to it.
QueueInv ==
    /\ \A i \in 1..taken : writes[i] \in committed
    /\ \A i \in Behind(taken) : writes[i].kind \in Credits => writes[i] \notin committed
    /\ \A i, j \in 1..Len(writes) :
           writes[i].kind \in Credits /\ writes[i] = writes[j] => i = j

\* A photo's award and challenge come behind its snap, if that was written for the
\* account at all.
InOrder ==
    \A k \in {"award", "challenge"}, p \in Photos \ astray :
        /\ Op(k, p) \in committed => Op("snap", p) \in committed
        /\ \A i \in 1..Len(writes) : writes[i] = Op(k, p) =>
               \/ Op("snap", p) \in committed
               \/ \E j \in 1..i - 1 : writes[j] = Op("snap", p)

\* How far a photo is when its writes have been made.
IssuedBy ==
    \A p \in Photos :
        /\ p \in Issued("snap") \cup astray => job[p] \in {"awardMoney", "ask", "done", "dead"}
        /\ p \in Issued("award") => job[p] \in {"ask", "done", "dead"}
        /\ p \in Issued("challenge") => query[p] = "done" /\ job[p] = "done"
        /\ p \in Issued("snap") => p \notin astray
        /\ p \in Issued("snap") \cup astray => upload[p] # "none"
        /\ p \in Issued("entry") \cup cloud.entries => p \in blobs

AddsUp ==
    /\ cloud.snaps = Cardinality(PhotosTaken("snap")) + repeats["snap"]
    /\ cloud.challenges = Cardinality(PhotosTaken("challenge")) + repeats["challenge"]
    /\ cloud.money <= MaxAward * (Cardinality(PhotosTaken("award")) + repeats["award"])

\* The stages of one photo fit together, and only one completion runs at a time.
Stages ==
    \A p \in Photos :
        /\ job[p] \in {"new", "scanning"} => upload[p] = "none"
        /\ job[p] \in Handler => upload[p] # "none"
        /\ upload[p] = "none" <=> award[p] = 0
        /\ query[p] \in InFlight => job[p] = "done"
        /\ upload[p] = "stored" => p \in blobs
Serial == \A p, q \in Photos : job[p] \in Handler /\ job[q] \in Handler => p = q

\* While the threads interleave and connections, processes and users come and go,
\* every write is made once, taken in order and never lost, and the server's numbers
\* are those of the writes it took.
LedgerInv == QueueInv /\ InOrder /\ IssuedBy /\ AddsUp /\ Stages /\ Serial /\ SnapsKept
=============================================================================
