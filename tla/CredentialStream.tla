--------------------------- MODULE CredentialStream ---------------------------
(***************************************************************************)
(* Whose token a Firestore stream carries. Three threads are involved: the *)
(* serial work queue of FirebaseAuth, which knows the user who is signed   *)
(* in and fetches tokens; the main queue, on which the credentials         *)
(* provider hears of a change of user or token and of the tokens it asked  *)
(* for; and Firestore's worker queue, on which the sync engine changes     *)
(* user and the stream is started and stopped. Every hop from one to the   *)
(* next takes its time.                                                    *)
(*                                                                         *)
(* The stream is one that is needed all the time: it is restarted whenever *)
(* it ends.                                                                *)
(***************************************************************************)
EXTENDS Integers, Sequences, FiniteSets

CONSTANTS
    Uids,          \* the accounts
    Nobody,        \* User::Unauthenticated
    MaxEvents      \* bound: sign-ins, sign-outs, expiries, refreshes, failures

ASSUME UidsAssumption == Nobody \notin Uids
ASSUME EventsAssumption == MaxEvents \in Nat

VARIABLES
    \* FirebaseAuth.
    users,         \* the FIRUser objects: uid, number of the access token, valid
    currentUser,   \* the one who is signed in, 0 if nobody is
    lastNotified,  \* _lastNotifiedUserToken
    asked,         \* the requests for a token that the work queue has not begun
    tasks,         \* the requests on the task queues of the users' token services
    refreshing,    \* of these, the ones that wait for the backend
    \* The main queue and the credentials provider.
    main,
    contents,      \* current_user, token_counter
    force_refresh,
    \* Firestore.
    worker,
    sync_user,     \* current_user_ of the sync engine
    stream,        \* state, close_count, the token it carries
    events         \* the sign-ins, sign-outs, expiries, ... so far

auth      == <<users, currentUser, lastNotified>>
provider  == <<contents, force_refresh>>
firestore == <<sync_user, stream>>
vars == <<auth, asked, tasks, refreshing, main, provider, worker, firestore, events>>

Uid(us, i) == IF i = 0 THEN Nobody ELSE us[i].uid
Token(us, i) == IF i = 0 THEN <<0, 0>> ELSE <<i, us[i].token>>

Request(close) == [counter |-> contents.token_counter, close |-> close,
                   force |-> force_refresh]
AutoRefresh == [counter |-> -1, close |-> -1, force |-> TRUE]

Init ==
    /\ users = <<>> /\ currentUser = 0 /\ lastNotified = <<0, 0>>
    /\ contents = [current_user |-> Nobody, token_counter |-> 0]
    /\ force_refresh = FALSE
    /\ asked = {Request(0)} /\ tasks = {} /\ refreshing = {}
    /\ main = <<>> /\ worker = <<>>
    /\ sync_user = Nobody
    /\ stream = [state |-> "Starting", close_count |-> 0, uid |-> Nobody]
    /\ events = 0

Event == events < MaxEvents /\ events' = events + 1

(***************************************************************************)
(* FirebaseAuth's work queue                                               *)
(***************************************************************************)
\* (mutant) The notification is made before the user is changed.
PostedEarly(us, i) ==
    IF Token(us, i) = lastNotified THEN <<>>
    ELSE <<[kind |-> "changed", uid |-> Uid(users, currentUser)]>>

\* possiblyPostAuthStateChangeNotification: only a token that changed is news.
Posted(us, i) ==
    IF Token(us, i) = lastNotified THEN <<>>
    ELSE <<[kind |-> "changed", uid |-> Uid(us, i)]>>

\* updateCurrentUser, updateKeychainWithUser, and what is sent to the main queue
\* after the notification.
Update(us, i, after) ==
    /\ users' = us
    /\ currentUser' = i
    /\ lastNotified' = Token(us, i)
    /\ main' = main \o Posted(us, i) \o after

\* The callback of a request; the automatic refresh has none that matters here.
Callback(r, kind, uid) ==
    IF r = AutoRefresh THEN <<>>
    ELSE <<[kind |-> kind, uid |-> uid, request |-> r]>>

SignIn(u) ==
    /\ Event
    /\ Update(Append(users, [uid |-> u, token |-> 1, valid |-> TRUE]), Len(users) + 1, <<>>)
    /\ UNCHANGED <<asked, tasks, refreshing, provider, worker, firestore>>

SignOut ==
    /\ currentUser # 0 /\ Event
    /\ Update(users, 0, <<>>)
    /\ UNCHANGED <<asked, tasks, refreshing, provider, worker, firestore>>

\* getTokenForcingRefresh: nobody has no token; a user's token service is asked.
GetTokenForcingRefresh(r) ==
    /\ r \in asked
    /\ asked' = asked \ {r}
    /\ IF currentUser = 0
         THEN /\ main' = main \o Callback(r, "token", Nobody)
              /\ UNCHANGED tasks
         ELSE /\ tasks' = tasks \cup {[user |-> currentUser, request |-> r]}
              /\ UNCHANGED main
    /\ UNCHANGED <<auth, refreshing, provider, worker, firestore, events>>

\* The token is about to expire.
Expire ==
    /\ currentUser # 0 /\ users[currentUser].valid /\ Event
    /\ users' = [users EXCEPT ![currentUser].valid = FALSE]
    /\ UNCHANGED <<currentUser, lastNotified, asked, tasks, refreshing, main, provider,
                   worker, firestore>>

\* scheduleAutoTokenRefresh: the timer has elapsed.
RefreshTimer ==
    /\ currentUser # 0 /\ Event
    /\ tasks' = tasks \cup {[user |-> currentUser, request |-> AutoRefresh]}
    /\ UNCHANGED <<auth, asked, refreshing, main, provider, worker, firestore>>

\* fetchAccessTokenForcingRefresh: the token queue of a user is serial, and a refresh
\* holds it until the backend has answered.
Fetch(t) ==
    /\ t \in tasks
    /\ \A o \in refreshing : o.user # t.user
    /\ IF users[t.user].valid /\ ~t.request.force
         THEN /\ tasks' = tasks \ {t}
              /\ main' = main \o Callback(t.request, "token", users[t.user].uid)
              /\ UNCHANGED refreshing
         ELSE /\ refreshing' = refreshing \cup {t}
              /\ UNCHANGED <<tasks, main>>
    /\ UNCHANGED <<auth, asked, provider, worker, firestore, events>>

\* FIRAuthSerialTaskQueue: the task is done, the next one may run.
Completed(t) == /\ tasks' = tasks \ {t}
                /\ refreshing' = refreshing \ {t}

\* requestAccessToken, updateKeychain: news only if the user is still signed in.
Refreshed(t) ==
    LET us == [users EXCEPT ![t.user].token = @ + 1, ![t.user].valid = TRUE]
        done == Callback(t.request, "token", users[t.user].uid)
    IN  /\ t \in refreshing
        /\ Completed(t)
        /\ IF t.user = currentUser THEN Update(us, currentUser, done)
           ELSE /\ users' = us
                /\ main' = main \o done
                /\ UNCHANGED <<currentUser, lastNotified>>
        /\ UNCHANGED <<asked, provider, worker, firestore, events>>

\* The token is new, but the keychain does not take it: nobody is notified.
NotSaved(t) ==
    /\ t \in refreshing /\ t.user = currentUser /\ Event
    /\ Completed(t)
    /\ users' = [users EXCEPT ![t.user].token = @ + 1, ![t.user].valid = TRUE]
    /\ main' = main \o Callback(t.request, "error", Nobody)
    /\ UNCHANGED <<currentUser, lastNotified, asked, provider, worker, firestore>>

\* (mutant) A failed refresh is not reported to who asked for the token.
RefreshFailsSilently(t) ==
    /\ t \in refreshing /\ Event
    /\ Completed(t)
    /\ UNCHANGED <<auth, asked, main, provider, worker, firestore>>

\* The backend cannot be reached.
RefreshFails(t) ==
    /\ t \in refreshing /\ Event
    /\ Completed(t)
    /\ main' = main \o Callback(t.request, "error", Nobody)
    /\ UNCHANGED <<auth, asked, provider, worker, firestore>>

\* The account is gone: signOutIfTokenIsInvalidWithError.
RefreshRejected(t) ==
    LET done == Callback(t.request, "error", Nobody)
    IN  /\ t \in refreshing /\ Event
        /\ Completed(t)
        /\ IF t.user = currentUser THEN Update(users, 0, done)
           ELSE main' = main \o done /\ UNCHANGED auth
        /\ UNCHANGED <<asked, provider, worker, firestore>>

(***************************************************************************)
(* The main queue: FirebaseAuthCredentialsProvider                         *)
(***************************************************************************)
\* The listener of the notification, and the client's listener.
AuthStateDidChange ==
    LET u == Head(main).uid
    IN  /\ main # <<>> /\ Head(main).kind = "changed"
        /\ main' = Tail(main)
        /\ contents' = [current_user |-> u, token_counter |-> contents.token_counter + 1]
        /\ worker' = Append(worker, [kind |-> "changed", uid |-> u])
        /\ UNCHANGED <<auth, asked, tasks, refreshing, force_refresh, firestore, events>>

\* (mutant) A change of token meanwhile is not noticed.
NeverChanged(r) == TRUE

\* No notification came since the token was asked for.
Unchanged(r) == r.counter = contents.token_counter

\* (mutant) A request that the change of token made stale is given up.
GiveUp(r) == UNCHANGED <<asked, force_refresh>>

\* GetToken again, for the same completion.
Retry(r) == /\ asked' = asked \cup {Request(r.close)}
            /\ force_refresh' = FALSE

\* get_token_callback: a token belongs to the current user of the provider, unless
\* that has changed meanwhile, perhaps.
GetTokenCallback ==
    LET b == Head(main)
        label == IF b.kind = "error" \/ b.uid = Nobody THEN Nobody
                 ELSE contents.current_user
    IN  /\ main # <<>> /\ Head(main).kind # "changed"
        /\ main' = Tail(main)
        /\ IF Unchanged(b.request)
             THEN /\ worker' = Append(worker, [kind |-> b.kind, uid |-> b.uid,
                                     label |-> label, close |-> b.request.close])
                  /\ UNCHANGED <<asked, force_refresh>>
             ELSE Retry(b.request) /\ UNCHANGED worker
        /\ UNCHANGED <<auth, tasks, refreshing, contents, firestore, events>>

(***************************************************************************)
(* Firestore's worker queue                                                *)
(***************************************************************************)
\* Start, from s: GetToken.
StartFrom(s) ==
    /\ stream' = [s EXCEPT !.state = "Starting"]
    /\ asked' = asked \cup {Request(s.close_count)}
    /\ force_refresh' = FALSE

\* Close: the token goes with the connection.
Closed(state) == [stream EXCEPT !.close_count = @ + 1, !.uid = Nobody, !.state = state]

\* RestartNetwork
RestartStream == StartFrom(Closed("Initial"))

HandleCredentialChange ==
    /\ worker # <<>> /\ Head(worker).kind = "changed"
    /\ worker' = Tail(worker)
    /\ sync_user' = Head(worker).uid
    /\ RestartStream
    /\ UNCHANGED <<auth, tasks, refreshing, main, contents, events>>

UpToDate(c) == c = stream.close_count

\* ResumeStartWithCredentials: an error closes the stream, and backs off.
ResumeStart ==
    LET b == Head(worker)
    IN  /\ worker # <<>> /\ b.kind # "changed"
        /\ worker' = Tail(worker)
        /\ stream' = IF ~UpToDate(b.close) THEN stream
                     ELSE IF b.kind = "error"
                       THEN Closed("Backoff")
                       ELSE [stream EXCEPT !.state = "Open", !.uid = b.uid]
        /\ UNCHANGED <<auth, asked, tasks, refreshing, main, provider, sync_user, events>>

BackoffElapsed ==
    /\ stream.state = "Backoff"
    /\ StartFrom(stream)
    /\ UNCHANGED <<auth, tasks, refreshing, main, contents, worker, sync_user, events>>

\* The connection ends, perhaps because the backend refuses the token.
StreamFails(unauthenticated) ==
    /\ stream.state = "Open" /\ Event
    /\ stream' = Closed("Backoff")
    /\ force_refresh' = (force_refresh \/ unauthenticated)
    /\ UNCHANGED <<auth, asked, tasks, refreshing, main, contents, worker, sync_user>>

ConnectivityChanged ==
    /\ Event
    /\ RestartStream
    /\ UNCHANGED <<auth, tasks, refreshing, main, contents, worker, sync_user>>

Auth == \/ \E r \in asked : GetTokenForcingRefresh(r)
        \/ \E t \in tasks : Fetch(t)
Refresh == \E t \in refreshing : Refreshed(t)
Main == AuthStateDidChange \/ GetTokenCallback
Worker == HandleCredentialChange \/ ResumeStart

Next ==
    \/ \E u \in Uids : SignIn(u)
    \/ SignOut \/ Expire \/ RefreshTimer
    \/ Auth \/ Refresh \/ Main \/ Worker
    \/ \E t \in refreshing : NotSaved(t) \/ RefreshFails(t) \/ RefreshRejected(t)
    \/ BackoffElapsed \/ ConnectivityChanged
    \/ \E b \in BOOLEAN : StreamFails(b)

Spec == Init /\ [][Next]_vars

\* The three queues run what is on them, the backend answers, the backoff elapses.
\* Failures are bounded by MaxEvents: they end some day.
FairSpec == /\ Spec
            /\ WF_vars(Auth) /\ WF_vars(Refresh) /\ WF_vars(Main) /\ WF_vars(Worker)
            /\ WF_vars(BackoffElapsed)

(***************************************************************************)
(* Properties                                                              *)
(***************************************************************************)
\* A stream that is open carries the token of the user whose writes the sync engine
\* sends on it: nobody's writes are ever made in another user's name, whatever sign-
\* ins, sign-outs, refreshes and retries there are between asking for a token and
\* opening the stream.
StreamIsOwn == stream.state = "Open" => stream.uid = sync_user

\* The user that a token is labelled with, on which the authorization header depends,
\* is the user it was issued to.
TokensAreLabelled ==
    \A i \in 1..Len(worker) : worker[i].kind = "token" => worker[i].label = worker[i].uid

\* A stream that is starting waits for exactly one request, and no other request is
\* ever taken for it: it neither waits for ever nor is started twice.
Awaited ==
    LET on(q) == {i \in 1..Len(q) : q[i].kind # "changed"}
    IN  Cardinality({r \in asked : r.close = stream.close_count})
          + Cardinality({t \in tasks : t.request.close = stream.close_count})
          + Cardinality({i \in on(main) : main[i].request.close = stream.close_count})
          + Cardinality({i \in on(worker) : worker[i].close = stream.close_count})
        = IF stream.state = "Starting" THEN 1 ELSE 0

\* In the end the stream is open for the user who is signed in, once failures and
\* changes of user end: a refresh that is itself a change of token does not make the
\* provider ask for tokens for ever.
StreamFollowsUser ==
    <>[](stream.state = "Open" /\ sync_user = Uid(users, currentUser))
===============================================================================
