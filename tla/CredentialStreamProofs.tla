------------------------ MODULE CredentialStreamProofs ------------------------
(***************************************************************************)
(* Proofs about CredentialStream, for any number of accounts, sign-ins,    *)
(* refreshes, failures and requests on their way.                          *)
(***************************************************************************)
EXTENDS CredentialStream, FiniteSetTheorems, SequenceTheorems, TLAPS

(***************************************************************************)
(* The inductive invariant                                                 *)
(***************************************************************************)
Users       == Uids \cup {Nobody}
UserObjects == [uid : Uids, token : Nat, valid : BOOLEAN]
Requests    == [counter : Nat, close : Nat, force : BOOLEAN]
Changes     == [kind : {"changed"}, uid : Users]
Answers     == [kind : {"token", "error"}, uid : Users, request : Requests]
Credentials == [kind : {"token", "error"}, uid : Users, label : Users, close : Nat]
States      == {"Initial", "Starting", "Open", "Backoff"}

\* Every variable has the type of the state it stands for; only the automatic refresh
\* is a task without a request.
CredentialTypes ==
    /\ users \in Seq(UserObjects)
    /\ currentUser \in 0..Len(users)
    /\ lastNotified \in Nat \X Nat
    /\ asked \subseteq Requests
    /\ tasks \subseteq [user : 1..Len(users), request : Requests \cup {AutoRefresh}]
    /\ refreshing \subseteq tasks
    /\ main \in Seq(Changes \cup Answers)
    /\ contents \in [current_user : Users, token_counter : Nat]
    /\ force_refresh \in BOOLEAN
    /\ worker \in Seq(Changes \cup Credentials)
    /\ sync_user \in Users
    /\ stream \in [state : States, close_count : Nat, uid : Users]

\* The token that was notified last is one of the current user.
NotifiedIsCurrent == lastNotified[1] = currentUser

\* No change of user is on q between the positions i and j.
Quiet(q, i, j) == \A k \in i..j : q[k].kind # "changed"

\* A change of user on q is followed by another, or is to u; if there is none, u is
\* the user before.
EndsWith(q, before, u) ==
    /\ Quiet(q, 1, Len(q)) => u = before
    /\ \A i \in 1..Len(q) :
           q[i].kind = "changed" /\ Quiet(q, i + 1, Len(q)) => q[i].uid = u

\* A token on the main queue that will pass for fresh belongs to the provider's user.
AnswersFresh(q, c) ==
    \A i \in 1..Len(q) :
        /\ q[i].kind = "token"
        /\ q[i].request.counter = c.token_counter
        /\ Quiet(q, 1, i - 1)
        => q[i].uid = c.current_user

\* A request that will pass for fresh is served for the user who is signed in.
TasksFresh(S, q, c, user) ==
    \A t \in S : t.request.counter = c.token_counter /\ Quiet(q, 1, Len(q)) => t.user = user

\* The main queue and the tasks are in step with the user who is signed in.
InStep(q, S, c, us, user) ==
    /\ EndsWith(q, c.current_user, Uid(us, user))
    /\ AnswersFresh(q, c)
    /\ TasksFresh(S, q, c, user)

\* A token on the worker queue belongs to the user the sync engine will have when it
\* gets to it.
TokensInStep(q, user) ==
    \A i \in 1..Len(q) :
        q[i].kind = "token" =>
            /\ q[i].label = q[i].uid
            /\ Quiet(q, 1, i - 1) => q[i].uid = user
            /\ \A k \in 1..(i - 1) :
                   q[k].kind = "changed" /\ Quiet(q, k + 1, i - 1) => q[i].uid = q[k].uid

\* A request is never ahead of the provider's counter or of the stream's.
Behind(r, c, s) == r.counter <= c.token_counter /\ r.close <= s.close_count
AnswersBehind(q, c, s) ==
    \A i \in 1..Len(q) : q[i].kind # "changed" => Behind(q[i].request, c, s)
RequestsBehind ==
    /\ \A r \in asked : Behind(r, contents, stream)
    /\ \A t \in tasks : Behind(t.request, contents, stream)
    /\ AnswersBehind(main, contents, stream)
    /\ \A i \in 1..Len(worker) :
           worker[i].kind # "changed" => worker[i].close <= stream.close_count

\* Where the requests are that the stream, closed c times, waits for.
AskedFor(S, c)  == {r \in S : r.close = c}
TasksFor(S, c)  == {t \in S : t.request.close = c}
MainFor(q, c)   == {i \in 1..Len(q) : q[i].kind # "changed" /\ q[i].request.close = c}
WorkerFor(q, c) == {i \in 1..Len(q) : q[i].kind # "changed" /\ q[i].close = c}

One(S) == \E x \in S : S = {x}
\* One of the four sets has one element if the stream is starting, all others are empty.
OneIn(A, T, M, W, state) ==
    \/ state # "Starting" /\ A = {} /\ T = {} /\ M = {} /\ W = {}
    \/ state = "Starting" /\ One(A) /\ T = {} /\ M = {} /\ W = {}
    \/ state = "Starting" /\ A = {} /\ One(T) /\ M = {} /\ W = {}
    \/ state = "Starting" /\ A = {} /\ T = {} /\ One(M) /\ W = {}
    \/ state = "Starting" /\ A = {} /\ T = {} /\ M = {} /\ One(W)

\* A stream that is starting waits for one request, which is in one place.
OneRequest ==
    OneIn(AskedFor(asked, stream.close_count), TasksFor(tasks, stream.close_count),
          MainFor(main, stream.close_count), WorkerFor(worker, stream.close_count),
          stream.state)

\* Names for what becomes of a queue or a set, for the proofs to refer to.
WithAnswer(q, r, kind, uid) == q \o Callback(r, kind, uid)
WithNews(q, us, i) == q \o Posted(us, i)
Without(S, x) == S \ {x}

CredentialInv ==
    /\ CredentialTypes
    /\ NotifiedIsCurrent
    /\ InStep(main, tasks, contents, users, currentUser)
    /\ EndsWith(worker, sync_user, contents.current_user)
    /\ TokensInStep(worker, sync_user)
    /\ RequestsBehind
    /\ OneRequest
    /\ StreamIsOwn

(***************************************************************************)
(* Queues                                                                  *)
(***************************************************************************)
\* What is at the positions of a queue after one more entry.
LEMMA Appended ==
  ASSUME NEW S, NEW q \in Seq(S), NEW e \in S
  PROVE  /\ Append(q, e) \in Seq(S) /\ Len(Append(q, e)) = Len(q) + 1
         /\ Append(q, e)[Len(q) + 1] = e /\ Len(q) \in Nat
         /\ \A i \in 1..Len(q) : Append(q, e)[i] = q[i]
         /\ \A i \in 1..Len(Append(q, e)) : i \in 1..Len(q) \/ i = Len(q) + 1
         /\ q \o <<e>> = Append(q, e) /\ q \o <<>> = q
  OBVIOUS

\* What is at the positions of a queue when its first entry is taken.
LEMMA Taken ==
  ASSUME NEW S, NEW q \in Seq(S), q # <<>>
  PROVE  /\ Tail(q) \in Seq(S) /\ Len(Tail(q)) = Len(q) - 1 /\ Len(q) \in Nat \ {0}
         /\ Head(q) = q[1] /\ Head(q) \in S
         /\ \A i \in 1..Len(Tail(q)) : Tail(q)[i] = q[i + 1] /\ i + 1 \in 1..Len(q)
  OBVIOUS

\* Quiet stretches of a queue with one more entry are those of the queue.
LEMMA QuietAppended ==
  ASSUME NEW S, NEW q \in Seq(S), NEW e \in S, NEW i \in Nat \ {0}
  PROVE  /\ \A j \in 0..Len(q) : Quiet(Append(q, e), i, j) <=> Quiet(q, i, j)
         /\ i <= Len(q) + 1 =>
              (Quiet(Append(q, e), i, Len(q) + 1) <=> e.kind # "changed" /\ Quiet(q, i, Len(q)))
<1>1. /\ Append(q, e)[Len(q) + 1] = e /\ Len(q) \in Nat
      /\ \A k \in 1..Len(q) : Append(q, e)[k] = q[k]
  BY Appended
<1>2. ASSUME NEW j \in 0..Len(q) PROVE Quiet(Append(q, e), i, j) <=> Quiet(q, i, j)
  <2>1. \A k \in i..j : Append(q, e)[k] = q[k]
    BY <1>1
  <2> QED
    BY <2>1 DEF Quiet
<1>3. ASSUME i <= Len(q) + 1
      PROVE  Quiet(Append(q, e), i, Len(q) + 1) <=> e.kind # "changed" /\ Quiet(q, i, Len(q))
  <2>1. \A k \in i..Len(q) : Append(q, e)[k] = q[k] /\ k \in i..(Len(q) + 1)
    BY <1>1
  <2>2. Len(q) + 1 \in i..(Len(q) + 1)
    BY <1>1, <1>3
  <2>3. \A k \in i..(Len(q) + 1) : k \in i..Len(q) \/ k = Len(q) + 1
    BY <1>1
  <2> QED
    BY <1>1, <2>1, <2>2, <2>3 DEF Quiet
<1> QED
  BY <1>2, <1>3

\* Quiet stretches of a queue whose first entry is taken are those of the queue.
LEMMA QuietTaken ==
  ASSUME NEW S, NEW q \in Seq(S), q # <<>>, NEW i \in Nat \ {0}, NEW j \in 0..Len(Tail(q))
  PROVE  /\ Quiet(Tail(q), i, j) <=> Quiet(q, i + 1, j + 1)
         /\ Head(q).kind # "changed" /\ Quiet(Tail(q), 1, j) => Quiet(q, 1, j + 1)
<1>1. /\ Len(Tail(q)) = Len(q) - 1 /\ Len(q) \in Nat \ {0} /\ Head(q) = q[1]
      /\ \A k \in 1..Len(Tail(q)) : Tail(q)[k] = q[k + 1]
  BY Taken
<1>2. ASSUME NEW m \in Nat \ {0}
      PROVE  Quiet(Tail(q), m, j) <=> Quiet(q, m + 1, j + 1)
  <2>1. \A k \in m..j : Tail(q)[k] = q[k + 1] /\ k + 1 \in (m + 1)..(j + 1)
    BY <1>1
  <2>2. \A k \in (m + 1)..(j + 1) : k - 1 \in m..j /\ k = (k - 1) + 1
    BY <1>1
  <2> QED
    BY <2>1, <2>2 DEF Quiet
<1>3. ASSUME Head(q).kind # "changed", Quiet(Tail(q), 1, j) PROVE Quiet(q, 1, j + 1)
  <2>1. Quiet(q, 1 + 1, j + 1)
    BY <1>2, <1>3
  <2>2. \A k \in 1..(j + 1) : k = 1 \/ k \in (1 + 1)..(j + 1)
    BY <1>1
  <2> QED
    BY <1>1, <1>3, <2>1, <2>2 DEF Quiet
<1> QED
  BY <1>2, <1>3

\* The user at the end of a queue is the one of the change that is added to it.
LEMMA ChangeAppended ==
  ASSUME NEW S, NEW q \in Seq(S), NEW e \in S, NEW before, e.kind = "changed"
  PROVE  EndsWith(Append(q, e), before, e.uid)
<1>1. /\ Append(q, e)[Len(q) + 1] = e /\ Len(q) \in Nat /\ Len(Append(q, e)) = Len(q) + 1
      /\ \A i \in 1..Len(Append(q, e)) : i \in 1..Len(q) \/ i = Len(q) + 1
  BY Appended
<1>2. ~Quiet(Append(q, e), 1, Len(q) + 1)
  BY <1>1, QuietAppended
<1>3. ASSUME NEW i \in 1..Len(q) PROVE ~Quiet(Append(q, e), i + 1, Len(q) + 1)
  <2>1. i + 1 \in Nat \ {0} /\ i + 1 <= Len(q) + 1
    BY <1>1
  <2> QED
    BY <2>1, QuietAppended
<1> QED
  BY <1>1, <1>2, <1>3 DEF EndsWith

\* Other entries do not change it.
LEMMA OtherAppended ==
  ASSUME NEW S, NEW q \in Seq(S), NEW e \in S, NEW before, NEW u, e.kind # "changed",
         EndsWith(q, before, u)
  PROVE  EndsWith(Append(q, e), before, u)
<1>1. /\ Append(q, e)[Len(q) + 1] = e /\ Len(q) \in Nat /\ Len(Append(q, e)) = Len(q) + 1
      /\ \A i \in 1..Len(q) : Append(q, e)[i] = q[i]
      /\ \A i \in 1..Len(Append(q, e)) : i \in 1..Len(q) \/ i = Len(q) + 1
  BY Appended
<1>2. Quiet(Append(q, e), 1, Len(q) + 1) => Quiet(q, 1, Len(q))
  BY <1>1, QuietAppended
<1>3. ASSUME NEW i \in 1..Len(q), Quiet(Append(q, e), i + 1, Len(q) + 1)
      PROVE  Quiet(q, i + 1, Len(q))
  <2>1. i + 1 \in Nat \ {0} /\ i + 1 <= Len(q) + 1
    BY <1>1
  <2> QED
    BY <1>3, <2>1, QuietAppended
<1> QED
  BY <1>1, <1>2, <1>3 DEF EndsWith

\* The first change that is taken is the user before the rest.
LEMMA ChangeTaken ==
  ASSUME NEW S, NEW q \in Seq(S), q # <<>>, NEW before, NEW u, EndsWith(q, before, u)
  PROVE  /\ Head(q).kind = "changed" => EndsWith(Tail(q), Head(q).uid, u)
         /\ Head(q).kind # "changed" => EndsWith(Tail(q), before, u)
<1>1. /\ Len(Tail(q)) = Len(q) - 1 /\ Len(q) \in Nat \ {0} /\ Head(q) = q[1]
      /\ \A k \in 1..Len(Tail(q)) : Tail(q)[k] = q[k + 1] /\ k + 1 \in 1..Len(q)
  BY Taken
<1>2. ASSUME NEW i \in 1..Len(Tail(q)), Tail(q)[i].kind = "changed",
             Quiet(Tail(q), i + 1, Len(Tail(q)))
      PROVE  Tail(q)[i].uid = u
  <2>1. i + 1 \in Nat \ {0} /\ Len(Tail(q)) \in 0..Len(Tail(q)) /\ Len(Tail(q)) + 1 = Len(q)
    BY <1>1
  <2>2. Quiet(q, (i + 1) + 1, Len(q))
    BY <1>2, <2>1, QuietTaken
  <2> QED
    BY <1>1, <1>2, <2>2 DEF EndsWith
<1>3. /\ Len(Tail(q)) \in 0..Len(Tail(q)) /\ Len(Tail(q)) + 1 = Len(q)
      /\ 1 \in Nat \ {0} /\ 1 \in 1..Len(q)
  BY <1>1
<1>4. Head(q).kind = "changed" /\ Quiet(Tail(q), 1, Len(Tail(q))) => u = Head(q).uid
  BY <1>1, <1>3, QuietTaken DEF EndsWith
<1>5. Head(q).kind # "changed" /\ Quiet(Tail(q), 1, Len(Tail(q))) => u = before
  BY <1>1, <1>3, QuietTaken DEF EndsWith
<1> QED
  BY <1>2, <1>4, <1>5 DEF EndsWith

(***************************************************************************)
(* The main queue                                                          *)
(***************************************************************************)
\* A change that is posted brings the queue in step with the new user, whoever it is:
\* what is behind it will not pass for fresh.
LEMMA Post ==
  ASSUME NEW q \in Seq(Changes \cup Answers), NEW S, NEW c, NEW us, NEW user, NEW us2,
         NEW user2, NEW e \in Changes, e.uid = Uid(us2, user2), InStep(q, S, c, us, user)
  PROVE  InStep(Append(q, e), S, c, us2, user2)
<1> DEFINE All == Changes \cup Answers
<1>1. e \in All /\ e.kind = "changed"
  BY DEF Changes
<1>2. /\ Len(Append(q, e)) = Len(q) + 1 /\ Append(q, e)[Len(q) + 1] = e /\ Len(q) \in Nat
      /\ \A i \in 1..Len(q) : Append(q, e)[i] = q[i]
      /\ \A i \in 1..Len(Append(q, e)) : i \in 1..Len(q) \/ i = Len(q) + 1
  BY <1>1, Appended
<1>3. EndsWith(Append(q, e), c.current_user, Uid(us2, user2))
  BY <1>1, ChangeAppended
<1>4. ~Quiet(Append(q, e), 1, Len(Append(q, e)))
  BY <1>1, <1>2 DEF Quiet
<1>5. ASSUME NEW i \in 1..Len(q), Quiet(Append(q, e), 1, i - 1) PROVE Quiet(q, 1, i - 1)
  BY <1>2, <1>5 DEF Quiet
<1>6. AnswersFresh(Append(q, e), c)
  <2> SUFFICES ASSUME NEW i \in 1..Len(Append(q, e)), Append(q, e)[i].kind = "token",
                      Append(q, e)[i].request.counter = c.token_counter,
                      Quiet(Append(q, e), 1, i - 1)
               PROVE  Append(q, e)[i].uid = c.current_user
    BY DEF AnswersFresh
  <2>1. i \in 1..Len(q)
    BY <1>1, <1>2
  <2> QED
    BY <1>2, <1>5, <2>1 DEF InStep, AnswersFresh
<1> QED
  BY <1>3, <1>4, <1>6 DEF InStep, TasksFresh

\* An answer keeps the queue in step if it is an error, stale, behind a change, or of
\* the user who is signed in.
LEMMA AnswerAppended ==
  ASSUME NEW q \in Seq(Changes \cup Answers), NEW S, NEW c, NEW us, NEW user,
         NEW e \in Answers, InStep(q, S, c, us, user),
         e.kind = "token" /\ e.request.counter = c.token_counter /\ Quiet(q, 1, Len(q))
             => e.uid = Uid(us, user)
  PROVE  InStep(Append(q, e), S, c, us, user)
<1> DEFINE All == Changes \cup Answers
<1>1. e \in All /\ e.kind # "changed"
  BY DEF Answers
<1>2. /\ Len(Append(q, e)) = Len(q) + 1 /\ Append(q, e)[Len(q) + 1] = e /\ Len(q) \in Nat
      /\ \A i \in 1..Len(q) : Append(q, e)[i] = q[i]
      /\ \A i \in 1..Len(Append(q, e)) : i \in 1..Len(q) \/ i = Len(q) + 1
  BY <1>1, Appended
<1>3. EndsWith(Append(q, e), c.current_user, Uid(us, user))
  BY <1>1, OtherAppended DEF InStep
<1>4. Quiet(Append(q, e), 1, Len(Append(q, e))) => Quiet(q, 1, Len(q))
  BY <1>2 DEF Quiet
<1>5. ASSUME NEW i \in 1..(Len(q) + 1), Quiet(Append(q, e), 1, i - 1) PROVE Quiet(q, 1, i - 1)
  BY <1>2, <1>5 DEF Quiet
<1>6. AnswersFresh(Append(q, e), c)
  <2> SUFFICES ASSUME NEW i \in 1..Len(Append(q, e)), Append(q, e)[i].kind = "token",
                      Append(q, e)[i].request.counter = c.token_counter,
                      Quiet(Append(q, e), 1, i - 1)
               PROVE  Append(q, e)[i].uid = c.current_user
    BY DEF AnswersFresh
  <2>1. Quiet(q, 1, i - 1)
    BY <1>2, <1>5
  <2>2. CASE i \in 1..Len(q)
    BY <1>2, <2>1, <2>2 DEF InStep, AnswersFresh
  <2>3. CASE i = Len(q) + 1
    <3>1. Quiet(q, 1, Len(q)) /\ Append(q, e)[i] = e
      BY <1>2, <2>1, <2>3
    <3> QED
      BY <3>1 DEF InStep, EndsWith
  <2> QED
    BY <1>2, <2>2, <2>3
<1>7. TasksFresh(S, Append(q, e), c, user)
  BY <1>4 DEF InStep, TasksFresh
<1> QED
  BY <1>3, <1>6, <1>7 DEF InStep

\* The automatic refresh has no callback, and is nobody's request.
LEMMA NoCallback ==
  ASSUME NEW kind, NEW uid, NEW q \in Seq(Changes \cup Answers)
  PROVE  WithAnswer(q, AutoRefresh, kind, uid) = q
  BY DEF Callback, WithAnswer

\* The callback of any other request is one answer.
LEMMA OneCallback ==
  ASSUME NEW r \in Requests, NEW kind \in {"token", "error"}, NEW uid \in Users,
         NEW q \in Seq(Changes \cup Answers)
  PROVE  \E e \in Answers : /\ e.kind = kind /\ e.uid = uid /\ e.request = r
                            /\ WithAnswer(q, r, kind, uid) = Append(q, e)
<1> DEFINE e == [kind |-> kind, uid |-> uid, request |-> r]
<1>1. e \in Answers /\ e.kind = kind /\ e.uid = uid /\ e.request = r
  BY DEF Answers
<1>2. Callback(r, kind, uid) = <<e>>
  BY DEF Callback, Requests, AutoRefresh
<1>3. q \o <<e>> = Append(q, e)
  BY <1>1, Appended
<1>4. WithAnswer(q, r, kind, uid) = Append(q, e)
  BY <1>2, <1>3 DEF WithAnswer
<1> QED
  BY <1>1, <1>4

\* A posted notification is one change, or none: then the user is the one who was
\* notified last.
LEMMA PostedIs ==
  ASSUME NEW us, NEW i, Uid(us, i) \in Users, NEW q \in Seq(Changes \cup Answers)
  PROVE  \/ Token(us, i) = lastNotified /\ WithNews(q, us, i) = q
         \/ \E e \in Changes : e.uid = Uid(us, i) /\ WithNews(q, us, i) = Append(q, e)
<1>1. CASE Token(us, i) = lastNotified
  BY <1>1 DEF Posted, WithNews
<1>2. CASE Token(us, i) # lastNotified
  <2> DEFINE e == [kind |-> "changed", uid |-> Uid(us, i)]
  <2>1. e \in Changes /\ e.uid = Uid(us, i)
    BY DEF Changes
  <2>2. Posted(us, i) = <<e>>
    BY <1>2 DEF Posted
  <2>3. q \o <<e>> = Append(q, e)
    BY <2>1, Appended
  <2>4. WithNews(q, us, i) = Append(q, e)
    BY <2>2, <2>3 DEF WithNews
  <2> QED
    BY <2>1, <2>4
<1> QED
  BY <1>1, <1>2

(***************************************************************************)
(* The one request of a stream that is starting                            *)
(***************************************************************************)
\* A request that the stream waits for is the only one.
LEMMA Only ==
  ASSUME NEW A, NEW T, NEW M, NEW W, NEW s, OneIn(A, T, M, W, s)
  PROVE  /\ \A x \in A : s = "Starting" /\ A = {x} /\ T = {} /\ M = {} /\ W = {}
         /\ \A x \in T : s = "Starting" /\ T = {x} /\ A = {} /\ M = {} /\ W = {}
         /\ \A x \in M : s = "Starting" /\ M = {x} /\ A = {} /\ T = {} /\ W = {}
         /\ \A x \in W : s = "Starting" /\ W = {x} /\ A = {} /\ T = {} /\ M = {}
  BY DEF OneIn, One

\* One is one.
LEMMA OneAlone == \A x : One({x}) /\ One({} \cup {x})
  BY DEF One

\* An answer is on the queue where it is appended.
LEMMA MainForAppended ==
  ASSUME NEW q \in Seq(Changes \cup Answers), NEW c
  PROVE  /\ \A e \in Changes : MainFor(Append(q, e), c) = MainFor(q, c)
         /\ \A e \in Answers : IF e.request.close = c
                               THEN MainFor(q, c) = {} => One(MainFor(Append(q, e), c))
                               ELSE MainFor(Append(q, e), c) = MainFor(q, c)
<1>1. ASSUME NEW e \in Changes \cup Answers
      PROVE  MainFor(Append(q, e), c) =
               IF e.kind # "changed" /\ e.request.close = c THEN MainFor(q, c) \cup {Len(q) + 1}
               ELSE MainFor(q, c)
  <2>1. /\ Len(Append(q, e)) = Len(q) + 1 /\ Append(q, e)[Len(q) + 1] = e /\ Len(q) \in Nat
        /\ \A i \in 1..Len(q) : Append(q, e)[i] = q[i]
    BY Appended
  <2>2. 1..Len(Append(q, e)) = 1..Len(q) \cup {Len(q) + 1}
    BY <2>1
  <2> QED
    BY <2>1, <2>2 DEF MainFor
<1>2. \A e \in Changes : e.kind = "changed"
  BY DEF Changes
<1>3. \A e \in Answers : e.kind # "changed"
  BY DEF Answers
<1> QED
  BY <1>1, <1>2, <1>3, OneAlone

\* The same for the worker queue.
LEMMA WorkerForAppended ==
  ASSUME NEW q \in Seq(Changes \cup Credentials), NEW c
  PROVE  /\ \A e \in Changes : WorkerFor(Append(q, e), c) = WorkerFor(q, c)
         /\ \A e \in Credentials : IF e.close = c
                               THEN WorkerFor(q, c) = {} => One(WorkerFor(Append(q, e), c))
                               ELSE WorkerFor(Append(q, e), c) = WorkerFor(q, c)
<1>1. ASSUME NEW e \in Changes \cup Credentials
      PROVE  WorkerFor(Append(q, e), c) =
               IF e.kind # "changed" /\ e.close = c THEN WorkerFor(q, c) \cup {Len(q) + 1}
               ELSE WorkerFor(q, c)
  <2>1. /\ Len(Append(q, e)) = Len(q) + 1 /\ Append(q, e)[Len(q) + 1] = e /\ Len(q) \in Nat
        /\ \A i \in 1..Len(q) : Append(q, e)[i] = q[i]
    BY Appended
  <2>2. 1..Len(Append(q, e)) = 1..Len(q) \cup {Len(q) + 1}
    BY <2>1
  <2> QED
    BY <2>1, <2>2 DEF WorkerFor
<1>2. \A e \in Changes : e.kind = "changed"
  BY DEF Changes
<1>3. \A e \in Credentials : e.kind # "changed"
  BY DEF Credentials
<1> QED
  BY <1>1, <1>2, <1>3, OneAlone

\* Positions move up by one when the first entry is taken.
LEMMA Shifted ==
  ASSUME NEW n \in Nat \ {0}, NEW X \in SUBSET (1..n), NEW Y,
         Y = {i \in 1..(n - 1) : i + 1 \in X}
  PROVE  /\ 1 \notin X => (X = {} => Y = {}) /\ (One(X) => One(Y))
         /\ X = {1} => Y = {}
<1>1. X = {1} => Y = {}
  BY SMT
<1>2. ASSUME 1 \notin X, One(X) PROVE One(Y)
  <2>1. PICK x \in X : X = {x}
    BY <1>2 DEF One
  <2>2. x \in 2..n /\ x - 1 \in 1..(n - 1) /\ (x - 1) + 1 = x
    BY <1>2, <2>1
  <2>3. \A i \in 1..(n - 1) : i + 1 = x => i = x - 1
    BY <2>2
  <2>4. Y = {x - 1}
    BY <2>1, <2>2, <2>3
  <2> QED
    BY <2>4 DEF One
<1> QED
  BY <1>1, <1>2

\* When the first entry of the main queue is taken, the stream's request stays, or it
\* was the one that is taken.
LEMMA MainForTaken ==
  ASSUME NEW q \in Seq(Changes \cup Answers), q # <<>>, NEW c
  PROVE  /\ Head(q).kind = "changed" \/ Head(q).request.close # c =>
               /\ MainFor(q, c) = {} => MainFor(Tail(q), c) = {}
               /\ One(MainFor(q, c)) => One(MainFor(Tail(q), c))
         /\ Head(q).kind # "changed" /\ Head(q).request.close = c =>
               /\ 1 \in MainFor(q, c)
               /\ MainFor(q, c) = {1} => MainFor(Tail(q), c) = {}
<1>1. /\ Len(Tail(q)) = Len(q) - 1 /\ Len(q) \in Nat \ {0} /\ Head(q) = q[1]
      /\ \A k \in 1..Len(Tail(q)) : Tail(q)[k] = q[k + 1] /\ k + 1 \in 1..Len(q)
  BY Taken
<1>2. MainFor(Tail(q), c) = {i \in 1..(Len(q) - 1) : i + 1 \in MainFor(q, c)}
  BY <1>1 DEF MainFor
<1>3. MainFor(q, c) \in SUBSET (1..Len(q)) /\ 1 \in 1..Len(q)
  BY <1>1 DEF MainFor
<1>4. 1 \in MainFor(q, c) <=> Head(q).kind # "changed" /\ Head(q).request.close = c
  BY <1>1, <1>3 DEF MainFor
<1> QED
  BY <1>1, <1>2, <1>3, <1>4, Shifted

\* The same for the worker queue.
LEMMA WorkerForTaken ==
  ASSUME NEW q \in Seq(Changes \cup Credentials), q # <<>>, NEW c
  PROVE  /\ Head(q).kind = "changed" \/ Head(q).close # c =>
               /\ WorkerFor(q, c) = {} => WorkerFor(Tail(q), c) = {}
               /\ One(WorkerFor(q, c)) => One(WorkerFor(Tail(q), c))
         /\ Head(q).kind # "changed" /\ Head(q).close = c =>
               /\ 1 \in WorkerFor(q, c)
               /\ WorkerFor(q, c) = {1} => WorkerFor(Tail(q), c) = {}
<1>1. /\ Len(Tail(q)) = Len(q) - 1 /\ Len(q) \in Nat \ {0} /\ Head(q) = q[1]
      /\ \A k \in 1..Len(Tail(q)) : Tail(q)[k] = q[k + 1] /\ k + 1 \in 1..Len(q)
  BY Taken
<1>2. WorkerFor(Tail(q), c) = {i \in 1..(Len(q) - 1) : i + 1 \in WorkerFor(q, c)}
  BY <1>1 DEF WorkerFor
<1>3. WorkerFor(q, c) \in SUBSET (1..Len(q)) /\ 1 \in 1..Len(q)
  BY <1>1 DEF WorkerFor
<1>4. 1 \in WorkerFor(q, c) <=> Head(q).kind # "changed" /\ Head(q).close = c
  BY <1>1, <1>3 DEF WorkerFor
<1> QED
  BY <1>1, <1>2, <1>3, <1>4, Shifted

(***************************************************************************)
(* FirebaseAuth                                                            *)
(***************************************************************************)
\* The callback of a request keeps the queue in step, and is where the request is now.
LEMMA Answered ==
  ASSUME NEW q \in Seq(Changes \cup Answers), NEW S, NEW c, NEW s, NEW us, NEW user,
         NEW r \in Requests \cup {AutoRefresh}, NEW kind \in {"token", "error"},
         NEW uid \in Users, InStep(q, S, c, us, user), AnswersBehind(q, c, s),
         Behind(r, c, s),
         kind = "token" /\ r.counter = c.token_counter /\ Quiet(q, 1, Len(q))
             => uid = Uid(us, user)
  PROVE  LET q2 == WithAnswer(q, r, kind, uid)
         IN  /\ q2 \in Seq(Changes \cup Answers)
             /\ InStep(q2, S, c, us, user)
             /\ AnswersBehind(q2, c, s)
             /\ \A n \in Nat : IF r.close = n THEN MainFor(q, n) = {} => One(MainFor(q2, n))
                              ELSE MainFor(q2, n) = MainFor(q, n)
<1>1. CASE r = AutoRefresh
  <2>1. \A n \in Nat : r.close # n
    BY <1>1 DEF AutoRefresh
  <2>2. WithAnswer(q, r, kind, uid) = q
    BY <1>1, NoCallback
  <2> QED
    BY <2>1, <2>2
<1>2. CASE r \in Requests
  <2>1. PICK e \in Answers : /\ e.kind = kind /\ e.uid = uid /\ e.request = r
                             /\ WithAnswer(q, r, kind, uid) = Append(q, e)
    BY <1>2, OneCallback
  <2> DEFINE q2 == Append(q, e)
  <2>2. /\ q2 \in Seq(Changes \cup Answers) /\ Len(q2) = Len(q) + 1 /\ q2[Len(q) + 1] = e
        /\ \A i \in 1..Len(q) : q2[i] = q[i]
        /\ \A i \in 1..Len(q2) : i \in 1..Len(q) \/ i = Len(q) + 1
    BY Appended
  <2>3. InStep(q2, S, c, us, user)
    BY <2>1, AnswerAppended
  <2>4. \A n \in Nat : IF r.close = n THEN MainFor(q, n) = {} => One(MainFor(q2, n))
                      ELSE MainFor(q2, n) = MainFor(q, n)
    BY <2>1, MainForAppended
  <2> HIDE DEF q2
  <2>5. AnswersBehind(q2, c, s)
    BY <2>1, <2>2 DEF AnswersBehind
  <2>6. WithAnswer(q, r, kind, uid) = q2
    BY <2>1 DEF q2
  <2> QED
    BY <2>2, <2>3, <2>4, <2>5, <2>6
<1> QED
  BY <1>1, <1>2

\* updateCurrentUser keeps the queue in step with the user it makes current.
LEMMA Updated ==
  ASSUME CredentialInv, NEW us \in Seq(UserObjects), NEW i \in 0..Len(us),
         i = currentUser => Uid(us, i) = Uid(users, currentUser),
         NEW q2, q2 = WithNews(main, us, i)
  PROVE  /\ q2 \in Seq(Changes \cup Answers)
         /\ InStep(q2, tasks, contents, us, i)
         /\ AnswersBehind(q2, contents, stream)
         /\ \A n \in Nat : MainFor(q2, n) = MainFor(main, n)
         /\ Token(us, i) \in Nat \X Nat /\ Token(us, i)[1] = i
         /\ Uid(us, i) \in Users
<1>1. /\ main \in Seq(Changes \cup Answers) /\ lastNotified[1] = currentUser
      /\ InStep(main, tasks, contents, users, currentUser)
      /\ AnswersBehind(main, contents, stream)
  BY DEF CredentialInv, CredentialTypes, NotifiedIsCurrent, RequestsBehind
<1>2. i # 0 => us[i] \in UserObjects
  OBVIOUS
<1>3. Token(us, i) \in Nat \X Nat /\ Token(us, i)[1] = i
  <2>1. CASE i = 0
    BY <2>1 DEF Token
  <2>2. CASE i # 0
    <3>1. us[i].token \in Nat /\ i \in Nat
      BY <1>2, <2>2 DEF UserObjects
    <3> QED
      BY <2>2, <3>1 DEF Token
  <2> QED
    BY <2>1, <2>2
<1>4. Uid(us, i) \in Users
  BY <1>2 DEF Uid, Users, UserObjects
<1>5. CASE Token(us, i) = lastNotified /\ q2 = main
  <2>1. i = currentUser /\ Uid(us, i) = Uid(users, currentUser)
    BY <1>1, <1>3, <1>5
  <2> QED
    BY <1>1, <1>3, <1>4, <1>5, <2>1 DEF InStep
<1>6. CASE \E e \in Changes : e.uid = Uid(us, i) /\ q2 = Append(main, e)
  <2>1. PICK e \in Changes : e.uid = Uid(us, i) /\ q2 = Append(main, e)
    BY <1>6
  <2>2. /\ q2 \in Seq(Changes \cup Answers) /\ Len(q2) = Len(main) + 1
        /\ q2[Len(main) + 1] = e /\ e.kind = "changed"
        /\ \A k \in 1..Len(main) : q2[k] = main[k]
        /\ \A k \in 1..Len(q2) : k \in 1..Len(main) \/ k = Len(main) + 1
    BY <1>1, <2>1, Appended DEF Changes
  <2>3. AnswersBehind(q2, contents, stream)
    BY <1>1, <2>2 DEF AnswersBehind
  <2>4. InStep(Append(main, e), tasks, contents, us, i)
    BY <1>1, <2>1, Post
  <2>5. \A n \in Nat : MainFor(Append(main, e), n) = MainFor(main, n)
    BY <1>1, MainForAppended
  <2> QED
    BY <1>3, <1>4, <2>1, <2>2, <2>3, <2>4, <2>5
<1> QED
  BY <1>1, <1>4, <1>5, <1>6, PostedIs

\* A step of FirebaseAuth that changes neither requests nor answers keeps the rest.
LEMMA AuthSide ==
  ASSUME CredentialInv, UNCHANGED <<provider, worker, firestore>>, CredentialTypes',
         NotifiedIsCurrent', InStep(main', tasks', contents, users', currentUser'),
         AnswersBehind(main', contents, stream), asked' \subseteq asked,
         \A t \in tasks' : Behind(t.request, contents, stream), OneRequest'
  PROVE  CredentialInv'
<1>1. UNCHANGED <<contents, force_refresh, worker, sync_user, stream>>
  BY DEF provider, firestore
<1>2. RequestsBehind'
  BY <1>1 DEF CredentialInv, RequestsBehind, AnswersBehind, Behind
<1> QED
  BY <1>1, <1>2 DEF CredentialInv, InStep, EndsWith, AnswersFresh, TasksFresh, TokensInStep,
     Quiet, Uid, StreamIsOwn

\* Fewer tasks are still in step.
LEMMA FewerTasks ==
  ASSUME NEW q, NEW S, NEW c, NEW us, NEW user, InStep(q, S, c, us, user), NEW S2 \in SUBSET S
  PROVE  InStep(q, S2, c, us, user)
  BY DEF InStep, TasksFresh

\* A task that is done is answered on the main queue, behind what was posted there.
LEMMA TaskEnds ==
  ASSUME CredentialInv, NEW t \in tasks, NEW kind \in {"token", "error"}, NEW uid \in Users,
         NEW q \in Seq(Changes \cup Answers), users' \in Seq(UserObjects),
         Len(users') = Len(users), currentUser' \in 0..Len(users),
         lastNotified' \in Nat \X Nat, lastNotified'[1] = currentUser',
         InStep(q, tasks, contents, users', currentUser'), AnswersBehind(q, contents, stream),
         \A n \in Nat : MainFor(q, n) = MainFor(main, n),
         tasks' = Without(tasks, t), refreshing' \subseteq tasks',
         main' = WithAnswer(q, t.request, kind, uid),
         kind = "token" /\ t.request.counter = contents.token_counter /\ Quiet(q, 1, Len(q))
             => uid = Uid(users', currentUser'),
         UNCHANGED <<asked, provider, worker, firestore>>
  PROVE  CredentialInv'
<1>1. /\ t.request \in Requests \cup {AutoRefresh} /\ Behind(t.request, contents, stream)
      /\ stream.close_count \in Nat
  BY DEF CredentialInv, CredentialTypes, RequestsBehind
<1>2. /\ main' \in Seq(Changes \cup Answers)
      /\ InStep(main', tasks, contents, users', currentUser')
      /\ AnswersBehind(main', contents, stream)
      /\ \A n \in Nat : IF t.request.close = n THEN MainFor(q, n) = {} => One(MainFor(main', n))
                       ELSE MainFor(main', n) = MainFor(q, n)
  BY <1>1, Answered
<1>3. tasks' \subseteq tasks /\ InStep(main', tasks', contents, users', currentUser')
  BY <1>2, FewerTasks DEF Without
<1>4. UNCHANGED <<contents, force_refresh, worker, sync_user, stream>>
  BY DEF provider, firestore
<1>5. CredentialTypes'
  BY <1>2, <1>3, <1>4 DEF CredentialInv, CredentialTypes
<1>6. \A o \in tasks' : Behind(o.request, contents, stream)
  BY <1>3 DEF CredentialInv, RequestsBehind
<1>7. OneRequest'
  <2> DEFINE n == stream.close_count
  <2>1. OneIn(AskedFor(asked, n), TasksFor(tasks, n), MainFor(main, n), WorkerFor(worker, n),
              stream.state)
    BY DEF CredentialInv, OneRequest
  <2>2. CASE t.request.close = n
    <3>1. t \in TasksFor(tasks, n) /\ (TasksFor(tasks, n) = {t} => TasksFor(tasks', n) = {})
      BY <2>2 DEF TasksFor, Without
    <3>2. /\ stream.state = "Starting" /\ TasksFor(tasks', n) = {} /\ MainFor(main, n) = {}
          /\ AskedFor(asked, n) = {} /\ WorkerFor(worker, n) = {}
      BY <2>1, <3>1, Only
    <3>3. One(MainFor(main', n))
      BY <1>1, <1>2, <2>2, <3>2
    <3> QED
      BY <1>4, <3>2, <3>3 DEF OneRequest, OneIn
  <2>3. CASE t.request.close # n
    <3>1. TasksFor(tasks', n) = TasksFor(tasks, n)
      BY <2>3 DEF TasksFor, Without
    <3>2. MainFor(main', n) = MainFor(main, n)
      BY <1>1, <1>2, <2>3
    <3> QED
      BY <1>4, <2>1, <3>1, <3>2 DEF OneRequest
  <2> QED
    BY <2>2, <2>3
<1> QED
  BY <1>2, <1>3, <1>5, <1>6, <1>7, AuthSide DEF NotifiedIsCurrent

\* A new user object; the others stay.
LEMMA InvSignIn ==
  ASSUME CredentialInv, NEW u \in Uids, SignIn(u)
  PROVE  CredentialInv'
<1> DEFINE us == Append(users, [uid |-> u, token |-> 1, valid |-> TRUE])
           i  == Len(users) + 1
<1>1. /\ users' = us /\ currentUser' = i /\ lastNotified' = Token(us, i)
      /\ main' = WithNews(main, us, i) \o <<>>
      /\ UNCHANGED <<asked, tasks, refreshing, provider, worker, firestore>>
  BY DEF SignIn, Update, WithNews
<1>2. /\ users \in Seq(UserObjects) /\ [uid |-> u, token |-> 1, valid |-> TRUE] \in UserObjects
      /\ currentUser \in 0..Len(users)
  BY DEF CredentialInv, CredentialTypes, UserObjects
<1>3. us \in Seq(UserObjects) /\ Len(us) = i /\ Len(users) \in Nat
  BY <1>2
<1>4. i \in 0..Len(us) /\ i # currentUser
  BY <1>2, <1>3
<1> HIDE DEF us, i
<1>5. /\ WithNews(main, us, i) \in Seq(Changes \cup Answers)
      /\ InStep(WithNews(main, us, i), tasks, contents, us, i)
      /\ AnswersBehind(WithNews(main, us, i), contents, stream)
      /\ \A n \in Nat : MainFor(WithNews(main, us, i), n) = MainFor(main, n)
      /\ Token(us, i) \in Nat \X Nat /\ Token(us, i)[1] = i
  BY <1>3, <1>4, Updated
<1>6. main' = WithNews(main, us, i)
  BY <1>1, <1>5
<1>7. UNCHANGED <<contents, force_refresh, worker, sync_user, stream>>
  BY <1>1 DEF provider, firestore
<1>8. tasks \subseteq [user : 1..Len(us), request : Requests \cup {AutoRefresh}]
  BY <1>2, <1>3 DEF i, CredentialInv, CredentialTypes
<1>9. CredentialTypes'
  BY <1>1, <1>3, <1>4, <1>5, <1>6, <1>7, <1>8 DEF CredentialInv, CredentialTypes
<1>10. OneRequest'
  BY <1>1, <1>5, <1>6, <1>7 DEF CredentialInv, CredentialTypes, OneRequest
<1>11. NotifiedIsCurrent'
  BY <1>1, <1>5 DEF NotifiedIsCurrent
<1>12. \A t \in tasks' : Behind(t.request, contents, stream)
  BY <1>1 DEF CredentialInv, RequestsBehind
<1> QED
  BY <1>1, <1>5, <1>6, <1>9, <1>10, <1>11, <1>12, AuthSide

\* The user objects stay when nobody is signed in any more.
LEMMA InvSignOut ==
  ASSUME CredentialInv, SignOut
  PROVE  CredentialInv'
<1>1. /\ users' = users /\ currentUser' = 0 /\ lastNotified' = Token(users, 0)
      /\ main' = WithNews(main, users, 0) \o <<>> /\ currentUser # 0
      /\ UNCHANGED <<asked, tasks, refreshing, provider, worker, firestore>>
  BY DEF SignOut, Update, WithNews
<1>2. users \in Seq(UserObjects) /\ 0 \in 0..Len(users)
  BY DEF CredentialInv, CredentialTypes
<1>3. /\ WithNews(main, users, 0) \in Seq(Changes \cup Answers)
      /\ InStep(WithNews(main, users, 0), tasks, contents, users, 0)
      /\ AnswersBehind(WithNews(main, users, 0), contents, stream)
      /\ \A n \in Nat : MainFor(WithNews(main, users, 0), n) = MainFor(main, n)
      /\ Token(users, 0) \in Nat \X Nat /\ Token(users, 0)[1] = 0
  BY <1>1, <1>2, Updated
<1>4. main' = WithNews(main, users, 0)
  BY <1>1, <1>3
<1>5. UNCHANGED <<contents, force_refresh, worker, sync_user, stream>>
  BY <1>1 DEF provider, firestore
<1>6. CredentialTypes'
  BY <1>1, <1>2, <1>3, <1>4, <1>5 DEF CredentialInv, CredentialTypes
<1>7. OneRequest'
  BY <1>1, <1>3, <1>4, <1>5 DEF CredentialInv, CredentialTypes, OneRequest
<1>8. NotifiedIsCurrent'
  BY <1>1, <1>3 DEF NotifiedIsCurrent
<1>9. \A t \in tasks' : Behind(t.request, contents, stream)
  BY <1>1 DEF CredentialInv, RequestsBehind
<1> QED
  BY <1>1, <1>3, <1>4, <1>6, <1>7, <1>8, <1>9, AuthSide

\* A request is answered at once if nobody is signed in, and is a task of the user
\* otherwise.
LEMMA InvGetTokenForcingRefresh ==
  ASSUME CredentialInv, NEW r \in asked, GetTokenForcingRefresh(r)
  PROVE  CredentialInv'
<1> DEFINE n == stream.close_count
           t == [user |-> currentUser, request |-> r]
<1>1. /\ asked' = Without(asked, r)
      /\ UNCHANGED <<users, currentUser, lastNotified, refreshing, provider, worker, firestore>>
  BY DEF GetTokenForcingRefresh, auth, Without
<1>2. UNCHANGED <<contents, force_refresh, worker, sync_user, stream>>
  BY <1>1 DEF provider, firestore
<1>3. /\ r \in Requests /\ Behind(r, contents, stream) /\ n \in Nat
      /\ main \in Seq(Changes \cup Answers) /\ users \in Seq(UserObjects)
      /\ currentUser \in 0..Len(users)
      /\ tasks \subseteq [user : 1..Len(users), request : Requests \cup {AutoRefresh}]
      /\ InStep(main, tasks, contents, users, currentUser)
      /\ AnswersBehind(main, contents, stream)
      /\ \A o \in tasks : Behind(o.request, contents, stream)
  BY DEF CredentialInv, CredentialTypes, RequestsBehind
<1>4. OneIn(AskedFor(asked, n), TasksFor(tasks, n), MainFor(main, n), WorkerFor(worker, n),
            stream.state)
  BY DEF CredentialInv, OneRequest
<1>5. asked' \subseteq asked /\ NotifiedIsCurrent'
  BY <1>1 DEF Without, CredentialInv, NotifiedIsCurrent
<1>6. /\ r.close # n => AskedFor(asked', n) = AskedFor(asked, n)
      /\ r.close = n => /\ stream.state = "Starting" /\ AskedFor(asked', n) = {}
                        /\ TasksFor(tasks, n) = {} /\ MainFor(main, n) = {}
                        /\ WorkerFor(worker, n) = {}
  <2>1. r.close # n => AskedFor(asked', n) = AskedFor(asked, n)
    BY <1>1 DEF AskedFor, Without
  <2>2. CASE r.close = n
    <3>1. r \in AskedFor(asked, n) /\ (AskedFor(asked, n) = {r} => AskedFor(asked', n) = {})
      BY <1>1, <2>2 DEF AskedFor, Without
    <3> QED
      BY <1>4, <2>2, <3>1, Only
  <2> QED
    BY <2>1, <2>2
<1>7. CASE currentUser = 0
  <2>1. main' = WithAnswer(main, r, "token", Nobody) /\ tasks' = tasks
    BY <1>7 DEF GetTokenForcingRefresh, WithAnswer
  <2>2. Nobody \in Users /\ Nobody = Uid(users, currentUser)
    BY <1>7 DEF Users, Uid
  <2>3. /\ main' \in Seq(Changes \cup Answers)
        /\ InStep(main', tasks, contents, users, currentUser)
        /\ AnswersBehind(main', contents, stream)
        /\ IF r.close = n THEN MainFor(main, n) = {} => One(MainFor(main', n))
           ELSE MainFor(main', n) = MainFor(main, n)
    BY <1>3, <2>1, <2>2, Answered
  <2>4. OneRequest'
    BY <1>1, <1>2, <1>4, <1>6, <2>1, <2>3 DEF OneRequest, OneIn
  <2>5. CredentialTypes'
    BY <1>1, <1>2, <1>5, <2>1, <2>3 DEF CredentialInv, CredentialTypes
  <2> QED
    BY <1>1, <1>3, <1>5, <2>1, <2>3, <2>4, <2>5, AuthSide
<1>8. CASE currentUser # 0
  <2>1. tasks' = tasks \cup {t} /\ main' = main
    BY <1>8 DEF GetTokenForcingRefresh
  <2>2. /\ t \in [user : 1..Len(users), request : Requests \cup {AutoRefresh}]
        /\ t.request = r /\ t.user = currentUser
    BY <1>3, <1>8
  <2> HIDE DEF t
  <2>3. \A o \in tasks' : Behind(o.request, contents, stream)
    BY <1>3, <2>1, <2>2
  <2>4. InStep(main', tasks', contents, users', currentUser')
    BY <1>1, <1>3, <2>1, <2>2 DEF InStep, TasksFresh
  <2>5. /\ r.close # n => TasksFor(tasks', n) = TasksFor(tasks, n)
        /\ r.close = n /\ TasksFor(tasks, n) = {} => TasksFor(tasks', n) = {t}
    BY <2>1, <2>2 DEF TasksFor
  <2>6. OneRequest'
    <3>1. CASE r.close = n
      <4>1. One(TasksFor(tasks', n))
        BY <1>6, <2>5, <3>1, OneAlone
      <4> QED
        BY <1>1, <1>2, <1>6, <2>1, <3>1, <4>1 DEF OneRequest, OneIn
    <3>2. CASE r.close # n
      BY <1>1, <1>2, <1>4, <1>6, <2>1, <2>5, <3>2 DEF OneRequest
    <3> QED
      BY <3>1, <3>2
  <2>7. CredentialTypes'
    BY <1>1, <1>2, <1>3, <1>5, <2>1, <2>2 DEF CredentialInv, CredentialTypes
  <2> QED
    BY <1>1, <1>3, <1>5, <2>1, <2>3, <2>4, <2>6, <2>7, AuthSide
<1> QED
  BY <1>7, <1>8

\* A token that is new or has expired: the user objects are those of the same users.
LEMMA SameUsers ==
  ASSUME CredentialInv, NEW k \in 1..Len(users), NEW us,
         \/ us = [users EXCEPT ![k].valid = FALSE]
         \/ us = [users EXCEPT ![k].token = @ + 1, ![k].valid = TRUE]
  PROVE  /\ us \in Seq(UserObjects) /\ Len(us) = Len(users)
         /\ \A i \in 0..Len(users) : Uid(us, i) = Uid(users, i)
<1>1. users \in Seq(UserObjects) /\ Len(users) \in Nat /\ users[k] \in UserObjects
  BY DEF CredentialInv, CredentialTypes
<1>2. CASE us = [users EXCEPT ![k].valid = FALSE]
  <2>1. [users[k] EXCEPT !.valid = FALSE] \in UserObjects
    BY <1>1 DEF UserObjects
  <2>2. us \in Seq(UserObjects) /\ Len(us) = Len(users)
    BY <1>1, <1>2, <2>1
  <2>3. \A i \in 1..Len(users) : us[i].uid = users[i].uid
    BY <1>1, <1>2 DEF UserObjects
  <2> QED
    BY <1>1, <2>2, <2>3 DEF Uid
<1>3. CASE us = [users EXCEPT ![k].token = @ + 1, ![k].valid = TRUE]
  <2>1. us = [users EXCEPT ![k] = [users[k] EXCEPT !.token = @ + 1, !.valid = TRUE]]
    BY <1>1, <1>3 DEF UserObjects
  <2>2. [users[k] EXCEPT !.token = @ + 1, !.valid = TRUE] \in UserObjects
    <3>1. users[k].token + 1 \in Nat
      BY <1>1 DEF UserObjects
    <3> QED
      BY <1>1, <3>1 DEF UserObjects
  <2>3. us \in Seq(UserObjects) /\ Len(us) = Len(users)
    BY <1>1, <2>1, <2>2
  <2>4. \A i \in 1..Len(users) : us[i].uid = users[i].uid
    BY <1>1, <2>1 DEF UserObjects
  <2> QED
    BY <1>1, <2>3, <2>4 DEF Uid
<1> QED
  BY <1>2, <1>3

\* A token that expires is noticed by nobody.
LEMMA InvExpire ==
  ASSUME CredentialInv, Expire
  PROVE  CredentialInv'
<1>1. /\ users' = [users EXCEPT ![currentUser].valid = FALSE] /\ currentUser # 0
      /\ UNCHANGED <<currentUser, lastNotified, asked, tasks, refreshing, main, provider,
                     worker, firestore>>
  BY DEF Expire
<1>2. currentUser \in 1..Len(users) /\ currentUser \in 0..Len(users)
  BY <1>1 DEF CredentialInv, CredentialTypes
<1>3. PICK us : us = [users EXCEPT ![currentUser].valid = FALSE]
  OBVIOUS
<1>4. /\ us \in Seq(UserObjects) /\ Len(us) = Len(users)
      /\ Uid(us, currentUser) = Uid(users, currentUser)
  BY <1>2, <1>3, SameUsers
<1>5. users' = us
  BY <1>1, <1>3
<1>6. UNCHANGED <<contents, force_refresh, worker, sync_user, stream>>
  BY <1>1 DEF provider, firestore
<1>7. CredentialTypes' /\ NotifiedIsCurrent' /\ OneRequest'
  BY <1>1, <1>4, <1>5, <1>6 DEF CredentialInv, CredentialTypes, NotifiedIsCurrent, OneRequest
<1>8. /\ InStep(main', tasks', contents, users', currentUser')
      /\ AnswersBehind(main', contents, stream)
      /\ \A t \in tasks' : Behind(t.request, contents, stream)
  BY <1>1, <1>4, <1>5 DEF CredentialInv, InStep, RequestsBehind
<1> QED
  BY <1>1, <1>7, <1>8, AuthSide

\* The automatic refresh is a task that nobody waits for.
LEMMA InvRefreshTimer ==
  ASSUME CredentialInv, RefreshTimer
  PROVE  CredentialInv'
<1>1. PICK t : t = [user |-> currentUser, request |-> AutoRefresh]
  OBVIOUS
<1>2. /\ tasks' = tasks \cup {t} /\ currentUser # 0
      /\ UNCHANGED <<users, currentUser, lastNotified, asked, refreshing, main, provider,
                     worker, firestore>>
  BY <1>1 DEF RefreshTimer, auth
<1>3. UNCHANGED <<contents, force_refresh, worker, sync_user, stream>>
  BY <1>2 DEF provider, firestore
<1>4. /\ contents.token_counter \in Nat /\ stream.close_count \in Nat
      /\ currentUser \in 0..Len(users) /\ Len(users) \in Nat
  BY DEF CredentialInv, CredentialTypes
<1>5. /\ t \in [user : 1..Len(users), request : Requests \cup {AutoRefresh}]
      /\ t.request.close # stream.close_count /\ t.user = currentUser
      /\ Behind(t.request, contents, stream)
  BY <1>1, <1>2, <1>4 DEF Behind, AutoRefresh
<1>6. CredentialTypes' /\ NotifiedIsCurrent'
  BY <1>2, <1>3, <1>5 DEF CredentialInv, CredentialTypes, NotifiedIsCurrent
<1>7. TasksFor(tasks', stream.close_count) = TasksFor(tasks, stream.close_count)
  BY <1>2, <1>5 DEF TasksFor
<1>8. OneRequest'
  BY <1>2, <1>3, <1>7 DEF CredentialInv, OneRequest
<1>9. /\ InStep(main', tasks', contents, users', currentUser')
      /\ AnswersBehind(main', contents, stream)
      /\ \A o \in tasks' : Behind(o.request, contents, stream)
  BY <1>2, <1>5 DEF CredentialInv, InStep, TasksFresh, RequestsBehind
<1> QED
  BY <1>2, <1>6, <1>8, <1>9, AuthSide

\* What a task knows: its user is one of the user objects, and the current one if its
\* answer will pass for fresh.
LEMMA TaskUser ==
  ASSUME CredentialInv, NEW t \in tasks
  PROVE  /\ t.user \in 1..Len(users) /\ t.user # 0
         /\ users[t.user].uid \in Users /\ Uid(users, t.user) = users[t.user].uid
         /\ t.request.counter = contents.token_counter /\ Quiet(main, 1, Len(main))
                => t.user = currentUser
<1>1. t.user \in 1..Len(users) /\ users \in Seq(UserObjects) /\ Len(users) \in Nat
  BY DEF CredentialInv, CredentialTypes
<1>2. users[t.user] \in UserObjects /\ t.user # 0
  BY <1>1
<1> QED
  BY <1>1, <1>2 DEF UserObjects, Users, Uid, CredentialInv, InStep, TasksFresh

\* A valid token is answered at once, a refresh waits for the backend.
LEMMA InvFetch ==
  ASSUME CredentialInv, NEW t \in tasks, Fetch(t)
  PROVE  CredentialInv'
<1>1. /\ \A o \in refreshing : o.user # t.user
      /\ UNCHANGED <<users, currentUser, lastNotified, asked, provider, worker, firestore>>
  BY DEF Fetch, auth
<1>2. CASE users[t.user].valid /\ ~t.request.force
  <2>1. /\ tasks' = Without(tasks, t) /\ refreshing' = refreshing
        /\ main' = WithAnswer(main, t.request, "token", users[t.user].uid)
    BY <1>2 DEF Fetch, Without, WithAnswer
  <2>2. t \notin refreshing
    BY <1>1
  <2>3. refreshing' \subseteq tasks'
    BY <2>1, <2>2 DEF Without, CredentialInv, CredentialTypes
  <2>4. /\ main \in Seq(Changes \cup Answers) /\ users' \in Seq(UserObjects)
        /\ currentUser' \in 0..Len(users) /\ Len(users') = Len(users)
        /\ lastNotified' \in Nat \X Nat /\ lastNotified'[1] = currentUser'
        /\ InStep(main, tasks, contents, users', currentUser')
        /\ AnswersBehind(main, contents, stream)
    BY <1>1 DEF CredentialInv, CredentialTypes, NotifiedIsCurrent, RequestsBehind
  <2>5. /\ users[t.user].uid \in Users
        /\ t.request.counter = contents.token_counter /\ Quiet(main, 1, Len(main))
              => users[t.user].uid = Uid(users', currentUser')
    BY <1>1, TaskUser
  <2> QED
    BY <1>1, <2>1, <2>3, <2>4, <2>5, TaskEnds
<1>3. CASE ~(users[t.user].valid /\ ~t.request.force)
  <2>1. refreshing' = refreshing \cup {t} /\ UNCHANGED <<tasks, main>>
    BY <1>3 DEF Fetch
  <2>2. UNCHANGED <<contents, force_refresh, worker, sync_user, stream>>
    BY <1>1 DEF provider, firestore
  <2>3. CredentialTypes' /\ NotifiedIsCurrent' /\ OneRequest'
    BY <1>1, <2>1, <2>2 DEF CredentialInv, CredentialTypes, NotifiedIsCurrent, OneRequest
  <2>4. /\ InStep(main', tasks', contents, users', currentUser')
        /\ AnswersBehind(main', contents, stream)
        /\ \A o \in tasks' : Behind(o.request, contents, stream)
    BY <1>1, <2>1 DEF CredentialInv, RequestsBehind
  <2> QED
    BY <1>1, <2>3, <2>4, AuthSide
<1> QED
  BY <1>2, <1>3

\* A task that ends without news for anybody: the objects of the users may be new.
LEMMA EndsQuietly ==
  ASSUME CredentialInv, NEW t \in refreshing, NEW kind \in {"token", "error"},
         NEW uid \in Users, Completed(t), users' \in Seq(UserObjects),
         Len(users') = Len(users), Uid(users', currentUser) = Uid(users, currentUser),
         main' = WithAnswer(main, t.request, kind, uid),
         kind = "token" => t.user # currentUser,
         UNCHANGED <<currentUser, lastNotified, asked, provider, worker, firestore>>
  PROVE  CredentialInv'
<1>1. t \in tasks /\ tasks' = Without(tasks, t) /\ refreshing' \subseteq tasks'
  BY DEF Completed, Without, CredentialInv, CredentialTypes
<1>2. /\ main \in Seq(Changes \cup Answers)
      /\ currentUser' \in 0..Len(users)
      /\ lastNotified' \in Nat \X Nat /\ lastNotified'[1] = currentUser'
      /\ InStep(main, tasks, contents, users', currentUser')
      /\ AnswersBehind(main, contents, stream)
  BY DEF CredentialInv, CredentialTypes, NotifiedIsCurrent, RequestsBehind, InStep
<1>3. kind = "token" /\ t.request.counter = contents.token_counter /\ Quiet(main, 1, Len(main))
         => uid = Uid(users', currentUser')
  BY <1>1, TaskUser
<1> QED
  BY <1>1, <1>2, <1>3, TaskEnds

\* A task of the current user that ends with an update of the current user.
LEMMA EndsWithUpdate ==
  ASSUME CredentialInv, NEW t \in refreshing, NEW kind \in {"token", "error"},
         NEW uid \in Users, Completed(t), NEW us \in Seq(UserObjects), NEW i \in 0..Len(us),
         Len(us) = Len(users), i = currentUser => Uid(us, i) = Uid(users, currentUser),
         users' = us, currentUser' = i, lastNotified' = Token(us, i),
         main' = WithAnswer(WithNews(main, us, i), t.request, kind, uid),
         kind = "token" => uid = Uid(us, i),
         UNCHANGED <<asked, provider, worker, firestore>>
  PROVE  CredentialInv'
<1>1. t \in tasks /\ tasks' = Without(tasks, t) /\ refreshing' \subseteq tasks'
  BY DEF Completed, Without, CredentialInv, CredentialTypes
<1>2. /\ WithNews(main, us, i) \in Seq(Changes \cup Answers)
      /\ InStep(WithNews(main, us, i), tasks, contents, us, i)
      /\ AnswersBehind(WithNews(main, us, i), contents, stream)
      /\ \A n \in Nat : MainFor(WithNews(main, us, i), n) = MainFor(main, n)
      /\ Token(us, i) \in Nat \X Nat /\ Token(us, i)[1] = i
  BY Updated
<1> QED
  BY <1>1, <1>2, TaskEnds

\* The backend has sent a new token.
LEMMA InvRefreshed ==
  ASSUME CredentialInv, NEW t \in refreshing, Refreshed(t)
  PROVE  CredentialInv'
<1>1. PICK us : us = [users EXCEPT ![t.user].token = @ + 1, ![t.user].valid = TRUE]
  OBVIOUS
<1>2. t \in tasks /\ currentUser \in 0..Len(users)
  BY DEF CredentialInv, CredentialTypes
<1>3. /\ t.user \in 1..Len(users) /\ users[t.user].uid \in Users
      /\ Uid(users, t.user) = users[t.user].uid
  BY <1>2, TaskUser
<1>4. /\ us \in Seq(UserObjects) /\ Len(us) = Len(users)
      /\ Uid(us, currentUser) = Uid(users, currentUser)
  BY <1>1, <1>2, <1>3, SameUsers
<1>5. Completed(t) /\ users' = us /\ UNCHANGED <<asked, provider, worker, firestore>>
  BY <1>1 DEF Refreshed, Update
<1>6. CASE t.user = currentUser
  <2>1. /\ currentUser' = currentUser /\ lastNotified' = Token(us, currentUser)
        /\ main' = WithAnswer(WithNews(main, us, currentUser), t.request, "token",
                              users[t.user].uid)
    BY <1>1, <1>6 DEF Refreshed, Update, WithAnswer, WithNews
  <2>2. users[t.user].uid = Uid(us, currentUser)
    BY <1>3, <1>4, <1>6
  <2> QED
    BY <1>2, <1>3, <1>4, <1>5, <2>1, <2>2, EndsWithUpdate
<1>7. CASE t.user # currentUser
  <2>1. /\ UNCHANGED <<currentUser, lastNotified>>
        /\ main' = WithAnswer(main, t.request, "token", users[t.user].uid)
    BY <1>7 DEF Refreshed, WithAnswer
  <2> QED
    BY <1>3, <1>4, <1>5, <1>7, <2>1, EndsQuietly
<1> QED
  BY <1>6, <1>7

\* The keychain does not take the new token.
LEMMA InvNotSaved ==
  ASSUME CredentialInv, NEW t \in refreshing, NotSaved(t)
  PROVE  CredentialInv'
<1>1. PICK us : us = [users EXCEPT ![t.user].token = @ + 1, ![t.user].valid = TRUE]
  OBVIOUS
<1>2. t \in tasks /\ currentUser \in 0..Len(users)
  BY DEF CredentialInv, CredentialTypes
<1>3. t.user \in 1..Len(users) /\ Nobody \in Users
  BY <1>2, TaskUser DEF Users
<1>4. /\ us \in Seq(UserObjects) /\ Len(us) = Len(users)
      /\ Uid(us, currentUser) = Uid(users, currentUser)
  BY <1>1, <1>2, <1>3, SameUsers
<1>5. /\ Completed(t) /\ users' = us
      /\ main' = WithAnswer(main, t.request, "error", Nobody)
      /\ UNCHANGED <<currentUser, lastNotified, asked, provider, worker, firestore>>
  BY <1>1 DEF NotSaved, WithAnswer
<1> QED
  BY <1>3, <1>4, <1>5, EndsQuietly

\* The backend cannot be reached.
LEMMA InvRefreshFails ==
  ASSUME CredentialInv, NEW t \in refreshing, RefreshFails(t)
  PROVE  CredentialInv'
<1>1. /\ Completed(t) /\ main' = WithAnswer(main, t.request, "error", Nobody)
      /\ UNCHANGED <<users, currentUser, lastNotified, asked, provider, worker, firestore>>
  BY DEF RefreshFails, WithAnswer, auth
<1>2. users' \in Seq(UserObjects) /\ Nobody \in Users
  BY <1>1 DEF CredentialInv, CredentialTypes, Users
<1> QED
  BY <1>1, <1>2, EndsQuietly

\* The account is gone: its user, if current, is signed out.
LEMMA InvRefreshRejected ==
  ASSUME CredentialInv, NEW t \in refreshing, RefreshRejected(t)
  PROVE  CredentialInv'
<1>1. Completed(t) /\ UNCHANGED <<asked, provider, worker, firestore>>
  BY DEF RefreshRejected
<1>2. /\ users \in Seq(UserObjects) /\ 0 \in 0..Len(users) /\ Nobody \in Users
      /\ t \in tasks
  BY DEF CredentialInv, CredentialTypes, Users
<1>3. t.user # 0
  BY <1>2, TaskUser
<1>4. CASE t.user = currentUser
  <2>1. /\ users' = users /\ currentUser' = 0 /\ lastNotified' = Token(users, 0)
        /\ main' = WithAnswer(WithNews(main, users, 0), t.request, "error", Nobody)
    BY <1>4 DEF RefreshRejected, Update, WithAnswer, WithNews
  <2> QED
    BY <1>1, <1>2, <1>3, <1>4, <2>1, EndsWithUpdate
<1>5. CASE t.user # currentUser
  <2>1. /\ main' = WithAnswer(main, t.request, "error", Nobody)
        /\ UNCHANGED <<users, currentUser, lastNotified>>
    BY <1>5 DEF RefreshRejected, WithAnswer, auth
  <2>2. users' \in Seq(UserObjects)
    BY <1>2, <2>1
  <2> QED
    BY <1>1, <1>2, <2>1, <2>2, EndsQuietly
<1> QED
  BY <1>4, <1>5

(***************************************************************************)
(* The credentials provider                                                *)
(***************************************************************************)
\* The queue stays in step when an answer is taken from it.
LEMMA AnswerTaken ==
  ASSUME NEW q \in Seq(Changes \cup Answers), NEW S, NEW c, NEW us, NEW user, q # <<>>,
         Head(q).kind # "changed", InStep(q, S, c, us, user)
  PROVE  InStep(Tail(q), S, c, us, user)
<1>1. /\ Len(Tail(q)) = Len(q) - 1 /\ Len(q) \in Nat \ {0} /\ Head(q) = q[1]
      /\ \A k \in 1..Len(Tail(q)) : Tail(q)[k] = q[k + 1] /\ k + 1 \in 1..Len(q)
  BY Taken
<1>2. EndsWith(Tail(q), c.current_user, Uid(us, user))
  BY ChangeTaken DEF InStep
<1>3. ASSUME NEW j \in 0..Len(Tail(q)), Quiet(Tail(q), 1, j) PROVE Quiet(q, 1, j + 1)
  BY <1>3, QuietTaken
<1>4. AnswersFresh(Tail(q), c)
  <2> SUFFICES ASSUME NEW i \in 1..Len(Tail(q)), Tail(q)[i].kind = "token",
                      Tail(q)[i].request.counter = c.token_counter,
                      Quiet(Tail(q), 1, i - 1)
               PROVE  Tail(q)[i].uid = c.current_user
    BY DEF AnswersFresh
  <2>1. i - 1 \in 0..Len(Tail(q)) /\ (i - 1) + 1 = (i + 1) - 1
    BY <1>1
  <2>2. Quiet(q, 1, (i + 1) - 1)
    BY <1>3, <2>1
  <2> QED
    BY <1>1, <2>2 DEF InStep, AnswersFresh
<1>5. Quiet(Tail(q), 1, Len(Tail(q))) => Quiet(q, 1, Len(q))
  BY <1>1, <1>3
<1> QED
  BY <1>2, <1>4, <1>5 DEF InStep, TasksFresh

\* Tokens on the worker queue keep their place when something is added behind them: a
\* change, an error, or a token of the user at the end.
LEMMA TokenAppended ==
  ASSUME NEW S, NEW q \in Seq(S), NEW e \in S, NEW user, NEW u, TokensInStep(q, user),
         EndsWith(q, user, u), e.kind = "token" => e.label = e.uid /\ e.uid = u
  PROVE  TokensInStep(Append(q, e), user)
<1>1. /\ Len(Append(q, e)) = Len(q) + 1 /\ Append(q, e)[Len(q) + 1] = e /\ Len(q) \in Nat
      /\ \A i \in 1..Len(q) : Append(q, e)[i] = q[i]
      /\ \A i \in 1..Len(Append(q, e)) : i \in 1..Len(q) \/ i = Len(q) + 1
  BY Appended
<1>2. ASSUME NEW i \in 1..(Len(q) + 1), NEW k \in Nat \ {0}, Quiet(Append(q, e), k, i - 1)
      PROVE  Quiet(q, k, i - 1)
  BY <1>1, <1>2 DEF Quiet
<1> SUFFICES ASSUME NEW i \in 1..Len(Append(q, e)), Append(q, e)[i].kind = "token"
             PROVE  /\ Append(q, e)[i].label = Append(q, e)[i].uid
                    /\ Quiet(Append(q, e), 1, i - 1) => Append(q, e)[i].uid = user
                    /\ \A k \in 1..(i - 1) :
                          Append(q, e)[k].kind = "changed" /\ Quiet(Append(q, e), k + 1, i - 1)
                             => Append(q, e)[i].uid = Append(q, e)[k].uid
  BY DEF TokensInStep
<1>3. /\ i \in 1..(Len(q) + 1)
      /\ Quiet(Append(q, e), 1, i - 1) => Quiet(q, 1, i - 1)
      /\ \A k \in 1..(i - 1) : /\ Append(q, e)[k] = q[k]
                               /\ Quiet(Append(q, e), k + 1, i - 1) => Quiet(q, k + 1, i - 1)
  BY <1>1, <1>2
<1>4. CASE i \in 1..Len(q)
  BY <1>1, <1>3, <1>4 DEF TokensInStep
<1>5. CASE i = Len(q) + 1
  <2>1. i - 1 = Len(q) /\ Append(q, e)[i] = e
    BY <1>1, <1>5
  <2> QED
    BY <1>3, <2>1 DEF EndsWith
<1> QED
  BY <1>1, <1>4, <1>5

\* A notification is taken from the main queue: what was asked for before it is stale
\* from now on.
LEMMA InvAuthStateDidChange ==
  ASSUME CredentialInv, AuthStateDidChange
  PROVE  CredentialInv'
<1> DEFINE n == stream.close_count
<1>1. PICK e : e = [kind |-> "changed", uid |-> Head(main).uid]
  OBVIOUS
<1>2. /\ main # <<>> /\ Head(main).kind = "changed" /\ main' = Tail(main)
      /\ contents' = [current_user |-> Head(main).uid,
                      token_counter |-> contents.token_counter + 1]
      /\ worker' = Append(worker, e)
      /\ UNCHANGED <<users, currentUser, lastNotified, asked, tasks, refreshing,
                     force_refresh, sync_user, stream>>
  BY <1>1 DEF AuthStateDidChange, auth, firestore
<1>3. /\ main \in Seq(Changes \cup Answers) /\ worker \in Seq(Changes \cup Credentials)
      /\ contents \in [current_user : Users, token_counter : Nat] /\ sync_user \in Users
      /\ InStep(main, tasks, contents, users, currentUser)
      /\ EndsWith(worker, sync_user, contents.current_user)
      /\ TokensInStep(worker, sync_user)
  BY DEF CredentialInv, CredentialTypes
<1>4. /\ Tail(main) \in Seq(Changes \cup Answers) /\ Len(Tail(main)) = Len(main) - 1
      /\ Len(main) \in Nat \ {0} /\ Head(main) \in Changes \cup Answers
      /\ \A k \in 1..Len(Tail(main)) : Tail(main)[k] = main[k + 1] /\ k + 1 \in 1..Len(main)
  BY <1>2, <1>3, Taken
<1>5. Head(main).uid \in Users
  BY <1>4 DEF Changes, Answers
<1>6. /\ contents' \in [current_user : Users, token_counter : Nat]
      /\ contents'.current_user = Head(main).uid
      /\ contents'.token_counter = contents.token_counter + 1
  BY <1>2, <1>3, <1>5
<1>7. e \in Changes /\ e.kind = "changed" /\ e.uid = Head(main).uid
      /\ e \in Changes \cup Credentials
  BY <1>1, <1>5 DEF Changes
<1>8. /\ worker' \in Seq(Changes \cup Credentials) /\ Len(worker') = Len(worker) + 1
      /\ worker'[Len(worker) + 1] = e /\ Len(worker) \in Nat
      /\ \A i \in 1..Len(worker) : worker'[i] = worker[i]
      /\ \A i \in 1..Len(worker') : i \in 1..Len(worker) \/ i = Len(worker) + 1
  BY <1>2, <1>3, <1>7, Appended
<1>9. /\ \A r \in asked : r \in Requests /\ Behind(r, contents, stream)
      /\ \A t \in tasks : t.request.counter \in Int /\ Behind(t.request, contents, stream)
      /\ \A i \in 1..Len(main) : main[i].kind # "changed" =>
            main[i].request.counter \in Nat /\ Behind(main[i].request, contents, stream)
  <2>1. AutoRefresh.counter \in Int /\ \A r \in Requests : r.counter \in Int
    BY DEF AutoRefresh, Requests
  <2>2. \A t \in tasks : t.request \in Requests \cup {AutoRefresh}
    BY DEF CredentialInv, CredentialTypes
  <2>3. ASSUME NEW i \in 1..Len(main), main[i].kind # "changed"
        PROVE  main[i].request.counter \in Nat
    <3>1. main[i] \in Changes \cup Answers
      BY <1>3
    <3>2. main[i] \in Answers
      BY <2>3, <3>1 DEF Changes
    <3> QED
      BY <3>2 DEF Answers, Requests
  <2> QED
    BY <2>1, <2>2, <2>3 DEF CredentialInv, CredentialTypes, RequestsBehind, AnswersBehind
<1>10. InStep(main', tasks', contents', users', currentUser')
  <2>1. EndsWith(Tail(main), Head(main).uid, Uid(users, currentUser))
    BY <1>2, <1>3, ChangeTaken DEF InStep
  <2>2. ASSUME NEW i \in 1..Len(Tail(main)), Tail(main)[i].kind = "token"
        PROVE  Tail(main)[i].request.counter # contents.token_counter + 1
    BY <1>3, <1>4, <1>9, <2>2 DEF Behind
  <2>3. \A t \in tasks : t.request.counter # contents.token_counter + 1
    BY <1>3, <1>9 DEF Behind
  <2> QED
    BY <1>2, <1>6, <2>1, <2>2, <2>3 DEF InStep, AnswersFresh, TasksFresh
<1>11. EndsWith(worker', sync_user', contents'.current_user)
  BY <1>2, <1>3, <1>6, <1>7, ChangeAppended
<1>12. TokensInStep(worker', sync_user')
  BY <1>2, <1>3, <1>7, TokenAppended
<1>13. RequestsBehind'
  <2>1. \A r \in asked : r.counter \in Nat
    BY <1>9 DEF Requests
  <2>2. (\A r \in asked : Behind(r, contents, stream))'
    BY <1>2, <1>3, <1>6, <1>9, <2>1 DEF Behind
  <2>3. (\A t \in tasks : Behind(t.request, contents, stream))'
    BY <1>2, <1>3, <1>6, <1>9 DEF Behind
  <2>4. AnswersBehind(main, contents, stream)'
    BY <1>2, <1>3, <1>4, <1>6, <1>9 DEF Behind, AnswersBehind
  <2>5. (\A i \in 1..Len(worker) :
           worker[i].kind # "changed" => worker[i].close <= stream.close_count)'
    BY <1>2, <1>7, <1>8 DEF CredentialInv, RequestsBehind
  <2> QED
    BY <2>2, <2>3, <2>4, <2>5 DEF RequestsBehind
<1>14. OneRequest'
  <2>1. OneIn(AskedFor(asked, n), TasksFor(tasks, n), MainFor(main, n), WorkerFor(worker, n),
              stream.state)
    BY DEF CredentialInv, OneRequest
  <2>2. WorkerFor(worker', n) = WorkerFor(worker, n)
    BY <1>2, <1>3, <1>7, WorkerForAppended
  <2>3. /\ MainFor(main, n) = {} => MainFor(main', n) = {}
        /\ One(MainFor(main, n)) => One(MainFor(main', n))
    BY <1>2, <1>3, MainForTaken
  <2> QED
    BY <1>2, <2>1, <2>2, <2>3 DEF OneRequest, OneIn
<1>15. CredentialTypes' /\ NotifiedIsCurrent' /\ StreamIsOwn'
  BY <1>2, <1>4, <1>6, <1>8 DEF CredentialInv, CredentialTypes, NotifiedIsCurrent, StreamIsOwn
<1> QED
  BY <1>10, <1>11, <1>12, <1>13, <1>14, <1>15 DEF CredentialInv

\* An answer is passed on, labelled, if it is fresh, and asked for again if it is not.
LEMMA InvGetTokenCallback ==
  ASSUME CredentialInv, GetTokenCallback
  PROVE  CredentialInv'
<1> DEFINE n == stream.close_count
           b == Head(main)
<1>1. /\ main # <<>> /\ b.kind # "changed" /\ main' = Tail(main)
      /\ UNCHANGED <<users, currentUser, lastNotified, tasks, refreshing, contents,
                     sync_user, stream>>
  BY DEF GetTokenCallback, auth, firestore
<1>2. /\ main \in Seq(Changes \cup Answers) /\ worker \in Seq(Changes \cup Credentials)
      /\ contents \in [current_user : Users, token_counter : Nat] /\ sync_user \in Users
      /\ InStep(main, tasks, contents, users, currentUser)
      /\ EndsWith(worker, sync_user, contents.current_user)
      /\ TokensInStep(worker, sync_user) /\ n \in Nat
      /\ AnswersBehind(main, contents, stream)
  BY DEF CredentialInv, CredentialTypes, RequestsBehind
<1>3. /\ Tail(main) \in Seq(Changes \cup Answers) /\ Len(Tail(main)) = Len(main) - 1
      /\ Len(main) \in Nat \ {0} /\ b = main[1] /\ b \in Changes \cup Answers
      /\ \A k \in 1..Len(Tail(main)) : Tail(main)[k] = main[k + 1] /\ k + 1 \in 1..Len(main)
  BY <1>1, <1>2, Taken
<1>4. /\ b \in Answers /\ b.request \in Requests /\ b.uid \in Users
      /\ b.kind \in {"token", "error"} /\ b.request.close \in Nat
  <2>1. b \in Answers
    BY <1>1, <1>3 DEF Changes
  <2> QED
    BY <2>1 DEF Answers, Requests
<1>5. Behind(b.request, contents, stream)
  BY <1>1, <1>2, <1>3 DEF AnswersBehind
<1>6. InStep(main', tasks', contents', users', currentUser')
  BY <1>1, <1>2, AnswerTaken
<1>7. AnswersBehind(main', contents', stream')
  BY <1>1, <1>2, <1>3 DEF AnswersBehind
<1>8. OneIn(AskedFor(asked, n), TasksFor(tasks, n), MainFor(main, n), WorkerFor(worker, n),
            stream.state)
  BY DEF CredentialInv, OneRequest
<1>9. /\ b.request.close # n => /\ MainFor(main, n) = {} => MainFor(main', n) = {}
                                /\ One(MainFor(main, n)) => One(MainFor(main', n))
      /\ b.request.close = n => /\ stream.state = "Starting" /\ MainFor(main', n) = {}
                                /\ AskedFor(asked, n) = {} /\ TasksFor(tasks, n) = {}
                                /\ WorkerFor(worker, n) = {}
  <2>1. CASE b.request.close # n
    BY <1>1, <1>2, <2>1, MainForTaken
  <2>2. CASE b.request.close = n
    <3>1. 1 \in MainFor(main, n) /\ (MainFor(main, n) = {1} => MainFor(main', n) = {})
      BY <1>1, <1>2, <2>2, MainForTaken
    <3> QED
      BY <1>8, <2>2, <3>1, Only
  <2> QED
    BY <2>1, <2>2
<1>10. CASE Unchanged(b.request)
  <2>1. PICK e : e = [kind |-> b.kind, uid |-> b.uid,
                      label |-> IF b.kind = "error" \/ b.uid = Nobody THEN Nobody
                                ELSE contents.current_user,
                      close |-> b.request.close]
    OBVIOUS
  <2>2. worker' = Append(worker, e) /\ UNCHANGED <<asked, force_refresh>>
    BY <1>10, <2>1 DEF GetTokenCallback
  <2>3. (IF b.kind = "error" \/ b.uid = Nobody THEN Nobody ELSE contents.current_user) \in Users
    BY <1>2 DEF Users
  <2>4. /\ e \in Credentials /\ e \in Changes \cup Credentials /\ e.kind # "changed"
        /\ e.close = b.request.close /\ e.kind = b.kind /\ e.uid = b.uid
    BY <1>4, <2>1, <2>3 DEF Credentials
  <2>5. b.kind = "token" => b.uid = contents.current_user
    <3>1. Quiet(main, 1, 1 - 1) /\ 1 \in 1..Len(main)
      BY <1>3 DEF Quiet
    <3> QED
      BY <1>2, <1>3, <1>10, <3>1 DEF InStep, AnswersFresh, Unchanged
  <2>6. e.kind = "token" => e.label = e.uid /\ e.uid = contents.current_user
    BY <2>1, <2>4, <2>5
  <2>7. /\ worker' \in Seq(Changes \cup Credentials) /\ Len(worker') = Len(worker) + 1
        /\ worker'[Len(worker) + 1] = e /\ Len(worker) \in Nat
        /\ \A i \in 1..Len(worker) : worker'[i] = worker[i]
        /\ \A i \in 1..Len(worker') : i \in 1..Len(worker) \/ i = Len(worker) + 1
    BY <1>2, <2>2, <2>4, Appended
  <2>8. EndsWith(worker', sync_user', contents'.current_user)
    BY <1>1, <1>2, <2>2, <2>4, OtherAppended
  <2>9. TokensInStep(worker', sync_user')
    BY <1>1, <1>2, <2>2, <2>4, <2>6, TokenAppended
  <2>10. RequestsBehind'
    BY <1>1, <1>5, <1>7, <2>2, <2>4, <2>7 DEF CredentialInv, RequestsBehind, Behind
  <2>11. OneRequest'
    <3>1. IF e.close = n THEN WorkerFor(worker, n) = {} => One(WorkerFor(worker', n))
          ELSE WorkerFor(worker', n) = WorkerFor(worker, n)
      BY <1>2, <2>2, <2>4, WorkerForAppended
    <3>2. CASE b.request.close = n
      BY <1>1, <1>9, <2>2, <2>4, <3>1, <3>2 DEF OneRequest, OneIn
    <3>3. CASE b.request.close # n
      BY <1>1, <1>8, <1>9, <2>2, <2>4, <3>1, <3>3 DEF OneRequest, OneIn
    <3> QED
      BY <3>2, <3>3
  <2>12. CredentialTypes' /\ NotifiedIsCurrent' /\ StreamIsOwn'
    BY <1>1, <1>3, <2>2, <2>7 DEF CredentialInv, CredentialTypes, NotifiedIsCurrent, StreamIsOwn
  <2> QED
    BY <1>6, <2>8, <2>9, <2>10, <2>11, <2>12 DEF CredentialInv
<1>11. CASE ~Unchanged(b.request)
  <2>1. PICK r : r = Request(b.request.close)
    OBVIOUS
  <2>2. asked' = asked \cup {r} /\ force_refresh' = FALSE /\ worker' = worker
    BY <1>11, <2>1 DEF GetTokenCallback, Retry
  <2>3. /\ r \in Requests /\ r.close = b.request.close
        /\ r.counter = contents.token_counter
    BY <1>2, <1>4, <2>1 DEF Request, Requests, CredentialInv, CredentialTypes
  <2>4. Behind(r, contents, stream)
    BY <1>2, <1>5, <2>3 DEF Behind
  <2>5. RequestsBehind'
    BY <1>1, <1>7, <2>2, <2>4 DEF CredentialInv, RequestsBehind
  <2>6. OneRequest'
    <3>1. CASE b.request.close = n
      <4>1. AskedFor(asked', n) = {r}
        BY <1>9, <2>2, <2>3, <3>1 DEF AskedFor
      <4>2. One(AskedFor(asked', n))
        BY <4>1, OneAlone
      <4> QED
        BY <1>1, <1>9, <2>2, <3>1, <4>2 DEF OneRequest, OneIn
    <3>2. CASE b.request.close # n
      <4>1. AskedFor(asked', n) = AskedFor(asked, n)
        BY <2>2, <2>3, <3>2 DEF AskedFor
      <4> QED
        BY <1>1, <1>8, <1>9, <2>2, <3>2, <4>1 DEF OneRequest, OneIn
    <3> QED
      BY <3>1, <3>2
  <2>7. CredentialTypes' /\ NotifiedIsCurrent' /\ StreamIsOwn'
    BY <1>1, <1>3, <2>2, <2>3 DEF CredentialInv, CredentialTypes, NotifiedIsCurrent, StreamIsOwn
  <2>8. EndsWith(worker', sync_user', contents'.current_user) /\ TokensInStep(worker', sync_user')
    BY <1>1, <1>2, <2>2
  <2> QED
    BY <1>6, <2>5, <2>6, <2>7, <2>8 DEF CredentialInv
<1> QED
  BY <1>10, <1>11

(***************************************************************************)
(* The worker queue                                                        *)
(***************************************************************************)
\* Tokens keep their place when the first entry is taken, and the user is changed if
\* that is a change.
LEMMA TokensTaken ==
  ASSUME NEW S, NEW q \in Seq(S), NEW user, q # <<>>, TokensInStep(q, user)
  PROVE  /\ Head(q).kind = "changed" => TokensInStep(Tail(q), Head(q).uid)
         /\ Head(q).kind # "changed" => TokensInStep(Tail(q), user)
         /\ Head(q).kind = "token" => Head(q).uid = user
<1>1. /\ Len(Tail(q)) = Len(q) - 1 /\ Len(q) \in Nat \ {0} /\ Head(q) = q[1]
      /\ \A k \in 1..Len(Tail(q)) : Tail(q)[k] = q[k + 1] /\ k + 1 \in 1..Len(q)
  BY Taken
<1>2. Head(q).kind = "token" => Head(q).uid = user
  <2>1. Quiet(q, 1, 1 - 1) /\ 1 \in 1..Len(q)
    BY <1>1 DEF Quiet
  <2> QED
    BY <1>1, <2>1 DEF TokensInStep
<1>3. ASSUME NEW u, u = IF Head(q).kind = "changed" THEN Head(q).uid ELSE user,
             NEW i \in 1..Len(Tail(q)), Tail(q)[i].kind = "token"
      PROVE  /\ Tail(q)[i].label = Tail(q)[i].uid
             /\ Quiet(Tail(q), 1, i - 1) => Tail(q)[i].uid = u
             /\ \A k \in 1..(i - 1) : Tail(q)[k].kind = "changed" /\ Quiet(Tail(q), k + 1, i - 1)
                                         => Tail(q)[i].uid = Tail(q)[k].uid
  <2>1. /\ i - 1 \in 0..Len(Tail(q)) /\ (i - 1) + 1 = i /\ (i + 1) - 1 = i
        /\ Tail(q)[i] = q[i + 1] /\ i + 1 \in 1..Len(q) /\ 1 \in 1..i
    BY <1>1
  <2>2. /\ q[i + 1].label = q[i + 1].uid
        /\ Quiet(q, 1, i) => q[i + 1].uid = user
        /\ \A k \in 1..i : q[k].kind = "changed" /\ Quiet(q, k + 1, i) => q[i + 1].uid = q[k].uid
    BY <1>3, <2>1 DEF TokensInStep
  <2>3. ASSUME NEW k \in 1..(i - 1), Tail(q)[k].kind = "changed", Quiet(Tail(q), k + 1, i - 1)
        PROVE  Tail(q)[i].uid = Tail(q)[k].uid
    <3>1. k + 1 \in Nat \ {0} /\ k + 1 \in 1..i /\ Tail(q)[k] = q[k + 1]
      BY <1>1, <2>1
    <3>2. Quiet(q, (k + 1) + 1, i)
      BY <2>1, <2>3, <3>1, QuietTaken
    <3> QED
      BY <2>1, <2>2, <2>3, <3>1, <3>2
  <2>4. ASSUME Quiet(Tail(q), 1, i - 1) PROVE Tail(q)[i].uid = u
    <3>1. Quiet(q, 1 + 1, i) /\ (Head(q).kind # "changed" => Quiet(q, 1, i))
      BY <2>1, <2>4, QuietTaken
    <3> QED
      BY <1>1, <1>3, <2>1, <2>2, <3>1
  <2> QED
    BY <2>1, <2>2, <2>3, <2>4
<1> QED
  BY <1>2, <1>3 DEF TokensInStep

\* No request is for a stream that will be closed once more.
LEMMA NoneAhead ==
  ASSUME CredentialInv, NEW m, m = stream.close_count + 1
  PROVE  /\ AskedFor(asked, m) = {} /\ TasksFor(tasks, m) = {} /\ MainFor(main, m) = {}
         /\ WorkerFor(worker, m) = {} /\ m \in Nat
<1>1. stream.close_count \in Nat /\ main \in Seq(Changes \cup Answers)
      /\ worker \in Seq(Changes \cup Credentials)
  BY DEF CredentialInv, CredentialTypes
<1>2. \A r \in asked : r.close # m
  <2>1. \A r \in asked : r.close \in Nat /\ r.close <= stream.close_count
    BY DEF CredentialInv, CredentialTypes, Requests, RequestsBehind, Behind
  <2> QED
    BY <1>1, <2>1
<1>3. \A t \in tasks : t.request.close # m
  <2>1. \A t \in tasks : t.request \in Requests \cup {AutoRefresh}
    BY DEF CredentialInv, CredentialTypes
  <2>2. AutoRefresh.close = -1 /\ \A r \in Requests : r.close \in Nat
    BY DEF AutoRefresh, Requests
  <2>3. \A t \in tasks : t.request.close <= stream.close_count
    BY DEF CredentialInv, RequestsBehind, Behind
  <2> QED
    BY <1>1, <2>1, <2>2, <2>3
<1>4. \A i \in 1..Len(main) : main[i].kind # "changed" => main[i].request.close # m
  <2> SUFFICES ASSUME NEW i \in 1..Len(main), main[i].kind # "changed"
               PROVE  main[i].request.close # m
    OBVIOUS
  <2>1. main[i] \in Changes \cup Answers
    BY <1>1
  <2>2. main[i].request.close \in Nat
    BY <2>1 DEF Changes, Answers, Requests
  <2>3. main[i].request.close <= stream.close_count
    BY DEF CredentialInv, RequestsBehind, AnswersBehind, Behind
  <2> QED
    BY <1>1, <2>2, <2>3
<1>5. \A i \in 1..Len(worker) : worker[i].kind # "changed" => worker[i].close # m
  <2> SUFFICES ASSUME NEW i \in 1..Len(worker), worker[i].kind # "changed"
               PROVE  worker[i].close # m
    OBVIOUS
  <2>1. worker[i] \in Changes \cup Credentials
    BY <1>1
  <2>2. worker[i].close \in Nat
    BY <2>1 DEF Changes, Credentials
  <2>3. worker[i].close <= stream.close_count
    BY DEF CredentialInv, RequestsBehind
  <2> QED
    BY <1>1, <2>2, <2>3
<1> QED
  BY <1>1, <1>2, <1>3, <1>4, <1>5 DEF AskedFor, TasksFor, MainFor, WorkerFor

\* The stream is closed for good: no request on its way is for what comes after.
LEMMA StreamCloses ==
  ASSUME CredentialInv, NEW state \in {"Starting", "Backoff"},
         stream' = [state |-> state, close_count |-> stream.close_count + 1, uid |-> Nobody],
         \/ state = "Backoff" /\ asked' = asked
         \/ state = "Starting" /\ asked' = asked \cup {Request(stream.close_count + 1)},
         force_refresh' \in BOOLEAN,
         \/ worker' = worker /\ sync_user' = sync_user
         \/ /\ worker # <<>> /\ worker' = Tail(worker)
            /\ sync_user' = IF Head(worker).kind = "changed" THEN Head(worker).uid ELSE sync_user,
         UNCHANGED <<auth, tasks, refreshing, main, contents>>
  PROVE  CredentialInv'
<1> DEFINE m == stream.close_count + 1
<1>1. UNCHANGED <<users, currentUser, lastNotified>>
  BY DEF auth
<1>2. /\ main \in Seq(Changes \cup Answers) /\ worker \in Seq(Changes \cup Credentials)
      /\ contents \in [current_user : Users, token_counter : Nat] /\ sync_user \in Users
      /\ EndsWith(worker, sync_user, contents.current_user)
      /\ TokensInStep(worker, sync_user) /\ stream.close_count \in Nat
      /\ force_refresh \in BOOLEAN
  BY DEF CredentialInv, CredentialTypes
<1>3. /\ AskedFor(asked, m) = {} /\ TasksFor(tasks, m) = {} /\ MainFor(main, m) = {}
      /\ WorkerFor(worker, m) = {} /\ m \in Nat
  BY NoneAhead
<1>4. /\ stream' \in [state : States, close_count : Nat, uid : Users]
      /\ stream'.close_count = m /\ stream'.state = state
  BY <1>3 DEF States, Users
<1>5. /\ worker' \in Seq(Changes \cup Credentials) /\ sync_user' \in Users
      /\ EndsWith(worker', sync_user', contents.current_user)
      /\ TokensInStep(worker', sync_user') /\ WorkerFor(worker', m) = {}
      /\ \A i \in 1..Len(worker') : worker'[i].kind # "changed" =>
            worker'[i].close <= stream.close_count /\ worker'[i].close \in Nat
  <2>1. \A i \in 1..Len(worker) : worker[i].kind # "changed" =>
            worker[i].close <= stream.close_count /\ worker[i].close \in Nat
    <3> SUFFICES ASSUME NEW i \in 1..Len(worker), worker[i].kind # "changed"
                 PROVE  worker[i].close <= stream.close_count /\ worker[i].close \in Nat
      OBVIOUS
    <3>1. worker[i] \in Changes \cup Credentials
      BY <1>2
    <3> QED
      BY <3>1 DEF Changes, Credentials, CredentialInv, RequestsBehind
  <2>2. CASE worker' = worker /\ sync_user' = sync_user
    BY <1>2, <1>3, <2>1, <2>2
  <2>3. CASE /\ worker # <<>> /\ worker' = Tail(worker)
             /\ sync_user' = IF Head(worker).kind = "changed" THEN Head(worker).uid ELSE sync_user
    <3>1. /\ Tail(worker) \in Seq(Changes \cup Credentials)
          /\ Head(worker) \in Changes \cup Credentials /\ Len(worker) \in Nat
          /\ \A k \in 1..Len(Tail(worker)) : Tail(worker)[k] = worker[k + 1]
                                             /\ k + 1 \in 1..Len(worker)
      BY <1>2, <2>3, Taken
    <3>2. Head(worker).uid \in Users
      BY <3>1 DEF Changes, Credentials
    <3>3. EndsWith(Tail(worker), sync_user', contents.current_user)
      BY <1>2, <2>3, ChangeTaken
    <3>4. TokensInStep(Tail(worker), sync_user')
      BY <1>2, <2>3, TokensTaken
    <3>5. WorkerFor(Tail(worker), m) = {}
      <4>1. Head(worker).kind = "changed" \/ Head(worker).close # m
        BY <1>2, <1>3, <2>3, WorkerForTaken
      <4> QED
        BY <1>2, <1>3, <2>3, <4>1, WorkerForTaken
    <3> QED
      BY <1>2, <2>1, <2>3, <3>1, <3>2, <3>3, <3>4, <3>5
  <2> QED
    BY <2>2, <2>3
<1>6. PICK r : r = Request(m)
  OBVIOUS
<1>7. r \in Requests /\ r.close = m /\ r.counter = contents.token_counter
  BY <1>2, <1>3, <1>6 DEF Request, Requests
<1>8. asked' \subseteq Requests
  BY <1>6, <1>7 DEF CredentialInv, CredentialTypes
<1>9. CredentialTypes' /\ NotifiedIsCurrent'
  BY <1>1, <1>2, <1>4, <1>5, <1>8 DEF CredentialInv, CredentialTypes, NotifiedIsCurrent
<1>10. InStep(main', tasks', contents', users', currentUser')
  BY <1>1 DEF CredentialInv
<1>11. RequestsBehind'
  <2>1. ASSUME NEW x, x.close \in Int, Behind(x, contents, stream)
        PROVE  Behind(x, contents', stream')
    BY <1>2, <1>4, <2>1 DEF Behind
  <2>2. \A x \in Requests : x.close \in Int
    BY DEF Requests
  <2>3. \A x \in asked' : Behind(x, contents', stream')
    <3>1. Behind(r, contents', stream')
      BY <1>2, <1>4, <1>7 DEF Behind
    <3>2. \A x \in asked : Behind(x, contents', stream')
      BY <2>1, <2>2 DEF CredentialInv, CredentialTypes, RequestsBehind
    <3> QED
      BY <1>6, <3>1, <3>2
  <2>4. \A t \in tasks' : Behind(t.request, contents', stream')
    <3>1. AutoRefresh.close \in Int
      BY DEF AutoRefresh
    <3>2. \A t \in tasks : t.request \in Requests \cup {AutoRefresh}
      BY DEF CredentialInv, CredentialTypes
    <3> QED
      BY <2>1, <2>2, <3>1, <3>2 DEF CredentialInv, RequestsBehind
  <2>5. AnswersBehind(main', contents', stream')
    <3> SUFFICES ASSUME NEW i \in 1..Len(main), main[i].kind # "changed"
                 PROVE  Behind(main[i].request, contents', stream')
      BY DEF AnswersBehind
    <3>1. main[i] \in Changes \cup Answers
      BY <1>2
    <3>2. main[i].request.close \in Int
      BY <3>1 DEF Changes, Answers, Requests
    <3> QED
      BY <2>1, <3>2 DEF CredentialInv, RequestsBehind, AnswersBehind
  <2>6. \A i \in 1..Len(worker') :
           worker'[i].kind # "changed" => worker'[i].close <= stream'.close_count
    BY <1>2, <1>4, <1>5
  <2> QED
    BY <2>3, <2>4, <2>5, <2>6 DEF RequestsBehind
<1>12. OneRequest'
  <2>1. CASE state = "Backoff" /\ asked' = asked
    BY <1>3, <1>4, <1>5, <2>1 DEF OneRequest, OneIn
  <2>2. CASE state = "Starting" /\ asked' = asked \cup {Request(stream.close_count + 1)}
    <3>1. AskedFor(asked', m) = {r}
      BY <1>3, <1>6, <1>7, <2>2 DEF AskedFor
    <3>2. One(AskedFor(asked', m))
      BY <3>1, OneAlone
    <3> QED
      BY <1>3, <1>4, <1>5, <2>2, <3>2 DEF OneRequest, OneIn
  <2> QED
    BY <2>1, <2>2
<1>13. StreamIsOwn'
  BY <1>4 DEF StreamIsOwn
<1> QED
  BY <1>5, <1>9, <1>10, <1>11, <1>12, <1>13 DEF CredentialInv

\* What Close leaves of the stream, and Start makes of that.
LEMMA ClosedIs ==
  ASSUME CredentialInv, NEW state
  PROVE  /\ Closed(state) = [state |-> state, close_count |-> stream.close_count + 1,
                             uid |-> Nobody]
         /\ [Closed(state) EXCEPT !.state = "Starting"] =
               [state |-> "Starting", close_count |-> stream.close_count + 1, uid |-> Nobody]
         /\ Closed(state).close_count = stream.close_count + 1
<1>1. stream \in [state : States, close_count : Nat, uid : Users]
  BY DEF CredentialInv, CredentialTypes
<1> DEFINE c == [state |-> state, close_count |-> stream.close_count + 1, uid |-> Nobody]
           d == [stream EXCEPT !.close_count = @ + 1, !.uid = Nobody, !.state = state]
<1>2. /\ DOMAIN d = {"state", "close_count", "uid"} /\ d = [x \in DOMAIN d |-> d[x]]
      /\ d["state"] = state /\ d["close_count"] = stream.close_count + 1 /\ d["uid"] = Nobody
  BY <1>1
<1> HIDE DEF d
<1>3. d = c
  BY <1>2
<1>4. Closed(state) = c
  BY <1>3 DEF Closed, d
<1>5. [c EXCEPT !.state = "Starting"] =
         [state |-> "Starting", close_count |-> stream.close_count + 1, uid |-> Nobody]
  OBVIOUS
<1>6. c.close_count = stream.close_count + 1
  OBVIOUS
<1> QED
  BY <1>4, <1>5, <1>6

\* RestartNetwork starts the stream again, with a request of its own.
LEMMA Restarted ==
  ASSUME CredentialInv, RestartStream
  PROVE  /\ stream' = [state |-> "Starting", close_count |-> stream.close_count + 1,
                       uid |-> Nobody]
         /\ asked' = asked \cup {Request(stream.close_count + 1)}
         /\ force_refresh' = FALSE
  BY ClosedIs DEF RestartStream, StartFrom

\* The sync engine changes user, and its streams are restarted.
LEMMA InvHandleCredentialChange ==
  ASSUME CredentialInv, HandleCredentialChange
  PROVE  CredentialInv'
<1>1. /\ worker # <<>> /\ Head(worker).kind = "changed" /\ worker' = Tail(worker)
      /\ sync_user' = Head(worker).uid /\ RestartStream
      /\ UNCHANGED <<auth, tasks, refreshing, main, contents>>
  BY DEF HandleCredentialChange
<1>2. force_refresh' \in BOOLEAN
  BY <1>1, Restarted
<1> QED
  BY <1>1, <1>2, Restarted, StreamCloses

\* A token opens the stream that waits for it, an error closes it; others are ignored.
LEMMA InvResumeStart ==
  ASSUME CredentialInv, ResumeStart
  PROVE  CredentialInv'
<1> DEFINE n == stream.close_count
           b == Head(worker)
<1>1. /\ worker # <<>> /\ b.kind # "changed" /\ worker' = Tail(worker)
      /\ stream' = IF ~UpToDate(b.close) THEN stream
                   ELSE IF b.kind = "error" THEN Closed("Backoff")
                   ELSE [stream EXCEPT !.state = "Open", !.uid = b.uid]
      /\ UNCHANGED <<users, currentUser, lastNotified, asked, tasks, refreshing, main, contents,
                     force_refresh, sync_user>>
  BY DEF ResumeStart, auth, provider
<1>2. /\ worker \in Seq(Changes \cup Credentials) /\ sync_user \in Users
      /\ EndsWith(worker, sync_user, contents.current_user)
      /\ TokensInStep(worker, sync_user) /\ n \in Nat
      /\ stream \in [state : States, close_count : Nat, uid : Users]
      /\ force_refresh \in BOOLEAN
  BY DEF CredentialInv, CredentialTypes
<1>3. CASE UpToDate(b.close) /\ b.kind = "error"
  <2>1. stream' = [state |-> "Backoff", close_count |-> stream.close_count + 1, uid |-> Nobody]
    BY <1>1, <1>3, ClosedIs
  <2>2. force_refresh' \in BOOLEAN /\ UNCHANGED auth
    BY <1>1, <1>2 DEF auth
  <2> QED
    BY <1>1, <2>1, <2>2, StreamCloses
<1>4. CASE ~(UpToDate(b.close) /\ b.kind = "error")
  <2>1. /\ Tail(worker) \in Seq(Changes \cup Credentials) /\ b \in Changes \cup Credentials
        /\ \A k \in 1..Len(Tail(worker)) : Tail(worker)[k] = worker[k + 1]
                                           /\ k + 1 \in 1..Len(worker)
    BY <1>1, <1>2, Taken
  <2>2. b \in Credentials /\ b.uid \in Users /\ b.kind \in {"token", "error"}
    <3>1. b \in Credentials
      BY <1>1, <2>1 DEF Changes
    <3> QED
      BY <3>1 DEF Credentials
  <2>3. /\ EndsWith(worker', sync_user', contents'.current_user)
        /\ TokensInStep(worker', sync_user') /\ (b.kind = "token" => b.uid = sync_user)
    BY <1>1, <1>2, ChangeTaken, TokensTaken
  <2>4. /\ stream' \in [state : States, close_count : Nat, uid : Users]
        /\ stream'.close_count = n
        /\ IF UpToDate(b.close) THEN stream'.state = "Open" /\ stream'.uid = b.uid
           ELSE stream' = stream
    BY <1>1, <1>2, <1>4, <2>2 DEF States
  <2>5. CredentialTypes' /\ NotifiedIsCurrent'
    BY <1>1, <2>1, <2>4 DEF CredentialInv, CredentialTypes, NotifiedIsCurrent
  <2>6. InStep(main', tasks', contents', users', currentUser')
    BY <1>1 DEF CredentialInv
  <2>7. RequestsBehind'
    BY <1>1, <2>1, <2>4 DEF CredentialInv, RequestsBehind, AnswersBehind, Behind
  <2>8. OneIn(AskedFor(asked, n), TasksFor(tasks, n), MainFor(main, n), WorkerFor(worker, n),
              stream.state)
    BY DEF CredentialInv, OneRequest
  <2>9. CASE UpToDate(b.close)
    <3>1. 1 \in WorkerFor(worker, n) /\ (WorkerFor(worker, n) = {1} => WorkerFor(worker', n) = {})
      BY <1>1, <1>2, <2>9, WorkerForTaken DEF UpToDate
    <3>2. /\ WorkerFor(worker', n) = {} /\ AskedFor(asked, n) = {} /\ TasksFor(tasks, n) = {}
          /\ MainFor(main, n) = {}
      BY <2>8, <3>1, Only
    <3>3. OneRequest'
      BY <1>1, <2>4, <2>9, <3>2 DEF OneRequest, OneIn
    <3>4. StreamIsOwn'
      BY <1>1, <1>4, <2>2, <2>3, <2>4, <2>9 DEF StreamIsOwn
    <3> QED
      BY <2>3, <2>5, <2>6, <2>7, <3>3, <3>4 DEF CredentialInv
  <2>10. CASE ~UpToDate(b.close)
    <3>1. /\ WorkerFor(worker, n) = {} => WorkerFor(worker', n) = {}
          /\ One(WorkerFor(worker, n)) => One(WorkerFor(worker', n))
      BY <1>1, <1>2, <2>10, WorkerForTaken DEF UpToDate
    <3>2. OneRequest'
      BY <1>1, <2>4, <2>8, <2>10, <3>1 DEF OneRequest, OneIn
    <3>3. StreamIsOwn'
      BY <1>1, <2>4, <2>10 DEF CredentialInv, StreamIsOwn
    <3> QED
      BY <2>3, <2>5, <2>6, <2>7, <3>2, <3>3 DEF CredentialInv
  <2> QED
    BY <2>9, <2>10
<1> QED
  BY <1>3, <1>4

\* The stream is started again after its backoff, during which nothing waits for it.
LEMMA InvBackoffElapsed ==
  ASSUME CredentialInv, BackoffElapsed
  PROVE  CredentialInv'
<1> DEFINE n == stream.close_count
<1>1. PICK r : r = Request(stream.close_count)
  OBVIOUS
<1>2. /\ stream.state = "Backoff" /\ stream' = [stream EXCEPT !.state = "Starting"]
      /\ asked' = asked \cup {r} /\ force_refresh' = FALSE
      /\ UNCHANGED <<users, currentUser, lastNotified, tasks, refreshing, main, contents, worker,
                     sync_user>>
  BY <1>1 DEF BackoffElapsed, StartFrom, auth
<1>3. /\ stream \in [state : States, close_count : Nat, uid : Users]
      /\ contents.token_counter \in Nat /\ force_refresh \in BOOLEAN
  BY DEF CredentialInv, CredentialTypes
<1>4. /\ stream' \in [state : States, close_count : Nat, uid : Users]
      /\ stream'.close_count = n /\ stream'.state = "Starting"
  BY <1>2, <1>3 DEF States
<1>5. /\ r \in Requests /\ r.close = n /\ Behind(r, contents, stream)
  BY <1>1, <1>3 DEF Request, Requests, Behind
<1>6. CredentialTypes' /\ NotifiedIsCurrent'
  BY <1>2, <1>4, <1>5 DEF CredentialInv, CredentialTypes, NotifiedIsCurrent
<1>7. RequestsBehind'
  BY <1>2, <1>4, <1>5 DEF CredentialInv, RequestsBehind, AnswersBehind, Behind
<1>8. /\ AskedFor(asked, n) = {} /\ TasksFor(tasks, n) = {} /\ MainFor(main, n) = {}
      /\ WorkerFor(worker, n) = {}
  BY <1>2 DEF CredentialInv, OneRequest, OneIn
<1>9. AskedFor(asked', n) = {r}
  BY <1>2, <1>5, <1>8 DEF AskedFor
<1>10. One(AskedFor(asked', n))
  BY <1>9, OneAlone
<1>11. OneRequest'
  BY <1>2, <1>4, <1>8, <1>10 DEF OneRequest, OneIn
<1>12. StreamIsOwn'
  BY <1>4 DEF StreamIsOwn
<1> QED
  BY <1>2, <1>6, <1>7, <1>11, <1>12 DEF CredentialInv

\* The connection ends.
LEMMA InvStreamFails ==
  ASSUME CredentialInv, NEW unauthenticated \in BOOLEAN, StreamFails(unauthenticated)
  PROVE  CredentialInv'
<1>1. /\ stream' = Closed("Backoff") /\ asked' = asked
      /\ UNCHANGED <<auth, tasks, refreshing, main, contents, worker, sync_user>>
  BY DEF StreamFails
<1>2. force_refresh' = (force_refresh \/ unauthenticated)
  BY DEF StreamFails
<1>3. force_refresh \in BOOLEAN
  BY DEF CredentialInv, CredentialTypes
<1>4. force_refresh' \in BOOLEAN
  BY <1>2, <1>3, Zenon
<1> QED
  BY <1>1, <1>4, ClosedIs, StreamCloses

\* The network comes or goes.
LEMMA InvConnectivityChanged ==
  ASSUME CredentialInv, ConnectivityChanged
  PROVE  CredentialInv'
<1>1. RestartStream /\ UNCHANGED <<auth, tasks, refreshing, main, contents, worker, sync_user>>
  BY DEF ConnectivityChanged
<1>2. force_refresh' \in BOOLEAN
  BY <1>1, Restarted
<1> QED
  BY <1>1, <1>2, Restarted, StreamCloses

(***************************************************************************)
(* The theorems                                                            *)
(***************************************************************************)
\* The first stream is starting, and waits for the one request there is.
LEMMA InvInit == Init => CredentialInv
<1> SUFFICES ASSUME Init PROVE CredentialInv
  OBVIOUS
<1>1. PICK r : r = Request(0)
  OBVIOUS
<1>2. /\ users = <<>> /\ currentUser = 0 /\ lastNotified = <<0, 0>>
      /\ contents = [current_user |-> Nobody, token_counter |-> 0]
      /\ force_refresh = FALSE
      /\ asked = {r} /\ tasks = {} /\ refreshing = {}
      /\ main = <<>> /\ worker = <<>> /\ sync_user = Nobody
      /\ stream = [state |-> "Starting", close_count |-> 0, uid |-> Nobody]
  BY <1>1 DEF Init
<1>3. /\ r \in Requests /\ r.close = 0 /\ r.counter = 0
      /\ contents.token_counter = 0 /\ stream.close_count = 0 /\ stream.state = "Starting"
  BY <1>1, <1>2 DEF Request, Requests
<1>4. CredentialTypes /\ NotifiedIsCurrent
  <2>1. /\ users \in Seq(UserObjects) /\ main \in Seq(Changes \cup Answers)
        /\ worker \in Seq(Changes \cup Credentials) /\ Len(users) = 0
    BY <1>2
  <2>2. /\ contents \in [current_user : Users, token_counter : Nat] /\ sync_user \in Users
        /\ stream \in [state : States, close_count : Nat, uid : Users]
    BY <1>2 DEF Users, States
  <2>3. lastNotified \in Nat \X Nat /\ lastNotified[1] = currentUser /\ currentUser \in 0..0
    BY <1>2
  <2> QED
    BY <1>2, <1>3, <2>1, <2>2, <2>3 DEF CredentialTypes, NotifiedIsCurrent
<1>5. InStep(main, tasks, contents, users, currentUser)
  BY <1>2 DEF InStep, EndsWith, AnswersFresh, TasksFresh, Uid
<1>6. EndsWith(worker, sync_user, contents.current_user) /\ TokensInStep(worker, sync_user)
  BY <1>2 DEF EndsWith, TokensInStep
<1>7. RequestsBehind /\ StreamIsOwn
  BY <1>2, <1>3 DEF RequestsBehind, AnswersBehind, Behind, StreamIsOwn
<1>8. /\ AskedFor(asked, 0) = {r} /\ TasksFor(tasks, 0) = {} /\ MainFor(main, 0) = {}
      /\ WorkerFor(worker, 0) = {}
  BY <1>2, <1>3 DEF AskedFor, TasksFor, MainFor, WorkerFor
<1>9. One(AskedFor(asked, 0))
  BY <1>8, OneAlone
<1>10. OneRequest
  BY <1>3, <1>8, <1>9 DEF OneRequest, OneIn
<1> QED
  BY <1>4, <1>5, <1>6, <1>7, <1>10 DEF CredentialInv

\* Every step on the three queues keeps the invariant.
LEMMA InvNext == CredentialInv /\ [Next]_vars => CredentialInv'
<1> SUFFICES ASSUME CredentialInv, [Next]_vars PROVE CredentialInv'
  OBVIOUS
<1>1. CASE \/ \E u \in Uids : SignIn(u)
           \/ SignOut \/ Expire \/ RefreshTimer \/ Auth
  BY <1>1, InvSignIn, InvSignOut, InvExpire, InvRefreshTimer, InvGetTokenForcingRefresh,
     InvFetch DEF Auth
<1>2. CASE \/ Refresh
           \/ \E t \in refreshing : NotSaved(t) \/ RefreshFails(t) \/ RefreshRejected(t)
  BY <1>2, InvRefreshed, InvNotSaved, InvRefreshFails, InvRefreshRejected DEF Refresh
<1>3. CASE Main \/ Worker
  BY <1>3, InvAuthStateDidChange, InvGetTokenCallback, InvHandleCredentialChange,
     InvResumeStart DEF Main, Worker
<1>4. CASE BackoffElapsed \/ ConnectivityChanged \/ \E b \in BOOLEAN : StreamFails(b)
  BY <1>4, InvBackoffElapsed, InvConnectivityChanged, InvStreamFails
<1>5. CASE UNCHANGED vars
  BY <1>5 DEF vars, auth, provider, firestore, CredentialInv, CredentialTypes,
     NotifiedIsCurrent, RequestsBehind, OneRequest, StreamIsOwn
<1> QED
  BY <1>1, <1>2, <1>3, <1>4, <1>5 DEF Next

\* The invariant holds in every reachable state.
THEOREM CredentialInvariant == Spec => []CredentialInv
  BY InvInit, InvNext, PTL DEF Spec

\* A stream that is open carries the token of the user whose writes the sync engine
\* sends on it, for any number of users, sign-ins, refreshes, failures and retries.
THEOREM StreamsAreOwn == Spec => []StreamIsOwn
<1>1. CredentialInv => StreamIsOwn
  BY DEF CredentialInv
<1> QED
  BY <1>1, CredentialInvariant, PTL

\* A token that reaches the worker queue is labelled with the user it was issued to.
THEOREM LabelsAreTrue == Spec => []TokensAreLabelled
<1>1. CredentialInv => TokensAreLabelled
  BY DEF CredentialInv, TokensInStep, TokensAreLabelled
<1> QED
  BY <1>1, CredentialInvariant, PTL

\* How many there are of one and of none.
LEMMA Counts ==
  ASSUME NEW S
  PROVE  (S = {} => Cardinality(S) = 0) /\ (One(S) => Cardinality(S) = 1)
  BY FS_EmptySet, FS_Singleton DEF One

\* A stream that is starting waits for exactly one request, wherever that is on its
\* way between the three queues, and no other request is ever taken for it.
THEOREM RequestsAreAwaited == Spec => []Awaited
<1>1. ASSUME CredentialInv PROVE Awaited
  <2> DEFINE n == stream.close_count
             A == {r \in asked : r.close = n}
             T == {t \in tasks : t.request.close = n}
             M == {i \in {j \in 1..Len(main) : main[j].kind # "changed"} :
                      main[i].request.close = n}
             W == {i \in {j \in 1..Len(worker) : worker[j].kind # "changed"} :
                      worker[i].close = n}
  <2>1. /\ A = AskedFor(asked, n) /\ T = TasksFor(tasks, n) /\ M = MainFor(main, n)
        /\ W = WorkerFor(worker, n)
    BY DEF AskedFor, TasksFor, MainFor, WorkerFor
  <2> HIDE DEF A, T, M, W
  <2>2. OneIn(A, T, M, W, stream.state)
    BY <1>1, <2>1 DEF CredentialInv, OneRequest
  <2>3. Cardinality(A) + Cardinality(T) + Cardinality(M) + Cardinality(W)
           = IF stream.state = "Starting" THEN 1 ELSE 0
    BY <2>2, Counts DEF OneIn
  <2> QED
    BY <2>3 DEF Awaited, A, T, M, W
<1> QED
  BY <1>1, CredentialInvariant, PTL
===============================================================================
