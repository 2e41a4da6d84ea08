--------------------------- MODULE SnapLedgerProofs ---------------------------
(***************************************************************************)
(* Proofs about SnapLedger, for every number of photos, challenges,        *)
(* awards, presses, launches, mails and lost connections, and that the     *)
(* server's document, as SnapLedger lets it evolve, is a RewardAccount.    *)
(***************************************************************************)
EXTENDS SnapLedger, TLAPS, FiniteSetTheorems

(***************************************************************************)
(* Writes                                                                  *)
(***************************************************************************)
\* The kinds of write that are for a photo.
PhotoKinds == Credits \cup {"entry"}

\* A write is told by its kind and its photo (the arguments of updateData).
LEMMA OpFacts ==
  /\ \A k, l, p, q : Op(k, p) = Op(l, q) => k = l /\ p = q
  /\ \A k, p : Op(k, p).kind = k /\ Op(k, p).photo = p
  /\ \A k \in PhotoKinds, p \in Photos : Op(k, p) \in Writes /\ Op(k, p) # Clear
  /\ Clear \in Writes /\ Clear.kind = "clear" /\ "clear" \notin PhotoKinds
  BY DEF Op, Clear, Writes, PhotoKinds, Credits

\* A write is a withdrawal, or of one of the other kinds and for a photo.
LEMMA WriteShapes ==
  ASSUME NEW w \in Writes
  PROVE  \/ w = Clear
         \/ \E k \in PhotoKinds, p \in Photos : w = Op(k, p)
<1>1. CASE w \in [kind : PhotoKinds, photo : Photos]
  <2>1. w = Op(w.kind, w.photo) /\ w.kind \in PhotoKinds /\ w.photo \in Photos
    BY <1>1 DEF Op
  <2> QED
    BY <2>1
<1> QED
  BY <1>1 DEF Writes, PhotoKinds

\* What a write makes of an account is an account, and which fields it leaves alone.
LEMMA AppliedType ==
  ASSUME TypeOK, NEW w \in Writes
  PROVE  Applied(w, cloud) \in Account
<1>1. cloud \in Account /\ award \in [Photos -> 0..MaxAward] /\ MaxAward \in Nat
  BY AwardAssumption DEF TypeOK
<1>2. CASE w = Clear
  BY <1>1, <1>2, OpFacts DEF Applied, Cleared, Account
<1>3. CASE \E k \in PhotoKinds, p \in Photos : w = Op(k, p)
  <2>1. PICK k \in PhotoKinds, p \in Photos : w = Op(k, p)
    BY <1>3
  <2>2. w.kind = k /\ w.photo = p /\ award[p] \in Nat
    BY <1>1, <2>1, OpFacts
  <2>3. CASE k = "snap"
    BY <1>1, <2>2, <2>3 DEF Applied, Counted, Account
  <2>4. CASE k = "award"
    BY <1>1, <2>2, <2>4 DEF Applied, Awarded, Account
  <2>5. CASE k = "challenge"
    BY <1>1, <2>2, <2>5 DEF Applied, Completed, Account
  <2>6. CASE k = "entry"
    BY <1>1, <2>2, <2>6 DEF Applied, WithEntry, Account
  <2> QED
    BY <2>3, <2>4, <2>5, <2>6 DEF PhotoKinds, Credits
<1> QED
  BY <1>2, <1>3, WriteShapes

\* A write appends at most one operation to the queue (Firestore's updateData).
LEMMA WriteType ==
  ASSUME TypeOK, NEW w \in Writes, Write(w), UNCHANGED <<taken, answers>>
  PROVE  /\ writes' \in Seq(Writes)
         /\ taken' \in 0..Len(writes') /\ answers' \in 0..taken'
<1>1. writes \in Seq(Writes) /\ taken \in 0..Len(writes) /\ answers \in 0..taken
  BY DEF TypeOK
<1>2. CASE Filed
  <2>1. writes' = Append(writes, w)
    BY <1>2 DEF Write
  <2>2. writes' \in Seq(Writes) /\ Len(writes') = Len(writes) + 1
    BY <1>1, <2>1
  <2> QED
    BY <1>1, <2>2
<1>3. CASE ~Filed
  BY <1>1, <1>3 DEF Write
<1> QED
  BY <1>2, <1>3

(***************************************************************************)
(* Counting photos                                                         *)
(***************************************************************************)
\* Sets of photos are finite, and change size by one element at a time.
LEMMA PhotoSets ==
  ASSUME NEW S \in SUBSET Photos, NEW p \in Photos
  PROVE  /\ Cardinality(S) \in Nat
         /\ p \notin S => Cardinality(S \cup {p}) = Cardinality(S) + 1
         /\ p \in S => Cardinality(S \ {p}) = Cardinality(S) - 1
<1>1. IsFiniteSet(S)
  BY PhotosAssumption, FS_Subset
<1> QED
  BY <1>1, FS_CardinalityType, FS_AddElement, FS_RemoveElement

\* The same without an element, and for two sets.
LEMMA PhotoUnions ==
  ASSUME NEW S \in SUBSET Photos, NEW T \in SUBSET Photos
  PROVE  /\ Cardinality(S) \in Nat /\ Cardinality(T) \in Nat
         /\ S \subseteq T => Cardinality(S) <= Cardinality(T)
         /\ Cardinality(S \cup T) <= Cardinality(S) + Cardinality(T)
         /\ S \cap T = {} => Cardinality(S \cup T) = Cardinality(S) + Cardinality(T)
<1>1. IsFiniteSet(S) /\ IsFiniteSet(T)
  BY PhotosAssumption, FS_Subset
<1>2. Cardinality(S) \in Nat /\ Cardinality(T) \in Nat
  BY <1>1, FS_CardinalityType
<1>3. S \subseteq T => Cardinality(S) <= Cardinality(T)
  BY <1>1, FS_Subset
<1>4. Cardinality(S \cup T) = Cardinality(S) + Cardinality(T) - Cardinality(S \cap T)
  BY <1>1, FS_Union
<1>5. IsFiniteSet(S \cap T)
  BY <1>1, FS_Intersection
<1>6. Cardinality(S \cap T) \in Nat
  BY <1>5, FS_CardinalityType
<1>7. S \cap T = {} => Cardinality(S \cap T) = 0
  BY FS_EmptySet
<1> QED
  BY <1>2, <1>3, <1>4, <1>6, <1>7

\* The server's copy under some of the queue is an account (what getUser reads).
LEMMA OverType ==
  ASSUME TypeOK, NEW n
  PROVE  Over(n) \in Account
<1>1. cloud \in Account
  BY DEF TypeOK
<1>2. \A k : Queued(k, n) \in SUBSET Photos
  BY DEF Queued
<1>3. \A k : Cardinality(Queued(k, n)) \in Nat
  BY <1>2, PhotoUnions
<1>4. Cardinality(Units(n)) \in Nat
  <2>1. IsFiniteSet(1..MaxAward)
    BY AwardAssumption, FS_Interval
  <2>2. IsFiniteSet(Photos \X (1..MaxAward))
    BY <2>1, PhotosAssumption, FS_Product
  <2>3. Units(n) \in SUBSET (Photos \X (1..MaxAward))
    BY DEF Units
  <2>4. IsFiniteSet(Units(n))
    BY <2>2, <2>3, FS_Subset
  <2> QED
    BY <2>4, FS_CardinalityType
<1>5. /\ cloud.snaps + Cardinality(Queued("snap", n)) \in Nat
      /\ cloud.challenges + Cardinality(Queued("challenge", n)) \in Nat
      /\ cloud.money + Cardinality(Units(n)) \in Nat /\ 0 + Cardinality(Units(n)) \in Nat
      /\ cloud.entries \cup Queued("entry", n) \in SUBSET Photos
  BY <1>1, <1>2, <1>3, <1>4 DEF Account
<1> QED
  BY <1>5 DEF Over, Account

\* Whatever of these the worker gives is an account.
LEMMA SeenType == TypeOK => \A v \in Seen : v \in Account /\ CountersOf(v) \in Counters
<1>1. TypeOK => \A v \in Seen : v \in Account
  BY OverType DEF Seen, TypeOK
<1>2. \A v \in Account : CountersOf(v) \in Counters
  BY DEF CountersOf, Account, Counters
<1> QED
  BY <1>1, <1>2

(***************************************************************************)
(* Type correctness                                                        *)
(***************************************************************************)
\* An onboarded account on a fresh device has the right types.
LEMMA TypeInit == Init => TypeOK
<1> SUFFICES ASSUME Init PROVE TypeOK
  OBVIOUS
<1> USE DEF Init
<1>1. defaults \in Defaults
  BY DEF Empty, Defaults
<1>2. /\ cloud \in Account /\ writes \in Seq(Writes) /\ notices \in Seq({"uid", "nil"})
      /\ Len(writes) = 0
  BY DEF Account
<1>3. request \in [Presses -> [at : RequestAt, user : Counters]]
  BY DEF NoRequest, RequestAt, Counters
<1>4. job \in [Photos -> JobAt] /\ upload \in [Photos -> UploadAt]
      /\ query \in [Photos -> QueryAt]
  BY DEF JobAt, UploadAt, QueryAt
<1>5. award \in [Photos -> 0..MaxAward] /\ repeats \in [Credits -> Nat]
  BY AwardAssumption
<1>6. /\ currentUser \in {"uid", "nil"} /\ screen \in Screens /\ main \in MainAt
      /\ blobs \in SUBSET Photos /\ spinner \in SUBSET Photos
      /\ shouldPresentWithdrawal \in BOOLEAN /\ worker \in {"uid", "nil"}
      /\ committed \in SUBSET Writes /\ astray \in SUBSET Photos
  BY DEF Screens, MainAt
<1>7. /\ databaseProfile \in Nat /\ reg \in Nat
      /\ mails \in Nat /\ launches \in Nat /\ losses \in Nat
  OBVIOUS
<1>8. taken \in 0..Len(writes) /\ answers \in 0..taken
  BY <1>2
<1>9. challengeOf \in [Photos -> Challenges]
  OBVIOUS
<1> QED
  BY <1>1, <1>2, <1>3, <1>4, <1>5, <1>6, <1>7, <1>8, <1>9 DEF TypeOK

\* viewDidLoad and the tabs change only what is shown.
LEMMA TypeNavigation ==
  TypeOK /\ (Launch \/ Navigate) => TypeOK'
<1> SUFFICES ASSUME TypeOK, Launch \/ Navigate PROVE TypeOK'
  OBVIOUS
<1> USE DEF TypeOK, Screens, store, snap, world, ui, server, firestore, link
<1>1. CASE Launch
  BY <1>1 DEF Launch
<1>2. CASE OpenChallenge
  BY <1>2 DEF OpenChallenge
<1>3. CASE BackToList
  BY <1>3 DEF BackToList
<1>4. CASE OpenProfile
  BY <1>4 DEF OpenProfile, FetchProfileData, Defaults
<1> QED
  BY <1>1, <1>2, <1>3, <1>4 DEF Navigate

\* A press moves from one stage to the next.
LEMMA RequestType ==
  ASSUME TypeOK, NEW n \in Presses, NEW stage \in RequestAt
  PROVE  At(n, stage) \in [Presses -> [at : RequestAt, user : Counters]]
  BY DEF TypeOK, At

\* Sign-in, getUser and sign-out change the user and write counters.
LEMMA TypeSession ==
  TypeOK /\ Session => TypeOK'
<1> SUFFICES ASSUME TypeOK, Session PROVE TypeOK'
  OBVIOUS
<1> USE DEF TypeOK, store, snap, world, ui, server, firestore, link
<1>1. CASE \E n \in Presses : Press(n)
  <2>1. PICK n \in Presses : Press(n)
    BY <1>1
  <2>2. {"signIn", "set", "getUser", "answered", "done"} \subseteq RequestAt
    BY DEF RequestAt
  <2>3. CASE PressSignIn(n)
    BY <2>2, <2>3, RequestType DEF PressSignIn
  <2>4. CASE SignInRefused(n)
    BY <2>2, <2>4, RequestType DEF SignInRefused
  <2>5. CASE SignInWorked(n)
    <3>1. notices' \in Seq({"uid", "nil"})
      BY <2>5 DEF SignInWorked
    <3> QED
      BY <2>2, <2>5, <3>1, RequestType DEF SignInWorked
  <2>6. CASE SignInCallback(n)
    BY <2>2, <2>6, RequestType DEF SignInCallback, Screens
  <2>7. CASE GetUserSnapshot(n)
    <3>1. PICK v \in Seen : request' =
              [request EXCEPT ![n] = [at |-> "answered", user |-> CountersOf(v)]]
      BY <2>7 DEF GetUserSnapshot
    <3>2. request' \in [Presses -> [at : RequestAt, user : Counters]]
      BY <2>2, <3>1, SeenType
    <3> QED
      BY <2>7, <3>2 DEF GetUserSnapshot
  <2>8. CASE GetUserError(n)
    BY <2>2, <2>8, RequestType DEF GetUserError
  <2>9. CASE GetUserCallback(n)
    <3>1. request' \in [Presses -> [at : RequestAt, user : Counters]]
      BY <2>2, <2>9 DEF GetUserCallback, NoRequest, Counters
    <3>2. request[n].user \in Counters
      OBVIOUS
    <3>3. defaults' \in Defaults
      BY <2>9, <3>2 DEF GetUserCallback, Counters, Defaults
    <3> QED
      BY <2>9, <3>1, <3>3 DEF GetUserCallback
  <2> QED
    BY <2>1, <2>3, <2>4, <2>5, <2>6, <2>7, <2>8, <2>9 DEF Press
<1>2. CASE FinishPermissions
  BY <1>2 DEF FinishPermissions, Screens
<1>3. CASE SignOut
  BY <1>3 DEF SignOut, MainAt
<1>4. CASE RemoveKeys
  BY <1>4 DEF RemoveKeys, MainAt, Empty, Defaults
<1> QED
  BY <1>1, <1>2, <1>3, <1>4 DEF Session

\* plantScanner's completion changes one photo's stages and draws an award.
LEMMA TypeScan ==
  ASSUME TypeOK, NEW p \in Photos, CapturePhoto(p) \/ ScanResult(p)
  PROVE  TypeOK'
<1> USE DEF TypeOK, store, snap, world, ui, server, firestore, link, JobAt
<1>1. CASE CapturePhoto(p)
  BY <1>1 DEF CapturePhoto
<1>2. CASE PlantScannerFailed(p)
  BY <1>2 DEF PlantScannerFailed, Finished
<1>3. CASE PlantScannerWorked(p)
  <2>1. PICK a \in 1..MaxAward : award' = [award EXCEPT ![p] = a]
    BY <1>3 DEF PlantScannerWorked
  <2>2. award' \in [Photos -> 0..MaxAward]
    BY <2>1, AwardAssumption
  <2> QED
    BY <1>3, <2>2 DEF PlantScannerWorked, Finished, Handler, UploadAt
<1> QED
  BY <1>1, <1>2, <1>3 DEF ScanResult

\* Setting a counter in UserDefaults.
LEMMA DefaultsSet ==
  ASSUME NEW d \in Defaults, NEW n \in Nat
  PROVE  /\ [d EXCEPT !.snaps = n] \in Defaults /\ [d EXCEPT !.money = n] \in Defaults
         /\ [d EXCEPT !.challenges = n] \in Defaults
  BY DEF Defaults

\* The statements of the completion handler add to natural numbers.
LEMMA TypeCompletion ==
  ASSUME TypeOK, NEW p \in Photos, Completion(p)
  PROVE  TypeOK'
<1> USE DEF TypeOK, store, snap, world, ui, server, link, JobAt, Handler, Step
<1>0. Op("snap", p) \in Writes /\ Op("award", p) \in Writes
  BY OpFacts DEF PhotoKinds, Credits
<1>1. CASE ReadSnaps(p)
  BY <1>1 DEF ReadSnaps, Defaults
<1>2. CASE WriteSnaps(p)
  <2>1. defaults \in Defaults /\ reg + 1 \in Nat
    OBVIOUS
  <2>2. defaults' \in Defaults
    BY <1>2, <2>1, DefaultsSet DEF WriteSnaps
  <2> QED
    BY <1>2, <2>2 DEF WriteSnaps
<1>3. CASE ReadMoney(p)
  BY <1>3 DEF ReadMoney, Defaults
<1>4. CASE WriteMoney(p)
  <2>1. defaults \in Defaults /\ reg + award[p] \in Nat
    BY AwardAssumption
  <2>2. defaults' \in Defaults
    BY <1>4, <2>1, DefaultsSet DEF WriteMoney
  <2> QED
    BY <1>4, <2>2 DEF WriteMoney
<1>5. CASE CountSnap(p)
  <2>1. Write(Op("snap", p)) /\ UNCHANGED <<taken, answers>>
    BY <1>5 DEF CountSnap
  <2>2. /\ writes' \in Seq(Writes)
        /\ taken' \in 0..Len(writes') /\ answers' \in 0..taken'
    BY <1>0, <2>1, WriteType
  <2> QED
    BY <1>5, <2>2 DEF CountSnap
<1>6. CASE AwardMoney(p)
  <2>1. Write(Op("award", p)) /\ UNCHANGED <<taken, answers>>
    BY <1>6 DEF AwardMoney
  <2>2. /\ writes' \in Seq(Writes)
        /\ taken' \in 0..Len(writes') /\ answers' \in 0..taken'
    BY <1>0, <2>1, WriteType
  <2> QED
    BY <1>6, <2>2 DEF AwardMoney
<1>7. CASE AskEntries(p)
  BY <1>7 DEF AskEntries, QueryAt
<1> QED
  BY <1>1, <1>2, <1>3, <1>4, <1>5, <1>6, <1>7 DEF Completion

\* uploadPhoto, uploadEntries and the entries query, one photo at a time.
LEMMA TypeEntry ==
  ASSUME TypeOK, NEW p \in Photos,
         PutData(p) \/ UploadEntries(p) \/ GetEntries(p) \/ EntriesCallback(p)
  PROVE  TypeOK'
<1> USE DEF TypeOK, store, snap, world, ui, server, link, UploadAt, QueryAt
<1>0. Op("entry", p) \in Writes /\ Op("challenge", p) \in Writes
  BY OpFacts DEF PhotoKinds, Credits
<1>1. CASE BlobStored(p)
  BY <1>1 DEF BlobStored, firestore
<1>2. CASE UploadFailed(p)
  BY <1>2 DEF UploadFailed, firestore
<1>3. CASE UploadEntries(p)
  <2>1. /\ Write(Op("entry", p)) \/ UNCHANGED writes
        /\ UNCHANGED <<taken, answers>>
    BY <1>3 DEF UploadEntries
  <2>2. /\ writes' \in Seq(Writes)
        /\ taken' \in 0..Len(writes') /\ answers' \in 0..taken'
    BY <1>0, <2>1, WriteType
  <2> QED
    BY <1>3, <2>2 DEF UploadEntries
<1>4. CASE EntriesSnapshot(p)
  <2>1. query' \in [Photos -> QueryAt]
    BY <1>4 DEF EntriesSnapshot
  <2> QED
    BY <1>4, <2>1 DEF EntriesSnapshot, firestore
<1>5. CASE EntriesError(p)
  BY <1>5 DEF EntriesError, firestore
<1>6. CASE EntriesCallback(p)
  <2>1. /\ Write(Op("challenge", p)) \/ UNCHANGED writes
        /\ UNCHANGED <<taken, answers>>
    BY <1>6 DEF EntriesCallback
  <2>2. /\ writes' \in Seq(Writes)
        /\ taken' \in 0..Len(writes') /\ answers' \in 0..taken'
    BY <1>0, <2>1, WriteType
  <2> QED
    BY <1>6, <2>2 DEF EntriesCallback, MainAt
<1> QED
  BY <1>1, <1>2, <1>3, <1>4, <1>5, <1>6 DEF PutData, GetEntries

\* didFinishWith only sets amounts to 0.
LEMMA TypeWithdrawal ==
  TypeOK /\ (Withdrawal \/ BumpLocal) => TypeOK'
<1> SUFFICES ASSUME TypeOK, Withdrawal \/ BumpLocal PROVE TypeOK'
  OBVIOUS
<1> USE DEF TypeOK, store, snap, world, ui, server, link, MainAt
<1>1. CASE RequestWithdrawal
  BY <1>1 DEF RequestWithdrawal, firestore
<1>2. CASE MailNotSent
  BY <1>2 DEF MailNotSent, firestore
<1>3. CASE MailSent
  <2>1. defaults' \in Defaults
    BY <1>3 DEF MailSent, Defaults
  <2> QED
    BY <1>3, <2>1 DEF MailSent, firestore
<1>4. CASE ClearRemote
  <2>1. Write(Clear) /\ UNCHANGED <<taken, answers>>
    BY <1>4 DEF ClearRemote
  <2>2. /\ writes' \in Seq(Writes)
        /\ taken' \in 0..Len(writes') /\ answers' \in 0..taken'
    BY <2>1, OpFacts, WriteType
  <2>3. databaseProfile' \in Nat /\ main' \in MainAt
    BY <1>4 DEF ClearRemote, ProfileAfterClear
  <2> HIDE DEF MainAt
  <2> QED
    BY <1>4, <2>2, <2>3 DEF ClearRemote
<1>5. CASE BumpLocal
  <2>1. defaults \in Defaults /\ defaults.challenges + 1 \in Nat
    BY DEF Defaults
  <2>2. defaults' \in Defaults
    BY <1>5, <2>1, DefaultsSet DEF BumpLocal
  <2> QED
    BY <1>5, <2>2 DEF BumpLocal, firestore
<1> QED
  BY <1>1, <1>2, <1>3, <1>4, <1>5 DEF Withdrawal

\* The worker takes from the queue what the server has taken, and begins again after a
\* lost connection, a change of user or a crash.
LEMMA TypeWorkerCrash ==
  TypeOK /\ (Worker \/ Crash) => TypeOK'
<1> SUFFICES ASSUME TypeOK, Worker \/ Crash PROVE TypeOK'
  OBVIOUS
<1>0. /\ writes \in Seq(Writes) /\ taken \in 0..Len(writes) /\ answers \in 0..taken
      /\ notices \in Seq({"uid", "nil"}) /\ taken \in Nat /\ answers \in Nat
      /\ Len(writes) \in Nat
  BY DEF TypeOK
<1> USE DEF TypeOK, store, snap, world, ui, server, firestore, link
<1>1. CASE Commit
  <2>1. PICK w : w = writes[answers + 1]
    OBVIOUS
  <2>2. answers + 1 \in 1..Len(writes)
    BY <1>0, <1>1 DEF Commit
  <2>3. w \in Writes
    BY <1>0, <2>1, <2>2
  <2>4. /\ cloud' = Applied(w, cloud) /\ committed' = committed \cup {w}
        /\ repeats' = IF answers < taken /\ w.kind \in Credits
                        THEN [repeats EXCEPT ![w.kind] = repeats[w.kind] + 1]
                        ELSE repeats
        /\ answers' = answers + 1 /\ writes' = writes
        /\ taken' = IF answers < taken THEN taken ELSE answers + 1
    BY <1>1, <2>1 DEF Commit
  <2>5. cloud' \in Account
    BY <2>3, <2>4, AppliedType
  <2>6. repeats' \in [Credits -> Nat] /\ committed' \in SUBSET Writes
    BY <2>3, <2>4
  <2>7. taken' \in 0..Len(writes') /\ answers' \in 0..taken'
    BY <1>0, <2>2, <2>4
  <2> QED
    BY <1>1, <2>4, <2>5, <2>6, <2>7 DEF Commit
<1>2. CASE Acknowledge
  <2>1. /\ writes' = Tail(writes) /\ taken' = taken - 1 /\ answers' = answers - 1
        /\ answers > 0
    BY <1>2 DEF Acknowledge
  <2>2. writes' \in Seq(Writes) /\ Len(writes') = Len(writes) - 1
    BY <1>0, <2>1
  <2>3. taken' \in 0..Len(writes') /\ answers' \in 0..taken'
    BY <1>0, <2>1, <2>2
  <2> QED
    BY <1>2, <2>2, <2>3 DEF Acknowledge
<1>3. CASE LoseConnection
  BY <1>0, <1>3 DEF LoseConnection
<1>4. CASE HandleCredentialChange
  <2>1. worker' \in {"uid", "nil"} /\ notices' \in Seq({"uid", "nil"})
    BY <1>0, <1>4 DEF HandleCredentialChange
  <2> QED
    BY <1>0, <1>4, <2>1 DEF HandleCredentialChange, QueueKept
<1>5. CASE Crash
  <2>1. request' \in [Presses -> [at : RequestAt, user : Counters]]
    BY <1>5 DEF Crash, NoRequest, RequestAt, Counters
  <2>2. /\ job' \in [Photos -> JobAt]
        /\ upload' \in [Photos -> UploadAt]
        /\ query' \in [Photos -> QueryAt]
    BY <1>5 DEF Crash, JobAt, UploadAt, QueryAt
  <2>3. notices' \in Seq({"uid", "nil"})
    <3> HIDE DEF TypeOK
    <3> QED
      BY <1>5 DEF Crash
  <2>4. /\ worker' \in {"uid", "nil"}
        /\ screen' \in Screens /\ main' \in MainAt
        /\ spinner' \in SUBSET Photos /\ databaseProfile' \in Nat /\ reg' \in Nat
        /\ shouldPresentWithdrawal' \in BOOLEAN
    BY <1>5 DEF Crash, Screens, MainAt
  <2>5. taken' \in 0..Len(writes') /\ answers' \in 0..taken' /\ writes' = writes
    BY <1>0, <1>5 DEF Crash
  <2> QED
    BY <1>5, <2>1, <2>2, <2>3, <2>4, <2>5 DEF Crash
<1> QED
  BY <1>1, <1>2, <1>3, <1>4, <1>5 DEF Worker

\* Every step of the device keeps the types.
LEMMA TypeNext == TypeOK /\ [Next]_vars => TypeOK'
<1> SUFFICES ASSUME TypeOK, [Next]_vars PROVE TypeOK'
  OBVIOUS
<1>1. CASE Next
  BY <1>1, TypeNavigation, TypeSession, TypeScan, TypeCompletion, TypeEntry,
     TypeWithdrawal, TypeWorkerCrash DEF Next
<1>2. CASE UNCHANGED vars
  BY <1>2 DEF TypeOK, vars, store, ui, snap, world, server, firestore, link
<1> QED
  BY <1>1, <1>2

\* Every variable keeps its type in every reachable state of the ledger.
THEOREM TypeCorrect == Spec => []TypeOK
<1> QED
  BY TypeInit, TypeNext, PTL DEF Spec

(***************************************************************************)
(* The queue                                                               *)
(***************************************************************************)
\* The part of the invariant that is about the queue and what the server took of it.
Ledger == QueueInv /\ InOrder /\ AddsUp

\* The part that relates a photo's writes to how far its handlers are.
Progress == IssuedBy /\ Stages /\ Serial /\ SnapsKept

\* A write of kind k for photo p adds p to those issued, if it is filed.
LEMMA WriteIssues ==
  ASSUME TypeOK, NEW k \in PhotoKinds, NEW p \in Photos, Write(Op(k, p)),
         UNCHANGED committed
  PROVE  \A l : Issued(l)' = Issued(l) \cup (IF Filed /\ l = k THEN {p} ELSE {})
<1> SUFFICES ASSUME NEW l
             PROVE  Issued(l)' = Issued(l) \cup (IF Filed /\ l = k THEN {p} ELSE {})
  OBVIOUS
<1>1. writes \in Seq(Writes) /\ Len(writes) \in Nat
  BY DEF TypeOK
<1>2. PhotosTaken(l)' = PhotosTaken(l)
  BY DEF PhotosTaken
<1>3. CASE ~Filed
  <2>1. writes' = writes
    BY <1>3 DEF Write
  <2> QED
    BY <1>2, <1>3, <2>1 DEF Issued, Queued, Behind
<1>4. CASE Filed
  <2>1. writes' = Append(writes, Op(k, p))
    BY <1>4 DEF Write
  <2> PICK w : w = Op(k, p)
    OBVIOUS
  <2>2. /\ Len(writes') = Len(writes) + 1
        /\ \A i \in 1..Len(writes) : writes'[i] = writes[i]
        /\ writes'[Len(writes) + 1] = w
    BY <1>1, <2>1
  <2>3. \A q \in Photos : (\E i \in Behind(0)' : writes'[i] = Op(l, q)) <=>
                          (\E i \in Behind(0) : writes[i] = Op(l, q)) \/ w = Op(l, q)
    <3>1. Behind(0) = 1..Len(writes) /\ Behind(0)' = 1..Len(writes) + 1
      BY <1>1, <2>2 DEF Behind
    <3>2. Behind(0)' = Behind(0) \cup {Len(writes) + 1}
      BY <1>1, <3>1
    <3> QED
      BY <2>2, <3>1, <3>2
  <2>4. \A q \in Photos : w = Op(l, q) <=> l = k /\ q = p
    BY OpFacts
  <2>5. Queued(l, 0)' = Queued(l, 0) \cup (IF l = k THEN {p} ELSE {})
    BY <2>3, <2>4 DEF Queued
  <2> QED
    BY <1>2, <1>4, <2>5 DEF Issued
<1> QED
  BY <1>3, <1>4

\* A withdrawal issues nothing for a photo.
LEMMA ClearIssues ==
  ASSUME TypeOK, Write(Clear), UNCHANGED committed
  PROVE  \A l \in PhotoKinds : Issued(l)' = Issued(l)
<1> SUFFICES ASSUME NEW l \in PhotoKinds
             PROVE  Issued(l)' = Issued(l)
  OBVIOUS
<1>1. writes \in Seq(Writes) /\ Len(writes) \in Nat
  BY DEF TypeOK
<1>2. PhotosTaken(l)' = PhotosTaken(l)
  BY DEF PhotosTaken
<1>3. CASE ~Filed
  <2>1. writes' = writes
    BY <1>3 DEF Write
  <2> QED
    BY <1>2, <2>1 DEF Issued, Queued, Behind
<1>4. CASE Filed
  <2>1. writes' = Append(writes, Clear)
    BY <1>4 DEF Write
  <2> PICK w : w = Clear
    OBVIOUS
  <2>2. /\ Len(writes') = Len(writes) + 1
        /\ \A i \in 1..Len(writes) : writes'[i] = writes[i]
        /\ writes'[Len(writes) + 1] = w
    BY <1>1, <2>1
  <2>3. \A q \in Photos : w # Op(l, q)
    BY OpFacts
  <2>4. \A q \in Photos : (\E i \in Behind(0)' : writes'[i] = Op(l, q)) <=>
                          (\E i \in Behind(0) : writes[i] = Op(l, q))
    <3>1. Behind(0) = 1..Len(writes) /\ Behind(0)' = 1..Len(writes) + 1
      BY <1>1, <2>2 DEF Behind
    <3>2. Behind(0)' = Behind(0) \cup {Len(writes) + 1}
      BY <1>1, <3>1
    <3> QED
      BY <2>2, <2>3, <3>1, <3>2
  <2>5. Queued(l, 0)' = Queued(l, 0)
    BY <2>4 DEF Queued
  <2> QED
    BY <1>2, <2>5 DEF Issued
<1> QED
  BY <1>3, <1>4

\* A write that is new, and behind its snap if it must be, fits into the queue.
LEMMA WriteLedger ==
  ASSUME TypeOK, Ledger, NEW w \in Writes, Write(w),
         UNCHANGED <<committed, taken, cloud, repeats>>,
         astray \subseteq astray',
         \A k \in Credits, p \in Photos : w = Op(k, p) => p \notin Issued(k),
         \A k \in {"award", "challenge"}, p \in Photos :
            w = Op(k, p) => p \in Issued("snap") \cup astray
  PROVE  Ledger'
<1>1. /\ writes \in Seq(Writes) /\ Len(writes) \in Nat
      /\ taken \in 0..Len(writes) /\ taken \in Nat
  BY DEF TypeOK
<1>2. AddsUp'
  BY DEF Ledger, AddsUp, PhotosTaken
<1>3. CASE ~Filed
  <2>1. writes' = writes
    BY <1>3 DEF Write
  <2>2. QueueInv'
    BY <2>1 DEF Ledger, QueueInv, Behind
  <2>3. InOrder'
    BY <2>1 DEF Ledger, InOrder
  <2> QED
    BY <1>2, <2>2, <2>3 DEF Ledger
<1>4. CASE Filed
  <2> PICK n : n = Len(writes) + 1
    OBVIOUS
  <2>1. writes' = Append(writes, w)
    BY <1>4 DEF Write
  <2>2. /\ Len(writes') = n
        /\ \A i \in 1..Len(writes) : writes'[i] = writes[i]
        /\ writes'[n] = w
        /\ n \in Nat /\ 1..n = (1..Len(writes)) \cup {n}
        /\ \A i \in 1..Len(writes) : i # n
    BY <1>1, <2>1
  <2>3. w.kind \in Credits => /\ w \notin committed
                              /\ \A i \in 1..Len(writes) : writes[i] # w
    <3> SUFFICES ASSUME w.kind \in Credits
                 PROVE  /\ w \notin committed
                        /\ \A i \in 1..Len(writes) : writes[i] # w
      OBVIOUS
    <3>1. PICK k \in PhotoKinds, p \in Photos : w = Op(k, p)
      BY WriteShapes, OpFacts DEF PhotoKinds
    <3>2. k \in Credits
      BY <3>1, OpFacts
    <3>3. p \notin Issued(k)
      BY <3>1, <3>2
    <3>4. 1..Len(writes) = Behind(0)
      BY <1>1 DEF Behind
    <3> QED
      BY <3>1, <3>3, <3>4 DEF Issued, PhotosTaken, Queued
  <2>4. QueueInv'
    <3>1. \A i \in 1..taken : writes'[i] \in committed
      BY <1>1, <2>2 DEF Ledger, QueueInv
    <3>2. Behind(taken)' = Behind(taken) \cup {n} /\ Behind(taken) \subseteq 1..Len(writes)
      BY <1>1, <2>2 DEF Behind
    <3>3. \A i \in Behind(taken)' : writes'[i].kind \in Credits => writes'[i] \notin committed
      BY <2>2, <2>3, <3>2 DEF Ledger, QueueInv
    <3>4. \A i, j \in 1..Len(writes') :
             writes'[i].kind \in Credits /\ writes'[i] = writes'[j] => i = j
      BY <2>2, <2>3 DEF Ledger, QueueInv
    <3> QED
      BY <3>1, <3>3, <3>4 DEF QueueInv
  <2>5. InOrder'
    <3> SUFFICES ASSUME NEW k \in {"award", "challenge"}, NEW p \in Photos \ astray'
                 PROVE  /\ Op(k, p) \in committed => Op("snap", p) \in committed
                        /\ \A i \in 1..Len(writes') : writes'[i] = Op(k, p) =>
                              \/ Op("snap", p) \in committed
                              \/ \E j \in 1..i - 1 : writes'[j] = Op("snap", p)
      BY DEF InOrder
    <3>1. p \in Photos \ astray
      OBVIOUS
    <3>2. Op(k, p) \in committed => Op("snap", p) \in committed
      BY <3>1 DEF Ledger, InOrder
    <3>3. ASSUME NEW i \in 1..Len(writes), writes'[i] = Op(k, p)
          PROVE  \/ Op("snap", p) \in committed
                 \/ \E j \in 1..i - 1 : writes'[j] = Op("snap", p)
      <4>1. 1..i - 1 \subseteq 1..Len(writes)
        BY <1>1
      <4> QED
        BY <2>2, <3>1, <3>3, <4>1 DEF Ledger, InOrder
    <3>4. ASSUME w = Op(k, p)
          PROVE  \/ Op("snap", p) \in committed
                 \/ \E j \in 1..n - 1 : writes'[j] = Op("snap", p)
      <4>1. p \in Issued("snap")
        BY <3>1, <3>4
      <4>2. 1..n - 1 = 1..Len(writes) /\ 1..Len(writes) = Behind(0)
        BY <1>1, <2>2 DEF Behind
      <4> QED
        BY <2>2, <4>1, <4>2 DEF Issued, PhotosTaken, Queued
    <3> QED
      BY <2>2, <3>2, <3>3, <3>4
  <2> QED
    BY <1>2, <2>4, <2>5 DEF Ledger
<1> QED
  BY <1>3, <1>4

\* What the server does with the next write: it is the first time unless an earlier
\* connection was lost, and then it has it already.
LEMMA CommitFacts ==
  ASSUME TypeOK, Ledger, Commit, NEW w, w = writes[answers + 1]
  PROVE  /\ w \in Writes
         /\ cloud' = Applied(w, cloud) /\ committed' = committed \cup {w}
         /\ writes' = writes
         /\ \/ /\ w \in committed
               /\ taken' = taken
               /\ repeats' = IF w.kind \in Credits
                               THEN [repeats EXCEPT ![w.kind] = repeats[w.kind] + 1]
                               ELSE repeats
            \/ /\ w.kind \in Credits => w \notin committed
               /\ repeats' = repeats
               /\ answers = taken /\ taken' = taken + 1 /\ taken + 1 \in 1..Len(writes)
<1>1. /\ writes \in Seq(Writes) /\ Len(writes) \in Nat
      /\ taken \in 0..Len(writes) /\ answers \in 0..taken
      /\ taken \in Nat /\ answers \in Nat
  BY DEF TypeOK
<1>2. /\ answers < Len(writes)
      /\ cloud' = Applied(w, cloud) /\ committed' = committed \cup {w}
      /\ writes' = writes
      /\ repeats' = IF answers < taken /\ w.kind \in Credits
                      THEN [repeats EXCEPT ![w.kind] = repeats[w.kind] + 1]
                      ELSE repeats
      /\ taken' = IF answers < taken THEN taken ELSE answers + 1
  BY DEF Commit
<1>3. w \in Writes
  BY <1>1, <1>2
<1>4. CASE answers < taken
  <2>1. answers + 1 \in 1..taken
    BY <1>1, <1>4
  <2>2. w \in committed
    BY <2>1 DEF Ledger, QueueInv
  <2> QED
    BY <1>2, <1>3, <1>4, <2>2
<1>5. CASE answers = taken
  <2>1. taken + 1 \in Behind(taken) /\ taken + 1 \in 1..Len(writes)
    BY <1>1, <1>2, <1>5 DEF Behind
  <2>2. w.kind \in Credits => w \notin committed
    BY <1>5, <2>1 DEF Ledger, QueueInv
  <2> QED
    BY <1>1, <1>2, <1>3, <1>5, <2>1, <2>2
<1> QED
  BY <1>1, <1>4, <1>5

\* A commit issues nothing: what it takes was in the queue.
LEMMA CommitIssues ==
  ASSUME TypeOK, Ledger, Commit
  PROVE  \A l : Issued(l)' = Issued(l)
<1> SUFFICES ASSUME NEW l PROVE Issued(l)' = Issued(l)
  OBVIOUS
<1> PICK w : w = writes[answers + 1]
  OBVIOUS
<1>1. committed' = committed \cup {w} /\ writes' = writes
  BY CommitFacts
<1>2. answers + 1 \in Behind(0)
  BY DEF TypeOK, Commit, Behind
<1>3. Queued(l, 0)' = Queued(l, 0)
  BY <1>1 DEF Queued, Behind
<1>4. PhotosTaken(l)' = PhotosTaken(l) \cup {p \in Photos : w = Op(l, p)}
  BY <1>1 DEF PhotosTaken
<1>5. {p \in Photos : w = Op(l, p)} \subseteq Queued(l, 0)
  BY <1>2 DEF Queued
<1> QED
  BY <1>3, <1>4, <1>5 DEF Issued

\* The numbers of the server are those of the writes it took (updateData's increments).
LEMMA CommitAddsUp ==
  ASSUME TypeOK, Ledger, Commit
  PROVE  AddsUp'
<1> PICK w : w = writes[answers + 1]
  OBVIOUS
<1>1. /\ w \in Writes
      /\ cloud' = Applied(w, cloud) /\ committed' = committed \cup {w}
      /\ \/ /\ w \in committed
            /\ repeats' = IF w.kind \in Credits
                            THEN [repeats EXCEPT ![w.kind] = repeats[w.kind] + 1]
                            ELSE repeats
         \/ /\ w.kind \in Credits => w \notin committed
            /\ repeats' = repeats
  BY CommitFacts
<1>2. /\ cloud \in Account /\ award \in [Photos -> 0..MaxAward] /\ MaxAward \in Nat
      /\ repeats \in [Credits -> Nat]
      /\ cloud.snaps \in Nat /\ cloud.money \in Nat /\ cloud.challenges \in Nat
      /\ repeats["snap"] \in Nat /\ repeats["award"] \in Nat /\ repeats["challenge"] \in Nat
  BY AwardAssumption DEF TypeOK, Account, Credits
<1>3. /\ cloud.snaps = Cardinality(PhotosTaken("snap")) + repeats["snap"]
      /\ cloud.challenges = Cardinality(PhotosTaken("challenge")) + repeats["challenge"]
      /\ cloud.money <= MaxAward * (Cardinality(PhotosTaken("award")) + repeats["award"])
  BY DEF Ledger, AddsUp
<1>4. \A k : PhotosTaken(k) \in SUBSET Photos /\ Cardinality(PhotosTaken(k)) \in Nat
  <2>1. \A k : PhotosTaken(k) \in SUBSET Photos
    BY DEF PhotosTaken
  <2> QED
    BY <2>1, PhotoUnions
<1>5. \A k : PhotosTaken(k)' = PhotosTaken(k) \cup {q \in Photos : w = Op(k, q)}
  BY <1>1 DEF PhotosTaken
<1>6. CASE w = Clear
  <2>1. w.kind = "clear" /\ "clear" \notin Credits
    BY <1>6, OpFacts DEF PhotoKinds
  <2>2. /\ cloud'.snaps = cloud.snaps /\ cloud'.money = 0
        /\ cloud'.challenges = cloud.challenges
    BY <1>1, <1>2, <2>1 DEF Applied, Cleared, Account
  <2>3. \A k \in Credits : PhotosTaken(k)' = PhotosTaken(k)
    <3>1. \A k \in Credits, q \in Photos : w # Op(k, q)
      BY <1>6, OpFacts DEF PhotoKinds
    <3>2. \A k \in Credits : {q \in Photos : w = Op(k, q)} = {}
      BY <3>1
    <3> QED
      BY <1>5, <3>2
  <2>4. repeats' = repeats
    BY <1>1, <2>1
  <2>5. /\ PhotosTaken("snap")' = PhotosTaken("snap")
        /\ PhotosTaken("award")' = PhotosTaken("award")
        /\ PhotosTaken("challenge")' = PhotosTaken("challenge")
    BY <2>3 DEF Credits
  <2>6. 0 <= MaxAward * (Cardinality(PhotosTaken("award")) + repeats["award"])
    <3>1. Cardinality(PhotosTaken("award")) + repeats["award"] \in Nat
      BY <1>2, <1>4
    <3> QED
      BY <1>2, <3>1
  <2> QED
    BY <1>3, <2>2, <2>4, <2>5, <2>6 DEF AddsUp
<1>7. CASE \E k \in PhotoKinds, p \in Photos : w = Op(k, p)
  <2>1. PICK k \in PhotoKinds, p \in Photos : w = Op(k, p)
    BY <1>7
  <2>2. w.kind = k /\ w.photo = p /\ award[p] \in Nat /\ award[p] <= MaxAward
    BY <1>2, <2>1, OpFacts
  <2>3. \A l : {q \in Photos : w = Op(l, q)} = IF l = k THEN {p} ELSE {}
    BY <2>1, OpFacts
  <2>4. \A l : l # k => PhotosTaken(l)' = PhotosTaken(l)
    BY <1>5, <2>3
  <2>5. \A l \in Credits : l # k => repeats'[l] = repeats[l]
    BY <1>1, <1>2, <2>2
  \* One more has been taken, or one more has been repeated.
  <2>6. k \in Credits =>
          /\ Cardinality(PhotosTaken(k)') \in Nat /\ repeats'[k] \in Nat
          /\ Cardinality(PhotosTaken(k)') + repeats'[k] =
             Cardinality(PhotosTaken(k)) + repeats[k] + 1
    <3> SUFFICES ASSUME k \in Credits
                 PROVE  /\ Cardinality(PhotosTaken(k)') \in Nat /\ repeats'[k] \in Nat
                        /\ Cardinality(PhotosTaken(k)') + repeats'[k] =
                           Cardinality(PhotosTaken(k)) + repeats[k] + 1
      OBVIOUS
    <3>0. PhotosTaken(k)' = PhotosTaken(k) \cup {p} /\ repeats[k] \in Nat
      BY <1>2, <1>5, <2>3
    <3>1. CASE w \in committed /\ repeats' = [repeats EXCEPT ![k] = repeats[k] + 1]
      <4>1. p \in PhotosTaken(k)
        BY <2>1, <3>1 DEF PhotosTaken
      <4>2. PhotosTaken(k)' = PhotosTaken(k)
        BY <3>0, <4>1
      <4>3. repeats'[k] = repeats[k] + 1
        BY <1>2, <3>1
      <4>4. Cardinality(PhotosTaken(k)) \in Nat /\ repeats[k] \in Nat
        BY <1>4, <3>0
      <4>5. Cardinality(PhotosTaken(k)') = Cardinality(PhotosTaken(k))
        BY <4>2
      <4> QED
        BY <4>3, <4>4, <4>5
    <3>2. CASE w \notin committed /\ repeats' = repeats
      <4>1. p \notin PhotosTaken(k)
        BY <2>1, <3>2 DEF PhotosTaken
      <4>2. Cardinality(PhotosTaken(k)') = Cardinality(PhotosTaken(k)) + 1
        BY <1>4, <3>0, <4>1, PhotoSets
      <4> QED
        BY <1>4, <3>0, <3>2, <4>2
    <3> QED
      BY <1>1, <2>2, <3>1, <3>2
  <2>7. CASE k = "snap"
    <3>1. /\ cloud'.snaps = cloud.snaps + 1 /\ cloud'.money = cloud.money
          /\ cloud'.challenges = cloud.challenges
      BY <1>1, <1>2, <2>2, <2>7 DEF Applied, Counted, Account
    <3>2. /\ PhotosTaken("award")' = PhotosTaken("award")
          /\ PhotosTaken("challenge")' = PhotosTaken("challenge")
          /\ repeats'["award"] = repeats["award"]
          /\ repeats'["challenge"] = repeats["challenge"]
      BY <2>4, <2>5, <2>7 DEF Credits
    <3>3. /\ Cardinality(PhotosTaken("snap")') \in Nat /\ repeats'["snap"] \in Nat
          /\ Cardinality(PhotosTaken("snap")') + repeats'["snap"] =
             Cardinality(PhotosTaken("snap")) + repeats["snap"] + 1
      BY <2>6, <2>7 DEF Credits
    <3> QED
      BY <1>2, <1>3, <1>4, <3>1, <3>2, <3>3 DEF AddsUp
  <2>8. CASE k = "award"
    <3>1. /\ cloud'.snaps = cloud.snaps /\ cloud'.money = cloud.money + award[p]
          /\ cloud'.challenges = cloud.challenges
      BY <1>1, <1>2, <2>2, <2>8 DEF Applied, Awarded, Account
    <3>2. /\ PhotosTaken("snap")' = PhotosTaken("snap")
          /\ PhotosTaken("challenge")' = PhotosTaken("challenge")
          /\ repeats'["snap"] = repeats["snap"]
          /\ repeats'["challenge"] = repeats["challenge"]
      BY <2>4, <2>5, <2>8 DEF Credits
    <3>3. Cardinality(PhotosTaken("award")') + repeats'["award"] =
             Cardinality(PhotosTaken("award")) + repeats["award"] + 1
      BY <2>6, <2>8 DEF Credits
    <3> PICK n : n = Cardinality(PhotosTaken("award")) + repeats["award"]
      OBVIOUS
    <3>4. n \in Nat /\ cloud.money <= MaxAward * n
      BY <1>2, <1>3, <1>4
    <3>5. MaxAward * (n + 1) = MaxAward * n + MaxAward /\ MaxAward * n \in Nat
      BY <1>2, <3>4
    <3>6. cloud'.money <= MaxAward * (n + 1)
      BY <1>2, <2>2, <3>1, <3>4, <3>5
    <3> QED
      BY <1>3, <3>1, <3>2, <3>3, <3>6 DEF AddsUp
  <2>9. CASE k = "challenge"
    <3>1. /\ cloud'.snaps = cloud.snaps /\ cloud'.money = cloud.money
          /\ cloud'.challenges = cloud.challenges + 1
      BY <1>1, <1>2, <2>2, <2>9 DEF Applied, Completed, Account
    <3>2. /\ PhotosTaken("award")' = PhotosTaken("award")
          /\ PhotosTaken("snap")' = PhotosTaken("snap")
          /\ repeats'["award"] = repeats["award"] /\ repeats'["snap"] = repeats["snap"]
      BY <2>4, <2>5, <2>9 DEF Credits
    <3>3. /\ Cardinality(PhotosTaken("challenge")') \in Nat /\ repeats'["challenge"] \in Nat
          /\ Cardinality(PhotosTaken("challenge")') + repeats'["challenge"] =
             Cardinality(PhotosTaken("challenge")) + repeats["challenge"] + 1
      BY <2>6, <2>9 DEF Credits
    <3> QED
      BY <1>2, <1>3, <1>4, <3>1, <3>2, <3>3 DEF AddsUp
  <2>10. CASE k = "entry"
    <3>1. /\ cloud'.snaps = cloud.snaps /\ cloud'.money = cloud.money
          /\ cloud'.challenges = cloud.challenges
      BY <1>1, <1>2, <2>2, <2>10 DEF Applied, WithEntry, Account
    <3>2. /\ PhotosTaken("award")' = PhotosTaken("award")
          /\ PhotosTaken("snap")' = PhotosTaken("snap")
          /\ PhotosTaken("challenge")' = PhotosTaken("challenge")
          /\ repeats'["award"] = repeats["award"] /\ repeats'["snap"] = repeats["snap"]
          /\ repeats'["challenge"] = repeats["challenge"]
      BY <2>4, <2>5, <2>10 DEF Credits
    <3> QED
      BY <1>3, <3>1, <3>2 DEF AddsUp
  <2> QED
    BY <2>7, <2>8, <2>9, <2>10 DEF PhotoKinds, Credits
<1> QED
  BY <1>1, <1>6, <1>7, WriteShapes

\* The server takes the queue from its front, also after a lost connection.
LEMMA CommitLedger ==
  ASSUME TypeOK, Ledger, Commit
  PROVE  Ledger'
<1> PICK w : w = writes[answers + 1]
  OBVIOUS
<1>1. /\ w \in Writes /\ committed' = committed \cup {w} /\ writes' = writes
      /\ \/ w \in committed /\ taken' = taken
         \/ /\ w.kind \in Credits => w \notin committed
            /\ answers = taken /\ taken' = taken + 1 /\ taken + 1 \in 1..Len(writes)
  BY CommitFacts
<1>2. /\ Len(writes) \in Nat /\ taken \in 0..Len(writes) /\ taken \in Nat
      /\ astray' = astray
  BY DEF TypeOK, Commit, snap
<1>3. CASE w \in committed /\ taken' = taken
  <2>1. committed' = committed
    BY <1>1, <1>3
  <2> QED
    BY <1>1, <1>2, <1>3, <2>1, CommitAddsUp DEF Ledger, QueueInv, InOrder, Behind
<1>4. CASE /\ w.kind \in Credits => w \notin committed
           /\ answers = taken /\ taken' = taken + 1 /\ taken + 1 \in 1..Len(writes)
  <2>1. w = writes[taken + 1] /\ taken + 1 \in 1..Len(writes)
    BY <1>4
  <2>2. QueueInv'
    <3>1. \A i \in 1..taken + 1 : writes[i] \in committed \cup {w}
      <4>1. \A i \in 1..taken + 1 : i \in 1..taken \/ i = taken + 1
        BY <1>2
      <4> QED
        BY <2>1, <4>1 DEF Ledger, QueueInv
    <3>2. \A i \in taken + 2 .. Len(writes) :
             writes[i].kind \in Credits => writes[i] \notin committed \cup {w}
      <4>1. \A i \in taken + 2 .. Len(writes) :
               i \in Behind(taken) /\ i \in 1..Len(writes) /\ i # taken + 1
        BY <1>2 DEF Behind
      <4> QED
        BY <2>1, <4>1 DEF Ledger, QueueInv
    <3>3. Behind(taken)' = taken + 2 .. Len(writes)
      BY <1>1, <1>2, <1>4 DEF Behind
    <3> QED
      BY <1>1, <1>4, <3>1, <3>2, <3>3 DEF Ledger, QueueInv
  <2>3. InOrder'
    <3> SUFFICES ASSUME NEW k \in {"award", "challenge"}, NEW p \in Photos \ astray
                 PROVE  /\ Op(k, p) \in committed' => Op("snap", p) \in committed'
                        /\ \A i \in 1..Len(writes) : writes[i] = Op(k, p) =>
                              \/ Op("snap", p) \in committed'
                              \/ \E j \in 1..i - 1 : writes[j] = Op("snap", p)
      BY <1>1, <1>2 DEF InOrder
    <3>1. \A i \in 1..Len(writes) : writes[i] = Op(k, p) =>
                              \/ Op("snap", p) \in committed
                              \/ \E j \in 1..i - 1 : writes[j] = Op("snap", p)
      BY DEF Ledger, InOrder
    <3>2. w = Op(k, p) => Op("snap", p) \in committed
      <4>1. \A j \in 1..(taken + 1) - 1 : writes[j] \in committed
        <5>1. \A j \in 1..(taken + 1) - 1 : j \in 1..taken
          BY <1>2
        <5> QED
          BY <5>1 DEF Ledger, QueueInv
      <4> QED
        BY <2>1, <3>1, <4>1
    <3>3. Op(k, p) \in committed => Op("snap", p) \in committed
      BY DEF Ledger, InOrder
    <3> QED
      BY <1>1, <3>1, <3>2, <3>3
  <2> QED
    BY <2>2, <2>3, CommitAddsUp DEF Ledger
<1> QED
  BY <1>1, <1>3, <1>4

\* An answer takes the oldest write off the queue, which the server has.
LEMMA AcknowledgeLedger ==
  ASSUME TypeOK, Ledger, Acknowledge
  PROVE  Ledger' /\ \A l : Issued(l)' = Issued(l)
<1>1. /\ writes \in Seq(Writes) /\ Len(writes) \in Nat /\ taken \in Nat
      /\ taken \in 0..Len(writes) /\ answers \in 0..taken
  BY DEF TypeOK
<1>2. /\ writes' = Tail(writes) /\ taken' = taken - 1 /\ answers > 0
      /\ UNCHANGED <<cloud, committed, repeats, astray>>
  BY DEF Acknowledge, server, snap
<1>3. /\ taken \in 1..Len(writes) /\ taken' \in Nat
      /\ Len(writes') = Len(writes) - 1
      /\ \A i \in 1..Len(writes) - 1 : writes'[i] = writes[i + 1]
      /\ writes' \in Seq(Writes) /\ Len(writes') \in Nat
  BY <1>1, <1>2
<1>4. writes[1] \in committed
  <2>1. 1 \in 1..taken
    BY <1>1, <1>3
  <2> QED
    BY <2>1 DEF Ledger, QueueInv
<1>5. AddsUp'
  BY <1>2 DEF Ledger, AddsUp, PhotosTaken
<1>6. QueueInv'
  <2>1. \A i \in 1..taken' : writes'[i] \in committed
    <3>1. \A i \in 1..taken' : i + 1 \in 1..taken /\ i \in 1..Len(writes) - 1
      BY <1>1, <1>2, <1>3
    <3> QED
      BY <1>3, <3>1 DEF Ledger, QueueInv
  <2>2. \A i \in Behind(taken)' : writes'[i].kind \in Credits => writes'[i] \notin committed
    <3>1. \A i \in Behind(taken)' : i + 1 \in Behind(taken) /\ i \in 1..Len(writes) - 1
      BY <1>1, <1>2, <1>3 DEF Behind
    <3> QED
      BY <1>3, <3>1 DEF Ledger, QueueInv
  <2>3. \A i, j \in 1..Len(writes') :
           writes'[i].kind \in Credits /\ writes'[i] = writes'[j] => i = j
    <3>1. \A i \in 1..Len(writes') :
             i + 1 \in 1..Len(writes) /\ i \in Int /\ writes'[i] = writes[i + 1]
      BY <1>1, <1>3
    <3>2. \A i, j \in 1..Len(writes') :
             writes'[i].kind \in Credits /\ writes'[i] = writes'[j] => i + 1 = j + 1
      BY <3>1 DEF Ledger, QueueInv
    <3>3. \A i, j \in 1..Len(writes') : i + 1 = j + 1 => i = j
      BY <1>3
    <3> QED
      BY <3>2, <3>3
  <2> QED
    BY <1>2, <2>1, <2>2, <2>3 DEF QueueInv
<1>7. InOrder'
  <2> SUFFICES ASSUME NEW k \in {"award", "challenge"}, NEW p \in Photos \ astray
               PROVE  /\ Op(k, p) \in committed => Op("snap", p) \in committed
                      /\ \A i \in 1..Len(writes') : writes'[i] = Op(k, p) =>
                            \/ Op("snap", p) \in committed
                            \/ \E j \in 1..i - 1 : writes'[j] = Op("snap", p)
    BY <1>2 DEF InOrder
  <2>1. Op(k, p) \in committed => Op("snap", p) \in committed
    BY DEF Ledger, InOrder
  <2>2. ASSUME NEW i \in 1..Len(writes'), writes'[i] = Op(k, p),
               Op("snap", p) \notin committed
        PROVE  \E j \in 1..i - 1 : writes'[j] = Op("snap", p)
    <3>1. writes[i + 1] = Op(k, p) /\ i + 1 \in 1..Len(writes) /\ i \in Nat
      BY <1>1, <1>3, <2>2
    <3>2. PICK j \in 1..(i + 1) - 1 : writes[j] = Op("snap", p)
      BY <2>2, <3>1 DEF Ledger, InOrder
    <3>3. j # 1
      BY <1>4, <2>2, <3>2
    <3>4. j - 1 \in 1..i - 1 /\ j - 1 \in 1..Len(writes) - 1 /\ (j - 1) + 1 = j
      BY <1>1, <3>1, <3>3
    <3>5. writes'[j - 1] = writes[j]
      BY <1>3, <3>4
    <3> QED
      BY <3>2, <3>4, <3>5
  <2> QED
    BY <2>1, <2>2
<1>8. \A l : Issued(l)' = Issued(l)
  <2> SUFFICES ASSUME NEW l, NEW q \in Photos
               PROVE  q \in Issued(l)' <=> q \in Issued(l)
    <3>1. \A l : Issued(l) \subseteq Photos /\ Issued(l)' \subseteq Photos
      BY DEF Issued, PhotosTaken, Queued
    <3> QED
      BY <3>1
  <2>1. q \in PhotosTaken(l)' <=> Op(l, q) \in committed
    BY <1>2 DEF PhotosTaken
  <2>2. q \in PhotosTaken(l) <=> Op(l, q) \in committed
    BY DEF PhotosTaken
  <2>3. Behind(0) = 1..Len(writes) /\ Behind(0)' = 1..Len(writes) - 1
    BY <1>1, <1>3 DEF Behind
  <2>4. ASSUME NEW i \in Behind(0)', writes'[i] = Op(l, q)
        PROVE  q \in Queued(l, 0)
    <3>1. writes[i + 1] = Op(l, q) /\ i + 1 \in Behind(0)
      BY <1>1, <1>3, <2>3, <2>4
    <3> QED
      BY <3>1 DEF Queued
  <2>5. ASSUME NEW i \in Behind(0), writes[i] = Op(l, q), Op(l, q) \notin committed
        PROVE  q \in Queued(l, 0)'
    <3>1. i # 1
      BY <1>4, <2>5
    <3>2. i - 1 \in Behind(0)' /\ (i - 1) + 1 = i /\ i - 1 \in 1..Len(writes) - 1
      BY <1>1, <2>3, <3>1
    <3>3. writes'[i - 1] = Op(l, q)
      BY <1>3, <2>5, <3>2
    <3> QED
      BY <3>2, <3>3 DEF Queued
  <2>6. q \in Queued(l, 0)' => q \in Queued(l, 0)
    BY <2>4 DEF Queued
  <2>7. q \in Queued(l, 0) /\ Op(l, q) \notin committed => q \in Queued(l, 0)'
    BY <2>5 DEF Queued
  <2> QED
    BY <2>1, <2>2, <2>6, <2>7 DEF Issued
<1> QED
  BY <1>5, <1>6, <1>7, <1>8 DEF Ledger

\* A step that touches neither the queue nor what the server has taken.
LEMMA LedgerSame ==
  ASSUME Ledger, UNCHANGED <<writes, taken, cloud, committed, repeats, astray>>
  PROVE  Ledger' /\ \A l : Issued(l)' = Issued(l)
  BY DEF Ledger, QueueInv, InOrder, AddsUp, Behind, Issued, Queued, PhotosTaken

(***************************************************************************)
(* A photo's writes and how far its handlers are                           *)
(***************************************************************************)
LEMMA LedgerParts == LedgerInv <=> Ledger /\ Progress
  BY DEF LedgerInv, Ledger, Progress

\* A step that touches no photo and issues nothing.
LEMMA ProgressSame ==
  ASSUME Progress, UNCHANGED <<job, upload, query, award, blobs, astray>>,
         \A l \in PhotoKinds : Issued(l)' = Issued(l),
         cloud'.entries \subseteq cloud.entries \cup Issued("entry")
  PROVE  Progress'
<1>1. /\ Issued("snap")' = Issued("snap") /\ Issued("award")' = Issued("award")
      /\ Issued("challenge")' = Issued("challenge") /\ Issued("entry")' = Issued("entry")
  BY DEF PhotoKinds, Credits
<1>2. IssuedBy'
  BY <1>1 DEF Progress, IssuedBy
<1>3. Stages' /\ Serial'
  BY DEF Progress, Stages, Serial
<1>4. SnapsKept'
  BY <1>1 DEF Progress, SnapsKept
<1> QED
  BY <1>2, <1>3, <1>4 DEF Progress

\* The views, the user and the mail sheet: no photo moves.
LEMMA LedgerMain ==
  ASSUME TypeOK, LedgerInv, Launch \/ Navigate \/ Session \/ Withdrawal \/ BumpLocal
  PROVE  LedgerInv'
<1> USE DEF store, snap, ui, world, server, firestore, link
<1>0. Ledger /\ Progress
  BY LedgerParts
<1>1. /\ UNCHANGED <<job, upload, query, award, blobs, astray>>
      /\ UNCHANGED <<taken, cloud, committed, repeats>>
  BY DEF Launch, Navigate, OpenChallenge, BackToList, OpenProfile, Session, Press,
     PressSignIn, SignInRefused, SignInWorked, SignInCallback, GetUserSnapshot,
     GetUserError, GetUserCallback, FinishPermissions, SignOut, RemoveKeys, Withdrawal,
     RequestWithdrawal, MailNotSent, MailSent, ClearRemote, BumpLocal
<1>2. writes' = writes \/ Write(Clear)
  BY DEF Launch, Navigate, OpenChallenge, BackToList, OpenProfile, Session, Press,
     PressSignIn, SignInRefused, SignInWorked, SignInCallback, GetUserSnapshot,
     GetUserError, GetUserCallback, FinishPermissions, SignOut, RemoveKeys, Withdrawal,
     RequestWithdrawal, MailNotSent, MailSent, ClearRemote, BumpLocal
<1>3. CASE writes' = writes
  <2>1. Ledger' /\ \A l : Issued(l)' = Issued(l)
    BY <1>0, <1>1, <1>3, LedgerSame
  <2>2. Progress'
    BY <1>0, <1>1, <2>1, ProgressSame
  <2> QED
    BY <2>1, <2>2 DEF LedgerInv, Ledger, Progress
<1>4. CASE Write(Clear)
  <2>1. \A l \in PhotoKinds : Issued(l)' = Issued(l)
    BY <1>1, <1>4, ClearIssues
  <2>2. \A k \in Credits, p \in Photos : Clear # Op(k, p)
    BY OpFacts DEF PhotoKinds
  <2>3. Clear \in Writes /\ "award" \in Credits /\ "challenge" \in Credits
    BY OpFacts DEF Credits
  <2>4. Ledger'
    BY <1>0, <1>1, <1>4, <2>2, <2>3, WriteLedger
  <2>5. Progress'
    BY <1>0, <1>1, <2>1, ProgressSame
  <2> QED
    BY <2>4, <2>5 DEF LedgerInv, Ledger, Progress
<1> QED
  BY <1>2, <1>3, <1>4

\* The worker: only a commit changes the account, and an entry it adds was issued.
LEMMA LedgerWorker ==
  ASSUME TypeOK, LedgerInv, Worker
  PROVE  LedgerInv'
<1> USE DEF store, snap, ui, world, server, firestore, link
<1>0. Ledger /\ Progress
  BY LedgerParts
<1>1. UNCHANGED <<job, upload, query, award, blobs, astray>>
  BY DEF Worker, Commit, Acknowledge, LoseConnection, HandleCredentialChange
<1>2. Ledger' /\ \A l : Issued(l)' = Issued(l)
  <2>1. CASE Commit
    BY <1>0, <2>1, CommitLedger, CommitIssues
  <2>2. CASE Acknowledge
    BY <1>0, <2>2, AcknowledgeLedger
  <2>3. CASE LoseConnection \/ HandleCredentialChange
    <3>1. UNCHANGED <<writes, taken, cloud, committed, repeats, astray>>
      BY <2>3 DEF LoseConnection, HandleCredentialChange, QueueKept
    <3> QED
      BY <1>0, <3>1, LedgerSame
  <2> QED
    BY <2>1, <2>2, <2>3 DEF Worker
<1>3. cloud'.entries \subseteq cloud.entries \cup Issued("entry")
  <2>1. CASE Commit
    <3> PICK w : w = writes[answers + 1]
      OBVIOUS
    <3>1. /\ w \in Writes /\ cloud' = Applied(w, cloud)
          /\ cloud \in Account
      BY <1>0, <2>1, CommitFacts DEF TypeOK
    <3>2. CASE w = Clear
      BY <3>1, <3>2, OpFacts DEF Applied, Cleared, Account
    <3>3. ASSUME NEW k \in PhotoKinds, NEW p \in Photos, w = Op(k, p)
          PROVE  cloud'.entries \subseteq cloud.entries \cup Issued("entry")
      <4>1. w.kind = k /\ w.photo = p
        BY <3>3, OpFacts
      <4>2. CASE k = "entry"
        <5>1. answers + 1 \in Behind(0)
          BY <2>1 DEF TypeOK, Commit, Behind
        <5>2. p \in Issued("entry")
          BY <3>3, <4>2, <5>1 DEF Issued, Queued
        <5>3. cloud'.entries = cloud.entries \cup {p}
          BY <3>1, <4>1, <4>2 DEF Applied, WithEntry, Account
        <5> QED
          BY <5>2, <5>3
      <4>3. CASE k = "snap"
        BY <3>1, <4>1, <4>3 DEF Applied, Counted, Account
      <4>4. CASE k = "award"
        BY <3>1, <4>1, <4>4 DEF Applied, Awarded, Account
      <4>5. CASE k = "challenge"
        BY <3>1, <4>1, <4>5 DEF Applied, Completed, Account
      <4> QED
        BY <4>2, <4>3, <4>4, <4>5 DEF PhotoKinds, Credits
    <3> QED
      BY <3>1, <3>2, <3>3, WriteShapes
  <2>2. CASE ~Commit
    BY <2>2 DEF Worker, Acknowledge, LoseConnection, HandleCredentialChange
  <2> QED
    BY <2>1, <2>2
<1>4. Progress'
  BY <1>0, <1>1, <1>2, <1>3, ProgressSame
<1> QED
  BY <1>2, <1>4 DEF LedgerInv, Ledger, Progress

\* Statements of the completion handler that write nothing for the account, and the
\* outcomes of a scan but its success.
LEMMA LedgerJobStep ==
  ASSUME TypeOK, LedgerInv, NEW p \in Photos,
         NEW from \in JobAt, NEW to \in JobAt,
         \/ from = "new" /\ to \in {"stuck", "rejected", "scanning"}
         \/ from = "scanning" /\ to = "rejected"
         \/ from \in {"readSnaps", "writeSnaps", "readMoney", "writeMoney"} /\
            to \in {"writeSnaps", "readMoney", "writeMoney", "countSnap"},
         job[p] = from, job' = [job EXCEPT ![p] = to],
         UNCHANGED <<writes, taken, cloud, committed, repeats, astray>>,
         UNCHANGED <<upload, query, award, blobs>>
  PROVE  LedgerInv'
<1>1. Ledger /\ Progress
  BY LedgerParts
<1>2. Ledger' /\ \A l : Issued(l)' = Issued(l)
  BY <1>1, LedgerSame
<1>3. job'[p] = to /\ \A q \in Photos : q # p => job'[q] = job[q]
  BY DEF TypeOK
<1>4. IssuedBy'
  BY <1>1, <1>2, <1>3 DEF Progress, IssuedBy
<1>5. Stages' /\ Serial'
  BY <1>1, <1>3 DEF Progress, Stages, Serial, Handler, InFlight
<1>6. SnapsKept'
  BY <1>1, <1>2, <1>3 DEF Progress, SnapsKept
<1> QED
  BY <1>2, <1>4, <1>5, <1>6 DEF LedgerInv, Ledger, Progress

\* completion(true): the upload begins and the award is drawn.
LEMMA LedgerWorked ==
  ASSUME TypeOK, LedgerInv, NEW p \in Photos, PlantScannerWorked(p)
  PROVE  LedgerInv'
<1>1. Ledger /\ Progress
  BY LedgerParts
<1>2. PICK a \in 1..MaxAward : award' = [award EXCEPT ![p] = a]
  BY DEF PlantScannerWorked
<1>3. /\ job[p] = "scanning" /\ QueueFree
      /\ job' = [job EXCEPT ![p] = "readSnaps"]
      /\ upload' = [upload EXCEPT ![p] = "putting"]
      /\ UNCHANGED <<writes, taken, cloud, committed, repeats, astray, query, blobs>>
  BY DEF PlantScannerWorked, store, server, firestore, link
<1>4. Ledger' /\ \A l : Issued(l)' = Issued(l)
  BY <1>1, <1>3, LedgerSame
<1>5. /\ job'[p] = "readSnaps" /\ upload'[p] = "putting" /\ award'[p] # 0
      /\ \A q \in Photos : q # p => /\ job'[q] = job[q] /\ upload'[q] = upload[q]
                                    /\ award'[q] = award[q]
  BY <1>2, <1>3, AwardAssumption DEF TypeOK
<1>6. IssuedBy'
  BY <1>1, <1>3, <1>4, <1>5 DEF Progress, IssuedBy
<1>7. Stages'
  BY <1>1, <1>3, <1>5 DEF Progress, Stages, Handler, InFlight
<1>8. Serial'
  BY <1>1, <1>3, <1>5 DEF Progress, Serial, QueueFree
<1>9. SnapsKept'
  BY <1>1, <1>3, <1>4, <1>5 DEF Progress, SnapsKept
<1> QED
  BY <1>4, <1>6, <1>7, <1>8, <1>9 DEF LedgerInv, Ledger, Progress

\* The increment of snaps is issued, or recorded as written for nobody.
LEMMA LedgerCountSnap ==
  ASSUME TypeOK, LedgerInv, NEW p \in Photos, CountSnap(p)
  PROVE  LedgerInv'
<1>1. Ledger /\ Progress
  BY LedgerParts
<1>2. /\ job[p] = "countSnap" /\ job' = [job EXCEPT ![p] = "awardMoney"]
      /\ Write(Op("snap", p))
      /\ astray' = IF Filed THEN astray ELSE astray \cup {p}
      /\ UNCHANGED <<taken, cloud, committed, repeats, upload, query, award, blobs>>
  BY DEF CountSnap, Step, server, link
<1>3. "snap" \in PhotoKinds /\ "snap" \in Credits
  BY DEF PhotoKinds, Credits
<1>4. \A l : Issued(l)' = Issued(l) \cup (IF Filed /\ l = "snap" THEN {p} ELSE {})
  BY <1>2, <1>3, WriteIssues
<1>5. p \notin Issued("snap") \cup astray
  BY <1>1, <1>2 DEF Progress, IssuedBy
<1>6. Ledger'
  <2>1. Op("snap", p) \in Writes
    BY <1>3, OpFacts
  <2>2. \A k, q : Op("snap", p) = Op(k, q) => k = "snap" /\ q = p
    BY OpFacts
  <2>3. /\ \A k \in Credits, q \in Photos : Op("snap", p) = Op(k, q) => q \notin Issued(k)
        /\ \A k \in {"award", "challenge"}, q \in Photos : Op("snap", p) # Op(k, q)
    BY <1>5, <2>2
  <2>4. astray \subseteq astray'
    BY <1>2
  <2> QED
    BY <1>1, <1>2, <2>1, <2>3, <2>4, WriteLedger
<1>7. job'[p] = "awardMoney" /\ \A q \in Photos : q # p => job'[q] = job[q]
  BY <1>2 DEF TypeOK
<1>8. /\ Issued("award")' = Issued("award") /\ Issued("challenge")' = Issued("challenge")
      /\ Issued("entry")' = Issued("entry")
      /\ Issued("snap")' = IF Filed THEN Issued("snap") \cup {p} ELSE Issued("snap")
  BY <1>4
<1>9. IssuedBy'
  BY <1>1, <1>2, <1>5, <1>7, <1>8 DEF Progress, IssuedBy, Stages, Handler
<1>10. Stages' /\ Serial'
  BY <1>1, <1>2, <1>7 DEF Progress, Stages, Serial, Handler, InFlight
<1>11. SnapsKept'
  BY <1>1, <1>2, <1>7, <1>8 DEF Progress, SnapsKept
<1> QED
  BY <1>6, <1>9, <1>10, <1>11 DEF LedgerInv, Ledger, Progress

\* The award is issued behind its snap.
LEMMA LedgerAwardMoney ==
  ASSUME TypeOK, LedgerInv, NEW p \in Photos, AwardMoney(p)
  PROVE  LedgerInv'
<1>1. Ledger /\ Progress
  BY LedgerParts
<1>2. /\ job[p] = "awardMoney" /\ job' = [job EXCEPT ![p] = "ask"]
      /\ Write(Op("award", p))
      /\ UNCHANGED <<taken, cloud, committed, repeats, upload, query, award, blobs, astray>>
  BY DEF AwardMoney, Step, server, link
<1>3. "award" \in PhotoKinds /\ "award" \in Credits
  BY DEF PhotoKinds, Credits
<1>4. \A l : Issued(l)' = Issued(l) \cup (IF Filed /\ l = "award" THEN {p} ELSE {})
  BY <1>2, <1>3, WriteIssues
<1>5. p \notin Issued("award") /\ p \in Issued("snap") \cup astray
  BY <1>1, <1>2 DEF Progress, IssuedBy, SnapsKept
<1>6. Ledger'
  <2>1. Op("award", p) \in Writes
    BY <1>3, OpFacts
  <2>2. \A k, q : Op("award", p) = Op(k, q) => k = "award" /\ q = p
    BY OpFacts
  <2>3. /\ \A k \in Credits, q \in Photos : Op("award", p) = Op(k, q) => q \notin Issued(k)
        /\ \A k \in {"award", "challenge"}, q \in Photos :
              Op("award", p) = Op(k, q) => q \in Issued("snap") \cup astray
    BY <1>5, <2>2
  <2> QED
    BY <1>1, <1>2, <2>1, <2>3, WriteLedger
<1>7. job'[p] = "ask" /\ \A q \in Photos : q # p => job'[q] = job[q]
  BY <1>2 DEF TypeOK
<1>8. /\ Issued("snap")' = Issued("snap") /\ Issued("challenge")' = Issued("challenge")
      /\ Issued("entry")' = Issued("entry")
      /\ Issued("award")' \subseteq Issued("award") \cup {p}
  BY <1>4
<1>9. IssuedBy'
  BY <1>1, <1>2, <1>7, <1>8 DEF Progress, IssuedBy
<1>10. Stages' /\ Serial'
  BY <1>1, <1>2, <1>7 DEF Progress, Stages, Serial, Handler, InFlight
<1>11. SnapsKept'
  BY <1>1, <1>2, <1>7, <1>8 DEF Progress, SnapsKept
<1> QED
  BY <1>6, <1>9, <1>10, <1>11 DEF LedgerInv, Ledger, Progress

\* The handler ends with its question, which nobody has asked for this photo before.
LEMMA LedgerAskEntries ==
  ASSUME TypeOK, LedgerInv, NEW p \in Photos, AskEntries(p)
  PROVE  LedgerInv'
<1>1. Ledger /\ Progress
  BY LedgerParts
<1>2. /\ job[p] = "ask" /\ job' = [job EXCEPT ![p] = "done"]
      /\ query' = [query EXCEPT ![p] = "asked"]
      /\ UNCHANGED <<writes, taken, cloud, committed, repeats, upload, award, blobs, astray>>
  BY DEF AskEntries, Step, server, link
<1>3. Ledger' /\ \A l : Issued(l)' = Issued(l)
  BY <1>1, <1>2, LedgerSame
<1>4. /\ job'[p] = "done" /\ query'[p] = "asked"
      /\ \A q \in Photos : q # p => job'[q] = job[q] /\ query'[q] = query[q]
  BY <1>2 DEF TypeOK
<1>5. p \notin Issued("challenge")
  BY <1>1, <1>2 DEF Progress, IssuedBy
<1>6. IssuedBy'
  BY <1>1, <1>2, <1>3, <1>4, <1>5 DEF Progress, IssuedBy
<1>7. Stages' /\ Serial'
  BY <1>1, <1>2, <1>4 DEF Progress, Stages, Serial, Handler, InFlight
<1>8. SnapsKept'
  BY <1>1, <1>2, <1>3, <1>4 DEF Progress, SnapsKept
<1> QED
  BY <1>3, <1>6, <1>7, <1>8 DEF LedgerInv, Ledger, Progress

\* putData: the photo is stored, or not.
LEMMA LedgerPutData ==
  ASSUME TypeOK, LedgerInv, NEW p \in Photos, PutData(p)
  PROVE  LedgerInv'
<1>1. Ledger /\ Progress
  BY LedgerParts
<1>2. PICK to \in {"stored", "failed"} :
        /\ upload[p] = "putting" /\ upload' = [upload EXCEPT ![p] = to]
        /\ blobs \subseteq blobs' /\ (to = "stored" => p \in blobs')
        /\ UNCHANGED <<writes, taken, cloud, committed, repeats, astray>>
        /\ UNCHANGED <<job, query, award>>
  BY DEF PutData, BlobStored, UploadFailed, server, firestore, link, snap
<1>3. Ledger' /\ \A l : Issued(l)' = Issued(l)
  BY <1>1, <1>2, LedgerSame
<1>4. upload'[p] = to /\ \A q \in Photos : q # p => upload'[q] = upload[q]
  BY <1>2 DEF TypeOK
<1>5. IssuedBy'
  BY <1>1, <1>2, <1>3, <1>4 DEF Progress, IssuedBy
<1>6. Stages' /\ Serial'
  BY <1>1, <1>2, <1>4 DEF Progress, Stages, Serial
<1>7. SnapsKept'
  BY <1>1, <1>2, <1>3 DEF Progress, SnapsKept
<1> QED
  BY <1>3, <1>5, <1>6, <1>7 DEF LedgerInv, Ledger, Progress

\* uploadEntries: the entry is issued for a photo that Storage holds.
LEMMA LedgerUploadEntries ==
  ASSUME TypeOK, LedgerInv, NEW p \in Photos, UploadEntries(p)
  PROVE  LedgerInv'
<1>1. Ledger /\ Progress
  BY LedgerParts
<1>2. /\ upload[p] = "stored" /\ upload' = [upload EXCEPT ![p] = "done"]
      /\ Write(Op("entry", p)) \/ writes' = writes
      /\ UNCHANGED <<taken, cloud, committed, repeats, astray>>
      /\ UNCHANGED <<job, query, award, blobs>>
  BY DEF UploadEntries, PutReported, server, link, snap
<1>3. p \in blobs
  BY <1>1, <1>2 DEF Progress, Stages
<1>4. /\ Ledger'
      /\ \A l \in Credits : Issued(l)' = Issued(l)
      /\ Issued("entry")' \subseteq Issued("entry") \cup {p}
  <2>1. CASE writes' = writes
    BY <1>1, <1>2, <2>1, LedgerSame
  <2>2. CASE Write(Op("entry", p))
    <3>1. "entry" \in PhotoKinds /\ "entry" \notin Credits
          /\ {"award", "challenge"} \subseteq Credits
      BY DEF PhotoKinds, Credits
    <3>2. \A l : Issued(l)' = Issued(l) \cup (IF Filed /\ l = "entry" THEN {p} ELSE {})
      BY <1>2, <2>2, <3>1, WriteIssues
    <3>3. Op("entry", p) \in Writes /\ \A k \in Credits, q \in Photos : Op("entry", p) # Op(k, q)
      BY <3>1, OpFacts
    <3>4. Ledger'
      BY <1>1, <1>2, <2>2, <3>1, <3>3, WriteLedger
    <3> QED
      BY <3>1, <3>2, <3>4
  <2> QED
    BY <1>2, <2>1, <2>2
<1>5. upload'[p] = "done" /\ \A q \in Photos : q # p => upload'[q] = upload[q]
  BY <1>2 DEF TypeOK
<1>6. /\ Issued("snap")' = Issued("snap") /\ Issued("award")' = Issued("award")
      /\ Issued("challenge")' = Issued("challenge")
  BY <1>4 DEF Credits
<1>7. IssuedBy'
  BY <1>1, <1>2, <1>3, <1>4, <1>5, <1>6 DEF Progress, IssuedBy
<1>8. Stages' /\ Serial'
  BY <1>1, <1>2, <1>5 DEF Progress, Stages, Serial
<1>9. SnapsKept'
  BY <1>1, <1>2, <1>6 DEF Progress, SnapsKept
<1> QED
  BY <1>4, <1>7, <1>8, <1>9 DEF LedgerInv, Ledger, Progress

\* The answer to the question about entries.
LEMMA LedgerGetEntries ==
  ASSUME TypeOK, LedgerInv, NEW p \in Photos, GetEntries(p)
  PROVE  LedgerInv'
<1>1. Ledger /\ Progress
  BY LedgerParts
<1>2. PICK to \in {"seen", "unseen", "lost"} :
        /\ query[p] = "asked" /\ query' = [query EXCEPT ![p] = to]
        /\ UNCHANGED <<writes, taken, cloud, committed, repeats, astray>>
        /\ UNCHANGED <<job, upload, award, blobs>>
  BY DEF GetEntries, EntriesSnapshot, EntriesError, server, firestore, link, snap
<1>3. Ledger' /\ \A l : Issued(l)' = Issued(l)
  BY <1>1, <1>2, LedgerSame
<1>4. query'[p] = to /\ \A q \in Photos : q # p => query'[q] = query[q]
  BY <1>2 DEF TypeOK
<1>5. IssuedBy'
  BY <1>1, <1>2, <1>3, <1>4 DEF Progress, IssuedBy
<1>6. Stages' /\ Serial'
  BY <1>1, <1>2, <1>4 DEF Progress, Stages, Serial, InFlight
<1>7. SnapsKept'
  BY <1>1, <1>2, <1>3 DEF Progress, SnapsKept
<1> QED
  BY <1>3, <1>5, <1>6, <1>7 DEF LedgerInv, Ledger, Progress

\* Its callback: a challenge is issued at most once, and behind its snap.
LEMMA LedgerEntriesCallback ==
  ASSUME TypeOK, LedgerInv, NEW p \in Photos, EntriesCallback(p)
  PROVE  LedgerInv'
<1>1. Ledger /\ Progress
  BY LedgerParts
<1>2. /\ query[p] \in {"seen", "unseen"} /\ query' = [query EXCEPT ![p] = "done"]
      /\ Write(Op("challenge", p)) \/ writes' = writes
      /\ UNCHANGED <<taken, cloud, committed, repeats, astray>>
      /\ UNCHANGED <<job, upload, award, blobs>>
  BY DEF EntriesCallback, server, link, snap
<1>3. job[p] = "done" /\ p \notin Issued("challenge") /\ p \in Issued("snap") \cup astray
  BY <1>1, <1>2 DEF Progress, Stages, InFlight, IssuedBy, SnapsKept
<1>4. /\ Ledger'
      /\ \A l \in {"snap", "award", "entry"} : Issued(l)' = Issued(l)
      /\ Issued("challenge")' \subseteq Issued("challenge") \cup {p}
  <2>1. CASE writes' = writes
    BY <1>1, <1>2, <2>1, LedgerSame
  <2>2. CASE Write(Op("challenge", p))
    <3>1. "challenge" \in PhotoKinds /\ "challenge" \in Credits
      BY DEF PhotoKinds, Credits
    <3>2. \A l : Issued(l)' = Issued(l) \cup (IF Filed /\ l = "challenge" THEN {p} ELSE {})
      BY <1>2, <2>2, <3>1, WriteIssues
    <3>3. \A k, q : Op("challenge", p) = Op(k, q) => k = "challenge" /\ q = p
      BY OpFacts
    <3>4. /\ \A k \in Credits, q \in Photos :
                Op("challenge", p) = Op(k, q) => q \notin Issued(k)
          /\ \A k \in {"award", "challenge"}, q \in Photos :
                Op("challenge", p) = Op(k, q) => q \in Issued("snap") \cup astray
          /\ Op("challenge", p) \in Writes
      BY <1>3, <3>1, <3>3, OpFacts
    <3>5. Ledger'
      BY <1>1, <1>2, <2>2, <3>4, WriteLedger
    <3> QED
      BY <3>2, <3>5
  <2> QED
    BY <1>2, <2>1, <2>2
<1>5. query'[p] = "done" /\ \A q \in Photos : q # p => query'[q] = query[q]
  BY <1>2 DEF TypeOK
<1>6. IssuedBy'
  BY <1>1, <1>2, <1>3, <1>4, <1>5 DEF Progress, IssuedBy
<1>7. Stages' /\ Serial'
  BY <1>1, <1>2, <1>5 DEF Progress, Stages, Serial, InFlight
<1>8. SnapsKept'
  BY <1>1, <1>2, <1>4 DEF Progress, SnapsKept
<1> QED
  BY <1>4, <1>6, <1>7, <1>8 DEF LedgerInv, Ledger, Progress

\* A crash ends what is under way and leaves the queue and the server alone.
LEMMA LedgerCrash ==
  ASSUME TypeOK, LedgerInv, Crash
  PROVE  LedgerInv'
<1>1. Ledger /\ Progress
  BY LedgerParts
<1>2. UNCHANGED <<writes, taken, cloud, committed, repeats, astray, award, blobs>>
  BY DEF Crash, server
<1>3. Ledger' /\ \A l : Issued(l)' = Issued(l)
  BY <1>1, <1>2, LedgerSame
<1>4. \A q \in Photos :
        /\ job'[q] = IF job[q] \in {"new", "rejected", "done"} THEN job[q] ELSE "dead"
        /\ upload'[q] = IF upload[q] \in {"putting", "stored"} THEN "failed" ELSE upload[q]
        /\ query'[q] = IF query[q] \in {"asked", "seen", "unseen"} THEN "lost" ELSE query[q]
  BY DEF Crash
<1>5. IssuedBy'
  BY <1>1, <1>2, <1>3, <1>4 DEF Progress, IssuedBy
<1>6. Stages' /\ Serial'
  BY <1>1, <1>2, <1>4 DEF Progress, Stages, Serial, Handler, InFlight
<1>7. SnapsKept'
  BY <1>1, <1>2, <1>3, <1>4 DEF Progress, SnapsKept
<1> QED
  BY <1>3, <1>5, <1>6, <1>7 DEF LedgerInv, Ledger, Progress

\* An account that nothing has happened to yet.
LEMMA LedgerInit == Init => LedgerInv
<1> SUFFICES ASSUME Init PROVE LedgerInv
  OBVIOUS
<1>1. /\ cloud = [snaps |-> 0, money |-> 0, challenges |-> 0, entries |-> {}]
      /\ writes = <<>> /\ taken = 0 /\ committed = {} /\ astray = {}
      /\ repeats = [k \in Credits |-> 0] /\ Len(writes) = 0
  BY DEF Init
<1>2. \A k : PhotosTaken(k) = {} /\ Issued(k) = {}
  BY <1>1 DEF Issued, PhotosTaken, Queued, Behind
<1>3. Cardinality({}) = 0
  BY FS_EmptySet
<1>4. QueueInv /\ InOrder
  BY <1>1 DEF QueueInv, InOrder, Behind
<1>5. AddsUp
  <2>1. /\ repeats["snap"] = 0 /\ repeats["award"] = 0 /\ repeats["challenge"] = 0
        /\ cloud.snaps = 0 /\ cloud.money = 0 /\ cloud.challenges = 0
    BY <1>1 DEF Credits
  <2>2. \A k : Cardinality(PhotosTaken(k)) = 0
    BY <1>2, <1>3
  <2>3. 0 = 0 + 0 /\ 0 <= MaxAward * (0 + 0)
    BY AwardAssumption
  <2> QED
    BY <2>1, <2>2, <2>3 DEF AddsUp
<1>6. IssuedBy
  BY <1>1, <1>2 DEF IssuedBy
<1>7. Stages /\ Serial /\ SnapsKept
  BY DEF Init, Stages, Serial, SnapsKept, Handler, InFlight
<1> QED
  BY <1>4, <1>5, <1>6, <1>7 DEF LedgerInv

\* Every step of the device keeps the invariant.
LEMMA LedgerNext == TypeOK /\ LedgerInv /\ [Next]_vars => LedgerInv'
<1> SUFFICES ASSUME TypeOK, LedgerInv, [Next]_vars PROVE LedgerInv'
  OBVIOUS
<1>1. CASE Launch \/ Navigate \/ Session \/ Withdrawal \/ BumpLocal
  BY <1>1, LedgerMain
<1>2. CASE Worker
  BY <1>2, LedgerWorker
<1>3. CASE Crash
  BY <1>3, LedgerCrash
<1>4. ASSUME NEW p \in Photos, CapturePhoto(p) \/ PlantScannerFailed(p)
      PROVE  LedgerInv'
  <2>1. /\ UNCHANGED <<writes, taken, cloud, committed, repeats, astray>>
        /\ UNCHANGED <<upload, query, award, blobs>>
    BY <1>4 DEF CapturePhoto, PlantScannerFailed, server, firestore, link
  <2>2. {"new", "stuck", "rejected", "scanning"} \subseteq JobAt
    BY DEF JobAt
  <2>3. CASE CapturePhoto(p)
    <3>1. /\ job[p] = "new"
          /\ \/ job' = [job EXCEPT ![p] = "stuck"] \/ job' = [job EXCEPT ![p] = "rejected"]
             \/ job' = [job EXCEPT ![p] = "scanning"]
      BY <2>3 DEF CapturePhoto
    <3> QED
      BY <2>1, <2>2, <3>1, LedgerJobStep
  <2>4. CASE PlantScannerFailed(p)
    <3>1. job[p] = "scanning" /\ job' = [job EXCEPT ![p] = "rejected"]
      BY <2>4 DEF PlantScannerFailed
    <3> QED
      BY <2>1, <2>2, <3>1, LedgerJobStep
  <2> QED
    BY <1>4, <2>3, <2>4
<1>5. ASSUME NEW p \in Photos, ReadSnaps(p) \/ WriteSnaps(p) \/ ReadMoney(p) \/ WriteMoney(p)
      PROVE  LedgerInv'
  <2>1. PICK from \in {"readSnaps", "writeSnaps", "readMoney", "writeMoney"},
             to \in {"writeSnaps", "readMoney", "writeMoney", "countSnap"} :
          job[p] = from /\ job' = [job EXCEPT ![p] = to]
    BY <1>5 DEF ReadSnaps, WriteSnaps, ReadMoney, WriteMoney, Step
  <2>2. /\ UNCHANGED <<writes, taken, cloud, committed, repeats, astray>>
        /\ UNCHANGED <<upload, query, award, blobs>>
    BY <1>5 DEF ReadSnaps, WriteSnaps, ReadMoney, WriteMoney, Step, server, link
  <2>3. from \in JobAt /\ to \in JobAt
    BY DEF JobAt, Handler
  <2> QED
    BY <2>1, <2>2, <2>3, LedgerJobStep
<1>6. ASSUME NEW p \in Photos,
             \/ PlantScannerWorked(p) \/ CountSnap(p) \/ AwardMoney(p) \/ AskEntries(p)
             \/ PutData(p) \/ UploadEntries(p) \/ GetEntries(p) \/ EntriesCallback(p)
      PROVE  LedgerInv'
  BY <1>6, LedgerWorked, LedgerCountSnap, LedgerAwardMoney, LedgerAskEntries, LedgerPutData,
     LedgerUploadEntries, LedgerGetEntries, LedgerEntriesCallback
<1>7. CASE UNCHANGED vars
  <2>1. UNCHANGED <<job, upload, query, award, blobs, writes, taken, cloud, committed,
                    repeats, astray>>
    BY <1>7 DEF vars, server, firestore, link, snap
  <2>2. Ledger' /\ \A l : Issued(l)' = Issued(l)
    BY <2>1, LedgerParts, LedgerSame
  <2>3. Progress'
    BY <2>1, <2>2, LedgerParts, ProgressSame
  <2> QED
    BY <2>2, <2>3 DEF LedgerInv, Ledger, Progress
<1> QED
  BY <1>1, <1>2, <1>3, <1>4, <1>5, <1>6, <1>7 DEF Next, ScanResult, Completion

\* While the threads interleave, sign-in answers come late, connections break and the
\* process is restarted, every write of a photo is made once, goes behind its snap and
\* is not lost, and the server's numbers are those of the writes it took.
THEOREM LedgerInvariant == Spec => []LedgerInv
<1> QED
  BY LedgerInit, LedgerNext, TypeCorrect, PTL DEF Spec

\* The photos that earn or complete are among those counted or astray.
LEMMA CreditsInOrder ==
  ASSUME TypeOK, LedgerInv
  PROVE  /\ \A k : PhotosTaken(k) \in SUBSET Photos
         /\ astray \in SUBSET Photos
         /\ PhotosTaken("award") \subseteq PhotosTaken("snap") \cup astray
         /\ PhotosTaken("challenge") \subseteq PhotosTaken("snap") \cup astray
  BY DEF TypeOK, LedgerInv, InOrder, PhotosTaken

\* The account never completes more challenges than it counts snaps, but for photos
\* whose snap was written for nobody and for increments taken again: EntriesCallback's
\* write goes behind CountSnap's, whoever is signed in when it runs.
THEOREM ChallengesBounded == Spec => []ChallengesWithinSnaps
<1>1. TypeOK /\ LedgerInv => ChallengesWithinSnaps
  <2> SUFFICES ASSUME TypeOK, LedgerInv PROVE ChallengesWithinSnaps
    OBVIOUS
  <2> PICK S, C : S = PhotosTaken("snap") /\ C = PhotosTaken("challenge")
    OBVIOUS
  <2>1. /\ S \in SUBSET Photos /\ C \in SUBSET Photos /\ astray \in SUBSET Photos
        /\ S \cup astray \in SUBSET Photos /\ C \subseteq S \cup astray
    BY CreditsInOrder
  <2>2. /\ Cardinality(C) <= Cardinality(S \cup astray)
        /\ Cardinality(S \cup astray) <= Cardinality(S) + Cardinality(astray)
        /\ Cardinality(C) \in Nat /\ Cardinality(S) \in Nat /\ Cardinality(astray) \in Nat
        /\ Cardinality(S \cup astray) \in Nat
    BY <2>1, PhotoUnions
  <2>3. /\ cloud.snaps = Cardinality(S) + repeats["snap"]
        /\ cloud.challenges = Cardinality(C) + repeats["challenge"]
        /\ repeats["snap"] \in Nat /\ repeats["challenge"] \in Nat
    BY DEF LedgerInv, AddsUp, TypeOK, Credits
  <2> QED
    BY <2>2, <2>3 DEF ChallengesWithinSnaps
<1> QED
  BY <1>1, TypeCorrect, LedgerInvariant, PTL

\* The account never holds more money than its snaps can have earned, with the same two
\* exceptions: AwardMoney's write goes behind CountSnap's.
THEOREM MoneyBounded == Spec => []MoneyWithinSnaps
<1>1. TypeOK /\ LedgerInv => MoneyWithinSnaps
  <2> SUFFICES ASSUME TypeOK, LedgerInv PROVE MoneyWithinSnaps
    OBVIOUS
  <2> PICK S, A : S = PhotosTaken("snap") /\ A = PhotosTaken("award")
    OBVIOUS
  <2>1. /\ S \in SUBSET Photos /\ A \in SUBSET Photos /\ astray \in SUBSET Photos
        /\ S \cup astray \in SUBSET Photos /\ A \subseteq S \cup astray
    BY CreditsInOrder
  <2>2. /\ Cardinality(A) <= Cardinality(S \cup astray)
        /\ Cardinality(S \cup astray) <= Cardinality(S) + Cardinality(astray)
        /\ Cardinality(A) \in Nat /\ Cardinality(S) \in Nat /\ Cardinality(astray) \in Nat
        /\ Cardinality(S \cup astray) \in Nat
    BY <2>1, PhotoUnions
  <2>3. /\ cloud.snaps = Cardinality(S) + repeats["snap"]
        /\ cloud.money <= MaxAward * (Cardinality(A) + repeats["award"])
        /\ repeats["snap"] \in Nat /\ repeats["award"] \in Nat /\ cloud.money \in Nat
    BY DEF LedgerInv, AddsUp, TypeOK, Credits, Account
  <2> PICK m, n : /\ m = Cardinality(A) + repeats["award"]
                  /\ n = cloud.snaps + Cardinality(astray) + repeats["award"]
    OBVIOUS
  <2>4. m \in Nat /\ n \in Nat /\ m <= n
    BY <2>2, <2>3
  <2>5. \A a \in Nat : a * m <= a * n /\ a * m \in Nat /\ a * n \in Nat
    BY <2>4
  <2>6. MaxAward * m <= MaxAward * n /\ MaxAward * m \in Nat /\ MaxAward * n \in Nat
    BY <2>5, AwardAssumption
  <2> QED
    BY <2>3, <2>6 DEF MoneyWithinSnaps
<1> QED
  BY <1>1, TypeCorrect, LedgerInvariant, PTL

\* The account never counts a photo that was not identified or whose snap was written
\* for nobody, and counts one twice only if the server takes its increment again.
THEOREM SnapsBounded == Spec => []SnapsWithinAccepted
<1>1. TypeOK /\ LedgerInv => SnapsWithinAccepted
  <2> SUFFICES ASSUME TypeOK, LedgerInv PROVE SnapsWithinAccepted
    OBVIOUS
  <2>1. PhotosTaken("snap") \subseteq Accepted \ astray
    BY DEF LedgerInv, IssuedBy, Issued, PhotosTaken, Accepted
  <2>2. PhotosTaken("snap") \in SUBSET Photos /\ Accepted \ astray \in SUBSET Photos
    BY DEF PhotosTaken, Accepted
  <2>3. /\ Cardinality(PhotosTaken("snap")) <= Cardinality(Accepted \ astray)
        /\ Cardinality(PhotosTaken("snap")) \in Nat /\ Cardinality(Accepted \ astray) \in Nat
    BY <2>1, <2>2, PhotoUnions
  <2>4. /\ cloud.snaps = Cardinality(PhotosTaken("snap")) + repeats["snap"]
        /\ repeats["snap"] \in Nat
    BY DEF LedgerInv, AddsUp, TypeOK, Credits
  <2> QED
    BY <2>3, <2>4 DEF SnapsWithinAccepted
<1> QED
  BY <1>1, TypeCorrect, LedgerInvariant, PTL

\* A completion that went past its increment of snaps never loses it, though users
\* change, connections break and processes end.
THEOREM SnapsAreKept == Spec => []SnapsKept
<1>1. LedgerInv => SnapsKept
  BY DEF LedgerInv
<1> QED
  BY <1>1, LedgerInvariant, PTL

\* Every entry on the server or on its way there shows a photo that Storage holds.
THEOREM EntriesHaveBlobs == Spec => []EntryHasBlob
<1>1. TypeOK /\ LedgerInv => EntryHasBlob
  <2> SUFFICES ASSUME TypeOK, LedgerInv PROVE EntryHasBlob
    OBVIOUS
  <2>1. Due.entries = cloud.entries \cup Queued("entry", taken)
    BY DEF Due, Over
  <2>2. Queued("entry", taken) \subseteq Issued("entry")
    <3>1. Behind(taken) \subseteq Behind(0)
      BY DEF TypeOK, Behind
    <3> QED
      BY <3>1 DEF Issued, Queued
  <2>3. cloud.entries \subseteq Photos /\ Issued("entry") \subseteq Photos
    BY DEF TypeOK, Account, Issued, Queued, PhotosTaken
  <2>4. cloud.entries \subseteq blobs /\ Issued("entry") \subseteq blobs
    BY <2>3 DEF LedgerInv, IssuedBy
  <2> QED
    BY <2>1, <2>2, <2>4 DEF EntryHasBlob
<1> QED
  BY <1>1, TypeCorrect, LedgerInvariant, PTL

(***************************************************************************)
(* The balance of the device                                               *)
(***************************************************************************)
\* Nobody has pressed Sign in since this process began.
NoPress == \A n \in Presses : request[n].at = "none"

\* Until then, the snapshot of the profile view is not above the balance, nor above
\* what a completion handler is about to add its award to.
BalanceInv ==
    SignedIn /\ NoPress =>
        /\ main # "wipe"
        /\ main # "clearRemote" => databaseProfile <= defaults.money
        /\ \A p \in Photos : job[p] = "writeMoney" =>
               /\ defaults.money <= reg
               /\ main # "clearRemote" => databaseProfile <= reg

\* A step that writes neither the balance nor the snapshot, and reads no money.
LEMMA BalanceKept ==
  ASSUME BalanceInv,
         UNCHANGED <<currentUser, defaults, databaseProfile, reg, request>>,
         main = "clearRemote" => main' = "clearRemote",
         main' = "wipe" => main = "wipe",
         \A p \in Photos : job'[p] = "writeMoney" => job[p] = "writeMoney"
  PROVE  BalanceInv'
  BY DEF BalanceInv, SignedIn, NoPress

\* The same for a step that leaves the main thread and the completion handlers alone.
LEMMA BalanceFrame ==
  ASSUME BalanceInv,
         UNCHANGED <<currentUser, defaults, databaseProfile, reg, request, main, job>>
  PROVE  BalanceInv'
  BY DEF BalanceInv, SignedIn, NoPress

\* A press leaves a trace that only a crash takes away.
LEMMA PressLeavesTrace ==
  ASSUME TypeOK, NEW n \in Presses, Press(n)
  PROVE  request'[n].at # "none"
<1> USE DEF TypeOK, At, NoRequest
<1>1. CASE PressSignIn(n)
  BY <1>1 DEF PressSignIn
<1>2. CASE SignInRefused(n)
  BY <1>2 DEF SignInRefused
<1>3. CASE SignInWorked(n)
  BY <1>3 DEF SignInWorked
<1>4. CASE SignInCallback(n)
  BY <1>4 DEF SignInCallback
<1>5. CASE GetUserSnapshot(n)
  BY <1>5 DEF GetUserSnapshot
<1>6. CASE GetUserError(n)
  BY <1>6 DEF GetUserError
<1>7. CASE GetUserCallback(n)
  BY <1>7 DEF GetUserCallback
<1> QED
  BY <1>1, <1>2, <1>3, <1>4, <1>5, <1>6, <1>7 DEF Press

\* The main thread: views, sign-in and -out, getUser.
LEMMA BalanceMain ==
  ASSUME TypeOK, BalanceInv, Launch \/ Navigate \/ Session
  PROVE  BalanceInv'
<1> USE DEF store, snap, ui, world
<1>1. CASE Launch \/ OpenChallenge \/ FinishPermissions
  <2>1. UNCHANGED <<currentUser, defaults, databaseProfile, reg, request, main, job>>
    BY <1>1 DEF Launch, OpenChallenge, FinishPermissions
  <2> QED
    BY <2>1, BalanceFrame
<1>2. CASE BackToList \/ OpenProfile
  <2>1. /\ databaseProfile' \in {defaults.money, 0} /\ main = "free"
        /\ UNCHANGED <<currentUser, defaults, main, request, job, reg>>
    BY <1>2 DEF BackToList, OpenProfile, MainFree, FetchProfileData
  <2>2. defaults.money \in Nat /\ reg \in Nat
    BY DEF TypeOK, Defaults
  <2> QED
    BY <2>1, <2>2 DEF BalanceInv, SignedIn, NoPress
<1>3. CASE \E n \in Presses : Press(n)
  BY <1>3, PressLeavesTrace DEF BalanceInv, NoPress
<1>4. CASE SignOut
  BY <1>4 DEF SignOut, BalanceInv, SignedIn
<1>5. CASE RemoveKeys
  BY <1>5 DEF RemoveKeys, BalanceInv, SignedIn, NoPress
<1> QED
  BY <1>1, <1>2, <1>3, <1>4, <1>5 DEF Navigate, Session

\* The completion handler adds to what it has read, which is not below the snapshot.
LEMMA BalanceCompletion ==
  ASSUME TypeOK, LedgerInv, BalanceInv, NEW p \in Photos, Completion(p)
  PROVE  BalanceInv'
<1>1. /\ defaults.money \in Nat /\ reg \in Nat /\ award[p] \in Nat /\ defaults \in Defaults
      /\ databaseProfile \in Nat
  BY AwardAssumption DEF TypeOK, Defaults
<1>2. /\ UNCHANGED <<currentUser, databaseProfile, main, request>> /\ job[p] \in Handler
      /\ \E to \in JobAt : job' = [job EXCEPT ![p] = to]
  BY DEF Completion, Step, ReadSnaps, WriteSnaps, ReadMoney, WriteMoney, CountSnap, AwardMoney,
     AskEntries, Handler, JobAt, ui
<1>3. \A q \in Photos : q # p => job'[q] = job[q] /\ job'[q] \notin Handler
  BY <1>2 DEF TypeOK, LedgerInv, Serial
<1>4. \A q \in Photos : q # p => job'[q] # "writeMoney"
  BY <1>3 DEF Handler
<1>5. SignedIn' = SignedIn /\ NoPress' = NoPress
  BY <1>2 DEF SignedIn, NoPress
<1>6. CASE ReadMoney(p)
  <2>1. reg' = defaults.money /\ defaults' = defaults
    BY <1>6 DEF ReadMoney
  <2> QED
    BY <1>1, <1>2, <1>5, <2>1 DEF BalanceInv
<1>7. CASE WriteMoney(p)
  <2>1. /\ defaults' = [defaults EXCEPT !.money = reg + award[p]] /\ job[p] = "writeMoney"
        /\ job'[p] = "countSnap"
    BY <1>7 DEF WriteMoney, Step, TypeOK
  <2>2. defaults'.money = reg + award[p]
    BY <1>1, <2>1 DEF Defaults
  <2>3. \A q \in Photos : job'[q] # "writeMoney"
    BY <1>4, <2>1
  <2> QED
    BY <1>1, <1>2, <1>5, <2>1, <2>2, <2>3 DEF BalanceInv
<1>8. CASE ~ReadMoney(p) /\ ~WriteMoney(p)
  <2>1. defaults'.money = defaults.money
    BY <1>1, <1>8 DEF Completion, ReadSnaps, WriteSnaps, CountSnap, AwardMoney, AskEntries,
       Defaults
  <2>2. job'[p] # "writeMoney"
    BY <1>8 DEF TypeOK, Completion, Step, ReadSnaps, WriteSnaps, CountSnap, AwardMoney,
       AskEntries
  <2>3. \A q \in Photos : job'[q] # "writeMoney"
    BY <1>4, <2>2
  <2> QED
    BY <1>2, <1>5, <2>1, <2>3 DEF BalanceInv
<1> QED
  BY <1>6, <1>7, <1>8

\* The mail sets the balance to 0, and the snapshot before the sheet can be opened
\* again; the rest of the withdrawal leaves both alone.
LEMMA BalanceWithdrawal ==
  ASSUME TypeOK, BalanceInv, Withdrawal \/ BumpLocal
  PROVE  BalanceInv'
<1> USE DEF store, snap, ui, world
<1>0. SignedIn' = SignedIn /\ NoPress' = NoPress /\ UNCHANGED <<job, reg>>
  BY DEF Withdrawal, RequestWithdrawal, MailNotSent, MailSent, ClearRemote, BumpLocal,
     SignedIn, NoPress
<1>1. defaults.money \in Nat /\ reg \in Nat /\ defaults \in Defaults
  BY DEF TypeOK, Defaults
<1>2. CASE RequestWithdrawal \/ MailNotSent
  <2>1. UNCHANGED <<currentUser, defaults, databaseProfile, reg, request, main, job>>
    BY <1>2 DEF RequestWithdrawal, MailNotSent
  <2> QED
    BY <2>1, BalanceFrame
<1>3. CASE MailSent
  <2>1. defaults' = [defaults EXCEPT !.money = 0] /\ main' = "clearRemote"
    BY <1>3 DEF MailSent
  <2>2. defaults'.money = 0
    BY <1>1, <2>1 DEF Defaults
  <2> QED
    BY <1>0, <1>1, <2>1, <2>2 DEF BalanceInv
<1>4. CASE ClearRemote
  <2>1. databaseProfile' = 0 /\ main' = "free" /\ defaults' = defaults
    BY <1>4 DEF ClearRemote, ProfileAfterClear
  <2> QED
    BY <1>0, <1>1, <2>1 DEF BalanceInv
<1>5. CASE BumpLocal
  <2>1. /\ defaults' = [defaults EXCEPT !.challenges = defaults.challenges + 1]
        /\ main = "bumpLocal" /\ main' = "free" /\ databaseProfile' = databaseProfile
    BY <1>5 DEF BumpLocal
  <2>2. defaults'.money = defaults.money
    BY <1>1, <2>1 DEF Defaults
  <2> QED
    BY <1>0, <2>1, <2>2 DEF BalanceInv
<1> QED
  BY <1>2, <1>3, <1>4, <1>5 DEF Withdrawal

\* Every step of the device keeps the snapshot within the balance.
LEMMA BalanceNext == TypeOK /\ LedgerInv /\ BalanceInv /\ [Next]_vars => BalanceInv'
<1> SUFFICES ASSUME TypeOK, LedgerInv, BalanceInv, [Next]_vars PROVE BalanceInv'
  OBVIOUS
<1>1. CASE Launch \/ Navigate \/ Session
  BY <1>1, BalanceMain
<1>2. CASE Withdrawal \/ BumpLocal
  BY <1>2, BalanceWithdrawal
<1>3. CASE \E p \in Photos : Completion(p)
  BY <1>3, BalanceCompletion
<1>4. CASE \E p \in Photos : CapturePhoto(p) \/ ScanResult(p)
  <2>1. PICK p \in Photos : CapturePhoto(p) \/ ScanResult(p)
    BY <1>4
  <2>2. /\ UNCHANGED <<currentUser, defaults, databaseProfile, reg, request, main>>
        /\ \E to \in {"stuck", "rejected", "scanning", "readSnaps"} :
              job' = [job EXCEPT ![p] = to]
    BY <2>1 DEF CapturePhoto, ScanResult, PlantScannerFailed, PlantScannerWorked, store
  <2>3. \A q \in Photos : job'[q] = "writeMoney" => job[q] = "writeMoney"
    BY <2>2 DEF TypeOK
  <2> QED
    BY <2>2, <2>3, BalanceKept
<1>5. CASE Worker \/ \E p \in Photos : PutData(p) \/ UploadEntries(p) \/ GetEntries(p)
  <2>1. UNCHANGED <<currentUser, defaults, databaseProfile, reg, request, main, job>>
    BY <1>5 DEF PutData, BlobStored, UploadFailed, UploadEntries, GetEntries,
       EntriesSnapshot, EntriesError, Worker, Commit, Acknowledge, LoseConnection,
       HandleCredentialChange, store, ui, snap
  <2> QED
    BY <2>1, BalanceFrame
<1>6. CASE \E p \in Photos : EntriesCallback(p)
  <2>1. /\ UNCHANGED <<currentUser, defaults, databaseProfile, reg, request, job>>
        /\ main = "free" /\ main' \in {"free", "bumpLocal"}
    BY <1>6 DEF EntriesCallback, MainFree, store, ui, snap
  <2> QED
    BY <2>1, BalanceKept
<1>7. CASE Crash
  <2>1. /\ databaseProfile' = 0 /\ main' = "free" /\ UNCHANGED <<currentUser, defaults>>
        /\ \A p \in Photos : job'[p] # "writeMoney"
    BY <1>7 DEF Crash, store
  <2>2. defaults.money \in Nat
    BY DEF TypeOK, Defaults
  <2> QED
    BY <2>1, <2>2 DEF BalanceInv
<1>8. CASE UNCHANGED vars
  <2>1. UNCHANGED <<currentUser, defaults, databaseProfile, reg, request, main, job>>
    BY <1>8 DEF vars, store, ui, snap
  <2> QED
    BY <2>1, BalanceFrame
<1> QED
  BY <1>1, <1>2, <1>3, <1>4, <1>5, <1>6, <1>7, <1>8 DEF Next

\* A process in which nobody pressed Sign in never mails for more than the balance,
\* however completions, mails and tabs interleave and however old its snapshot is.
THEOREM MailsWithinBalance == Spec => []MailWithinBalance
<1>1. Init => BalanceInv
  BY DEF Init, BalanceInv, Empty
<1>2. BalanceInv => MailWithinBalance
  BY DEF BalanceInv, MailWithinBalance, NoPress, MainFree, MoneyNeeded
<1> QED
  BY <1>1, <1>2, BalanceNext, TypeCorrect, LedgerInvariant, PTL DEF Spec

(***************************************************************************)
(* The counters of the device                                              *)
(***************************************************************************)
\* What the account comes to is what was issued and what was taken again.
LEMMA DueCounts ==
  ASSUME TypeOK, LedgerInv
  PROVE  /\ Due.snaps = Cardinality(Issued("snap")) + repeats["snap"]
         /\ Due.challenges = Cardinality(Issued("challenge")) + repeats["challenge"]
         /\ Cardinality(Issued("snap")) \in Nat /\ Cardinality(Issued("challenge")) \in Nat
         /\ repeats["snap"] \in Nat /\ repeats["challenge"] \in Nat
<1>1. ASSUME NEW k \in Credits
      PROVE  /\ Cardinality(Issued(k)) =
                Cardinality(PhotosTaken(k)) + Cardinality(Queued(k, taken))
             /\ Cardinality(PhotosTaken(k)) \in Nat /\ Cardinality(Queued(k, taken)) \in Nat
             /\ Cardinality(Issued(k)) \in Nat
  <2>1. PhotosTaken(k) \in SUBSET Photos /\ Queued(k, taken) \in SUBSET Photos
    BY DEF PhotosTaken, Queued
  <2>2. Behind(0) = (1..taken) \cup Behind(taken)
    BY DEF TypeOK, Behind
  <2>3. \A i \in 1..taken : writes[i] \in committed
    BY DEF LedgerInv, QueueInv
  <2>4. Issued(k) = PhotosTaken(k) \cup Queued(k, taken)
    BY <2>2, <2>3 DEF Issued, PhotosTaken, Queued
  <2>5. PhotosTaken(k) \cap Queued(k, taken) = {}
    <3> SUFFICES ASSUME NEW p \in Photos, Op(k, p) \in committed,
                        NEW i \in Behind(taken), writes[i] = Op(k, p)
                 PROVE  FALSE
      BY DEF PhotosTaken, Queued
    <3>1. writes[i].kind = k
      BY OpFacts
    <3> QED
      BY <3>1 DEF LedgerInv, QueueInv
  <2> QED
    BY <2>1, <2>4, <2>5, PhotoUnions
<1>2. /\ Due.snaps = cloud.snaps + Cardinality(Queued("snap", taken))
      /\ Due.challenges = cloud.challenges + Cardinality(Queued("challenge", taken))
  BY DEF Due, Over
<1>3. /\ cloud.snaps = Cardinality(PhotosTaken("snap")) + repeats["snap"]
      /\ cloud.challenges = Cardinality(PhotosTaken("challenge")) + repeats["challenge"]
  BY DEF LedgerInv, AddsUp
<1>4. "snap" \in Credits /\ "challenge" \in Credits
  BY DEF Credits
<1>5. repeats["snap"] \in Nat /\ repeats["challenge"] \in Nat
  BY <1>4 DEF TypeOK
<1> QED
  BY <1>1, <1>2, <1>3, <1>4, <1>5

\* Where an undisturbed process can be: the worker has its user, nobody signs out.
FirstRun ==
    /\ launches # 0
    /\ Undisturbed => worker = "uid" /\ notices = <<>> /\ main # "wipe"

\* Nobody else writes the snaps that the completion handler has read.
SnapsRead == Undisturbed => \A p \in Photos : job[p] = "writeSnaps" => reg = defaults.snaps

\* What the device counts and what was issued, statement by statement.
Mirrored ==
    /\ defaults.snaps = Cardinality(Issued("snap")) + Cardinality(Uncounted)
    /\ Cardinality(Issued("challenge")) =
       defaults.challenges + (IF main = "bumpLocal" THEN 1 ELSE 0)

MirrorInv == FirstRun /\ SnapsRead /\ (Undisturbed => Mirrored)

\* Once disturbed, a process stays so, and no later one is undisturbed.
LEMMA FirstRunNext ==
  ASSUME TypeOK, FirstRun, [Next]_vars
  PROVE  FirstRun' /\ (Undisturbed' => Undisturbed)
<1> USE DEF store, snap, ui, world, firestore, link
<1>0. launches \in Nat
  BY DEF TypeOK
<1>1. CASE Launch
  BY <1>0, <1>1 DEF Launch, FirstRun, Undisturbed
<1>2. CASE \E n \in Presses : Press(n)
  <2>1. ~Undisturbed'
    BY <1>2, PressLeavesTrace DEF Undisturbed
  <2>2. launches' = launches
    BY <1>2 DEF Press, PressSignIn, SignInRefused, SignInWorked, SignInCallback,
       GetUserSnapshot, GetUserError, GetUserCallback
  <2> QED
    BY <2>1, <2>2 DEF FirstRun
<1>3. CASE SignOut
  BY <1>3 DEF SignOut, FirstRun, Undisturbed, SignedIn
<1>4. CASE Crash
  BY <1>4 DEF Crash, FirstRun, Undisturbed, Running
<1>5. CASE UNCHANGED <<launches, currentUser, request, worker, notices>> /\
           (Running' => Running) /\ (main' = "wipe" => main = "wipe")
  BY <1>5 DEF FirstRun, Undisturbed, SignedIn
<1>6. CASE Navigate \/ FinishPermissions \/ RemoveKeys
  BY <1>5, <1>6 DEF Navigate, OpenChallenge, BackToList, OpenProfile, MainFree,
     FinishPermissions, RemoveKeys
<1>7. CASE Withdrawal \/ BumpLocal
  BY <1>5, <1>7 DEF Withdrawal, RequestWithdrawal, MailNotSent, MailSent, ClearRemote,
     BumpLocal, Running
<1>8. CASE \E p \in Photos : CapturePhoto(p) \/ ScanResult(p) \/ Completion(p)
  BY <1>5, <1>8 DEF CapturePhoto, ScanResult, PlantScannerFailed, PlantScannerWorked,
     Completion, Step, ReadSnaps, WriteSnaps, ReadMoney, WriteMoney, CountSnap, AwardMoney,
     AskEntries, Running
<1>9. CASE \E p \in Photos : \/ PutData(p) \/ UploadEntries(p) \/ GetEntries(p)
                             \/ EntriesCallback(p)
  BY <1>5, <1>9 DEF PutData, BlobStored, UploadFailed, UploadEntries, GetEntries,
     EntriesSnapshot, EntriesError, EntriesCallback, Running
<1>10. CASE Commit \/ Acknowledge \/ LoseConnection
  BY <1>5, <1>10 DEF Commit, Acknowledge, LoseConnection, Running
<1>11. CASE HandleCredentialChange
  <2>1. /\ notices # <<>>
        /\ UNCHANGED <<launches, currentUser, request, screen>>
    BY <1>11 DEF HandleCredentialChange
  <2>2. Undisturbed' = Undisturbed
    BY <2>1 DEF Undisturbed, SignedIn, Running
  <2> QED
    BY <2>1, <2>2 DEF FirstRun
<1>12. CASE UNCHANGED vars
  BY <1>5, <1>12 DEF vars, Running
<1> QED
  BY <1>1, <1>2, <1>3, <1>4, <1>6, <1>7, <1>8, <1>9, <1>10, <1>11, <1>12
     DEF Next, Session, Worker

\* A step after which nothing is counted that was not counted before.
LEMMA MirrorKept ==
  ASSUME Mirrored, defaults'.snaps = defaults.snaps, defaults'.challenges = defaults.challenges,
         Issued("snap")' = Issued("snap"), Issued("challenge")' = Issued("challenge"),
         main' = "bumpLocal" <=> main = "bumpLocal",
         Uncounted' = Uncounted
  PROVE  Mirrored'
  BY DEF Mirrored

\* The completion handler counts a snap on the device first, then in the account.
LEMMA MirrorCompletion ==
  ASSUME TypeOK, LedgerInv, Mirrored, Filed, NEW p \in Photos, Completion(p),
         job[p] = "writeSnaps" => reg = defaults.snaps
  PROVE  /\ Mirrored'
         /\ \A q \in Photos : job'[q] = "writeSnaps" => reg' = defaults'.snaps
<1>1. /\ defaults \in Defaults /\ defaults.snaps \in Nat
      /\ Uncounted \in SUBSET Photos /\ Issued("snap") \in SUBSET Photos
      /\ Cardinality(Uncounted) \in Nat /\ Cardinality(Issued("snap")) \in Nat
      /\ "snap" \in PhotoKinds /\ "award" \in PhotoKinds
  <2>1. Uncounted \in SUBSET Photos /\ Issued("snap") \in SUBSET Photos
    BY DEF Uncounted, Issued, PhotosTaken, Queued
  <2> QED
    BY <2>1, PhotoUnions DEF TypeOK, Defaults, PhotoKinds, Credits
<1>2. /\ UNCHANGED <<committed, taken, main>> /\ job[p] \in Handler
      /\ \E to \in JobAt : job' = [job EXCEPT ![p] = to]
  BY DEF Completion, Step, ReadSnaps, WriteSnaps, ReadMoney, WriteMoney, CountSnap, AwardMoney,
     AskEntries, Handler, JobAt, ui, server, link
<1>3. \A q \in Photos : q # p => job'[q] = job[q] /\ job'[q] \notin Handler
  BY <1>2 DEF TypeOK, LedgerInv, Serial
<1>4. \A q \in Photos : q # p => job'[q] # "writeSnaps"
  BY <1>3 DEF Handler
<1>0. writes' = writes => /\ Issued("snap")' = Issued("snap")
                          /\ Issued("challenge")' = Issued("challenge")
  BY <1>2 DEF Issued, Queued, Behind, PhotosTaken
<1>5. CASE ReadSnaps(p)
  <2>1. /\ reg' = defaults.snaps /\ UNCHANGED <<defaults, writes>>
        /\ job[p] = "readSnaps" /\ job'[p] = "writeSnaps"
    BY <1>5 DEF ReadSnaps, Step, TypeOK
  <2>2. Uncounted' = Uncounted
    BY <1>2, <1>3, <2>1 DEF Uncounted
  <2> QED
    BY <1>0, <1>2, <2>1, <2>2, MirrorKept
<1>6. CASE WriteSnaps(p)
  <2>1. /\ defaults' = [defaults EXCEPT !.snaps = reg + 1] /\ writes' = writes
        /\ job[p] = "writeSnaps" /\ job'[p] = "readMoney"
    BY <1>6 DEF WriteSnaps, Step, TypeOK
  <2>2. defaults'.snaps = defaults.snaps + 1 /\ defaults'.challenges = defaults.challenges
    BY <1>1, <2>1 DEF Defaults
  <2>3. Uncounted' = Uncounted \cup {p} /\ p \notin Uncounted
    BY <1>2, <1>3, <2>1 DEF Uncounted
  <2>4. Cardinality(Uncounted') = Cardinality(Uncounted) + 1
    BY <1>1, <2>3, PhotoSets
  <2>5. Mirrored'
    BY <1>0, <1>1, <1>2, <2>1, <2>2, <2>4 DEF Mirrored
  <2> QED
    BY <1>4, <2>1, <2>5
<1>7. CASE ReadMoney(p) \/ WriteMoney(p)
  <2>1. /\ writes' = writes
        /\ job[p] \in {"readMoney", "writeMoney"} /\ job'[p] \in {"writeMoney", "countSnap"}
    BY <1>7 DEF ReadMoney, WriteMoney, Step, TypeOK
  <2>2. defaults'.snaps = defaults.snaps /\ defaults'.challenges = defaults.challenges
    BY <1>1, <1>7 DEF ReadMoney, WriteMoney, Defaults
  <2>3. Uncounted' = Uncounted
    BY <1>2, <1>3, <2>1 DEF Uncounted
  <2>4. Mirrored'
    BY <1>0, <1>2, <2>1, <2>2, <2>3, MirrorKept
  <2> QED
    BY <1>4, <2>1, <2>4
<1>8. CASE CountSnap(p)
  <2>1. /\ defaults' = defaults /\ Write(Op("snap", p))
        /\ job[p] = "countSnap" /\ job'[p] = "awardMoney"
    BY <1>8 DEF CountSnap, Step, TypeOK
  <2>2. \A l : Issued(l)' = Issued(l) \cup (IF Filed /\ l = "snap" THEN {p} ELSE {})
    BY <1>1, <1>2, <2>1, WriteIssues
  <2>3. /\ Issued("snap")' = Issued("snap") \cup {p}
        /\ Issued("challenge")' = Issued("challenge")
    BY <2>2
  <2>4. p \notin Issued("snap")
    BY <2>1 DEF LedgerInv, IssuedBy
  <2>5. Cardinality(Issued("snap")') = Cardinality(Issued("snap")) + 1
    BY <1>1, <2>3, <2>4, PhotoSets
  <2>6. Uncounted' = Uncounted \ {p} /\ p \in Uncounted
    BY <1>2, <1>3, <2>1 DEF Uncounted
  <2>7. Cardinality(Uncounted') = Cardinality(Uncounted) - 1
    BY <1>1, <2>6, PhotoSets
  <2>8. Mirrored'
    BY <1>1, <1>2, <2>1, <2>3, <2>5, <2>7 DEF Mirrored
  <2> QED
    BY <1>4, <2>1, <2>8
<1>9. CASE AwardMoney(p)
  <2>1. /\ defaults' = defaults /\ Write(Op("award", p))
        /\ job[p] = "awardMoney" /\ job'[p] = "ask"
    BY <1>9 DEF AwardMoney, Step, TypeOK
  <2>2. \A l : Issued(l)' = Issued(l) \cup (IF Filed /\ l = "award" THEN {p} ELSE {})
    BY <1>1, <1>2, <2>1, WriteIssues
  <2>3. Issued("snap")' = Issued("snap") /\ Issued("challenge")' = Issued("challenge")
    BY <2>2
  <2>4. Uncounted' = Uncounted
    BY <1>2, <1>3, <2>1 DEF Uncounted
  <2>5. Mirrored'
    BY <1>2, <2>1, <2>3, <2>4, MirrorKept
  <2> QED
    BY <1>4, <2>1, <2>5
<1>10. CASE AskEntries(p)
  <2>1. /\ UNCHANGED <<defaults, writes>> /\ job[p] = "ask" /\ job'[p] = "done"
    BY <1>10 DEF AskEntries, Step, TypeOK
  <2>2. Uncounted' = Uncounted
    BY <1>2, <1>3, <2>1 DEF Uncounted
  <2>3. Mirrored'
    BY <1>0, <1>2, <2>1, <2>2, MirrorKept
  <2> QED
    BY <1>4, <2>1, <2>3
<1> QED
  BY <1>5, <1>6, <1>7, <1>8, <1>9, <1>10 DEF Completion

\* A challenge is counted in the account first, then on the device; a withdrawal and an
\* entry count neither snaps nor challenges.
LEMMA MirrorMain ==
  ASSUME TypeOK, LedgerInv, Mirrored, Filed,
         \/ Withdrawal \/ BumpLocal
         \/ \E p \in Photos : UploadEntries(p) \/ EntriesCallback(p)
  PROVE  Mirrored' /\ defaults'.snaps = defaults.snaps /\ UNCHANGED <<job, reg>>
<1> USE DEF store, snap, ui, world
<1>1. /\ defaults \in Defaults /\ defaults.challenges \in Nat
      /\ Issued("challenge") \in SUBSET Photos /\ Cardinality(Issued("challenge")) \in Nat
      /\ {"snap", "challenge", "entry"} \subseteq PhotoKinds
  <2>1. Issued("challenge") \in SUBSET Photos
    BY DEF Issued, PhotosTaken, Queued
  <2> QED
    BY <2>1, PhotoUnions DEF TypeOK, Defaults, PhotoKinds, Credits
<1>2. UNCHANGED <<job, reg, committed>>
  BY DEF Withdrawal, RequestWithdrawal, MailNotSent, MailSent, ClearRemote, BumpLocal,
     UploadEntries, EntriesCallback, server
<1>3. Uncounted' = Uncounted
  BY <1>2 DEF Uncounted
<1>4. writes' = writes => /\ Issued("snap")' = Issued("snap")
                          /\ Issued("challenge")' = Issued("challenge")
  BY <1>2 DEF Issued, Queued, Behind, PhotosTaken
<1>5. CASE RequestWithdrawal \/ MailNotSent
  <2>1. UNCHANGED <<defaults, writes, main>>
    BY <1>5 DEF RequestWithdrawal, MailNotSent, firestore
  <2> QED
    BY <1>2, <1>3, <1>4, <2>1, MirrorKept
<1>6. CASE MailSent
  <2>1. /\ defaults' = [defaults EXCEPT !.money = 0] /\ writes' = writes
        /\ main = "free" /\ main' = "clearRemote"
    BY <1>6 DEF MailSent, MainFree, firestore
  <2>2. defaults'.snaps = defaults.snaps /\ defaults'.challenges = defaults.challenges
    BY <1>1, <2>1 DEF Defaults
  <2> QED
    BY <1>2, <1>3, <1>4, <2>1, <2>2, MirrorKept
<1>7. CASE ClearRemote
  <2>1. /\ defaults' = defaults /\ Write(Clear)
        /\ main = "clearRemote" /\ main' = "free"
    BY <1>7 DEF ClearRemote
  <2>2. Issued("snap")' = Issued("snap") /\ Issued("challenge")' = Issued("challenge")
    BY <1>1, <1>2, <2>1, ClearIssues
  <2> QED
    BY <1>2, <1>3, <2>1, <2>2, MirrorKept
<1>8. CASE BumpLocal
  <2>1. /\ defaults' = [defaults EXCEPT !.challenges = defaults.challenges + 1]
        /\ writes' = writes /\ main = "bumpLocal" /\ main' = "free"
    BY <1>8 DEF BumpLocal, firestore
  <2>2. /\ defaults'.snaps = defaults.snaps
        /\ defaults'.challenges = defaults.challenges + 1
    BY <1>1, <2>1 DEF Defaults
  <2> QED
    BY <1>1, <1>2, <1>3, <1>4, <2>1, <2>2 DEF Mirrored
<1>9. ASSUME NEW p \in Photos, UploadEntries(p)
      PROVE  Mirrored' /\ defaults'.snaps = defaults.snaps
  <2>1. /\ UNCHANGED <<defaults, main>>
        /\ Write(Op("entry", p)) \/ writes' = writes
    BY <1>9 DEF UploadEntries
  <2>2. Write(Op("entry", p)) =>
          \A l : Issued(l)' = Issued(l) \cup (IF Filed /\ l = "entry" THEN {p} ELSE {})
    BY <1>1, <1>2, WriteIssues
  <2>3. Issued("snap")' = Issued("snap") /\ Issued("challenge")' = Issued("challenge")
    BY <1>4, <2>1, <2>2
  <2> QED
    BY <1>3, <2>1, <2>3, MirrorKept
<1>10. ASSUME NEW p \in Photos, EntriesCallback(p)
       PROVE  Mirrored' /\ defaults'.snaps = defaults.snaps
  <2>1. /\ defaults' = defaults /\ main = "free" /\ query[p] \in {"seen", "unseen"}
        /\ \/ UNCHANGED <<writes, main>>
           \/ Write(Op("challenge", p)) /\ main' = "bumpLocal"
    BY <1>10 DEF EntriesCallback, MainFree
  <2>2. CASE UNCHANGED <<writes, main>>
    BY <1>3, <1>4, <2>1, <2>2, MirrorKept
  <2>3. CASE Write(Op("challenge", p)) /\ main' = "bumpLocal"
    <3>1. \A l : Issued(l)' = Issued(l) \cup (IF Filed /\ l = "challenge" THEN {p} ELSE {})
      BY <1>1, <1>2, <2>3, WriteIssues
    <3>2. /\ Issued("snap")' = Issued("snap")
          /\ Issued("challenge")' = Issued("challenge") \cup {p}
      BY <3>1
    <3>3. p \notin Issued("challenge")
      BY <2>1 DEF LedgerInv, IssuedBy
    <3>4. Cardinality(Issued("challenge")') = Cardinality(Issued("challenge")) + 1
      BY <1>1, <3>2, <3>3, PhotoSets
    <3>5. Cardinality(Issued("challenge")) = defaults.challenges
      BY <1>1, <2>1 DEF Mirrored
    <3> QED
      BY <1>1, <1>3, <2>1, <2>3, <3>2, <3>4, <3>5 DEF Mirrored
  <2> QED
    BY <2>1, <2>2, <2>3
<1> QED
  BY <1>2, <1>5, <1>6, <1>7, <1>8, <1>9, <1>10 DEF Withdrawal

\* Every step of the device keeps its counters in step with what was issued.
LEMMA MirrorNext ==
  ASSUME TypeOK, LedgerInv, MirrorInv, [Next]_vars
  PROVE  MirrorInv'
<1> DEFINE Fresh == \A p \in Photos : job[p] = "writeSnaps" => reg = defaults.snaps
<1>1. FirstRun' /\ (Undisturbed' => Undisturbed)
  BY FirstRunNext DEF MirrorInv
<1> SUFFICES ASSUME Undisturbed, Undisturbed'
             PROVE  Mirrored' /\ Fresh'
  BY <1>1 DEF MirrorInv, SnapsRead
<1>2. /\ Mirrored /\ Fresh /\ Filed /\ Running /\ NoPress /\ NoPress' /\ SignedIn'
      /\ main # "wipe" /\ notices = <<>> /\ Running' /\ Ledger
  BY LedgerParts DEF MirrorInv, FirstRun, SnapsRead, Undisturbed, Filed, NoPress
<1> HIDE DEF Fresh
<1>3. CASE Withdrawal \/ BumpLocal \/ \E p \in Photos : UploadEntries(p) \/ EntriesCallback(p)
  <2>1. Mirrored' /\ defaults'.snaps = defaults.snaps /\ UNCHANGED <<job, reg>>
    BY <1>2, <1>3, MirrorMain
  <2> QED
    BY <1>2, <2>1 DEF Fresh
<1>4. CASE \E p \in Photos : Completion(p)
  BY <1>2, <1>4, MirrorCompletion DEF Fresh
<1>5. CASE \E p \in Photos : CapturePhoto(p) \/ ScanResult(p)
  <2>1. PICK p \in Photos : CapturePhoto(p) \/ ScanResult(p)
    BY <1>5
  <2>2. /\ UNCHANGED <<defaults, cloud, writes, taken, committed, repeats, reg, main, astray>>
        /\ job[p] \in {"new", "scanning"}
        /\ \E to \in {"stuck", "rejected", "scanning", "readSnaps"} :
              job' = [job EXCEPT ![p] = to]
    BY <2>1 DEF CapturePhoto, ScanResult, PlantScannerFailed, PlantScannerWorked, store,
       server, firestore, link
  <2>3. /\ job'[p] \in {"stuck", "rejected", "scanning", "readSnaps"}
        /\ \A q \in Photos : q # p => job'[q] = job[q]
    <3>1. PICK to \in {"stuck", "rejected", "scanning", "readSnaps"} :
              job' = [job EXCEPT ![p] = to]
      BY <2>2
    <3> QED
      BY <3>1 DEF TypeOK
  <2>4. Uncounted' = Uncounted
    BY <2>2, <2>3 DEF Uncounted
  <2>5. \A l : Issued(l)' = Issued(l)
    BY <1>2, <2>2, LedgerSame
  <2>6. Mirrored'
    BY <1>2, <2>2, <2>4, <2>5, MirrorKept
  <2> QED
    BY <1>2, <2>2, <2>3, <2>6 DEF Fresh
<1>6. CASE Commit \/ Acknowledge
  <2>1. UNCHANGED <<defaults, job, reg, main>>
    BY <1>6 DEF Commit, Acknowledge, store, snap
  <2>2. \A l : Issued(l)' = Issued(l)
    BY <1>2, <1>6, CommitIssues, AcknowledgeLedger
  <2>3. Uncounted' = Uncounted
    BY <2>1 DEF Uncounted
  <2> QED
    BY <1>2, <2>1, <2>2, <2>3, MirrorKept DEF Fresh
<1>7. CASE \/ Navigate \/ LoseConnection \/ (\E p \in Photos : PutData(p) \/ GetEntries(p))
           \/ UNCHANGED vars \/ FinishPermissions
  <2>1. UNCHANGED <<defaults, cloud, writes, taken, committed, repeats, astray, job, reg, main>>
    BY <1>7 DEF Navigate, OpenChallenge, BackToList, OpenProfile, PutData, BlobStored,
       UploadFailed, GetEntries, EntriesSnapshot, EntriesError, LoseConnection,
       FinishPermissions, vars, store, snap, ui, server, firestore, link
  <2>2. Uncounted' = Uncounted
    BY <2>1 DEF Uncounted
  <2>3. \A l : Issued(l)' = Issued(l)
    BY <1>2, <2>1, LedgerSame
  <2> QED
    BY <1>2, <2>1, <2>2, <2>3, MirrorKept DEF Fresh
<1>8. /\ ~Launch /\ ~SignOut /\ ~RemoveKeys /\ ~Crash /\ ~HandleCredentialChange
      /\ ~\E n \in Presses : Press(n)
  <2>1. ~\E n \in Presses : Press(n)
    BY <1>2, PressLeavesTrace DEF NoPress
  <2> QED
    BY <1>2, <2>1 DEF Launch, SignOut, RemoveKeys, Crash, HandleCredentialChange, Running,
       SignedIn
<1> QED
  BY <1>3, <1>4, <1>5, <1>6, <1>7, <1>8 DEF Next, Session, Worker

\* Until the first crash, sign-out or press of Sign in the counters of UserDefaults and
\* of the account agree, but for the one snap and the one challenge whose statements are
\* under way and the increments that the server took again.
THEOREM DeviceMirrorsAccount == Spec => []LocalMirrorsAccount
<1>1. Init => MirrorInv
  <2> SUFFICES ASSUME Init PROVE MirrorInv
    OBVIOUS
  <2>1. Uncounted = {} /\ Issued("snap") = {} /\ Issued("challenge") = {}
    BY DEF Init, Uncounted, Issued, Queued, Behind, PhotosTaken
  <2>2. /\ Cardinality(Uncounted) = 0 /\ Cardinality(Issued("snap")) = 0
        /\ Cardinality(Issued("challenge")) = 0
    BY <2>1, FS_EmptySet
  <2>3. defaults.snaps = 0 /\ defaults.challenges = 0 /\ main = "free"
    BY DEF Init, Empty
  <2>4. Mirrored
    BY <2>2, <2>3 DEF Mirrored
  <2>5. FirstRun /\ SnapsRead
    BY DEF Init, FirstRun, SnapsRead
  <2> QED
    BY <2>4, <2>5 DEF MirrorInv
<1>2. TypeOK /\ LedgerInv /\ MirrorInv => LocalMirrorsAccount
  <2> SUFFICES ASSUME TypeOK, LedgerInv, MirrorInv, Undisturbed
               PROVE  /\ defaults.snaps + repeats["snap"] = Due.snaps + Cardinality(Uncounted)
                      /\ Due.challenges = defaults.challenges + repeats["challenge"] +
                            (IF main = "bumpLocal" THEN 1 ELSE 0)
    BY DEF LocalMirrorsAccount
  <2>1. Mirrored
    BY DEF MirrorInv
  <2>2. Uncounted \in SUBSET Photos
    BY DEF Uncounted
  <2>3. Cardinality(Uncounted) \in Nat
    BY <2>2, PhotoUnions
  <2>4. defaults.challenges \in Nat
    BY DEF TypeOK, Defaults
  <2> QED
    BY <2>1, <2>3, <2>4, DueCounts DEF Mirrored
<1> QED
  BY <1>1, <1>2, MirrorNext, TypeCorrect, LedgerInvariant, PTL DEF Spec

(***************************************************************************)
(* The server's document is a RewardAccount                                *)
(***************************************************************************)
\* The server taking a write, for the first time or again, is a step of RewardAccount.
LEMMA CommitRefines ==
  ASSUME TypeOK, LedgerInv, Commit
  PROVE  [Reward!Next]_(Reward!account)
<1> PICK w : w = writes[answers + 1]
  OBVIOUS
<1>0. Ledger
  BY LedgerParts
<1>1. /\ w \in Writes
      /\ cloud' = Applied(w, cloud) /\ committed' = committed \cup {w}
      /\ \/ /\ w \in committed
            /\ repeats' = IF w.kind \in Credits
                            THEN [repeats EXCEPT ![w.kind] = repeats[w.kind] + 1]
                            ELSE repeats
         \/ /\ w.kind \in Credits => w \notin committed
            /\ repeats' = repeats
  BY <1>0, CommitFacts
<1>2. cloud \in Account /\ UNCHANGED <<award, astray>>
  BY DEF TypeOK, Commit, snap
<1>3. \A k : PhotosTaken(k)' = PhotosTaken(k) \cup {q \in Photos : w = Op(k, q)}
  BY <1>1 DEF PhotosTaken
<1>4. CASE w = Clear
  <2>1. w.kind = "clear" /\ w.kind \notin Credits
    BY <1>4, OpFacts DEF PhotoKinds
  <2>2. \A k \in Credits, q \in Photos : w # Op(k, q)
    BY <1>4, OpFacts DEF PhotoKinds
  <2>3. /\ PhotosTaken("snap")' = PhotosTaken("snap")
        /\ PhotosTaken("award")' = PhotosTaken("award")
        /\ PhotosTaken("challenge")' = PhotosTaken("challenge")
    BY <1>3, <2>2 DEF Credits
  <2>4. /\ cloud'.snaps = cloud.snaps /\ cloud'.money = 0
        /\ cloud'.challenges = cloud.challenges
    BY <1>1, <1>2, <2>1 DEF Applied, Cleared, Account
  <2>5. repeats' = repeats
    BY <1>1, <2>1
  <2>6. Reward!PayOut
    BY <1>2, <2>3, <2>4, <2>5 DEF Reward!PayOut
  <2> QED
    BY <2>6 DEF Reward!Next
<1>5. ASSUME NEW k \in PhotoKinds, NEW p \in Photos, w = Op(k, p)
      PROVE  [Reward!Next]_(Reward!account)
  <2>1. w.kind = k /\ w.photo = p
    BY <1>5, OpFacts
  <2>2. \A l : {q \in Photos : w = Op(l, q)} = IF l = k THEN {p} ELSE {}
    BY <1>5, OpFacts
  <2>3. /\ \A l : l # k => PhotosTaken(l)' = PhotosTaken(l)
        /\ PhotosTaken(k)' = PhotosTaken(k) \cup {p}
    BY <1>3, <2>2
  \* The photo was there before if and only if the write is taken again.
  <2>4. k \in Credits =>
          repeats' = IF p \in PhotosTaken(k) THEN [repeats EXCEPT ![k] = repeats[k] + 1]
                                             ELSE repeats
    BY <1>1, <1>5, <2>1 DEF PhotosTaken
  <2>5. p \in Issued(k)
    <3>1. answers + 1 \in Behind(0)
      BY DEF TypeOK, Commit, Behind
    <3> QED
      BY <1>5, <3>1 DEF Issued, Queued
  <2>6. k \in {"award", "challenge"} => p \in PhotosTaken("snap") \cup astray
    <3> SUFFICES ASSUME k \in {"award", "challenge"}, p \notin astray
                 PROVE  p \in PhotosTaken("snap")
      OBVIOUS
    <3>1. Ledger'
      BY <1>0, CommitLedger
    <3>2. Op(k, p) \in committed'
      BY <1>1, <1>5
    <3>3. Op("snap", p) \in committed'
      BY <1>2, <3>1, <3>2 DEF Ledger, InOrder
    <3>4. Op("snap", p) # w
      BY <1>5, OpFacts
    <3> QED
      BY <1>1, <3>3, <3>4 DEF PhotosTaken
  <2>7. CASE k = "snap"
    <3>1. /\ cloud'.snaps = cloud.snaps + 1 /\ cloud'.money = cloud.money
          /\ cloud'.challenges = cloud.challenges
      BY <1>1, <1>2, <2>1, <2>7 DEF Applied, Counted, Account
    <3>2. award[p] # 0 /\ p \notin astray
      BY <2>5, <2>7 DEF LedgerInv, IssuedBy, Stages
    <3>3. /\ PhotosTaken("snap")' = PhotosTaken("snap") \cup {p}
          /\ PhotosTaken("award")' = PhotosTaken("award")
          /\ PhotosTaken("challenge")' = PhotosTaken("challenge")
          /\ repeats' = IF p \in PhotosTaken("snap")
                          THEN [repeats EXCEPT !["snap"] = repeats["snap"] + 1] ELSE repeats
      BY <2>3, <2>4, <2>7 DEF Credits
    <3>4. Reward!CountSnap(p)
      BY <1>2, <3>1, <3>2, <3>3 DEF Reward!CountSnap, Reward!Delivered
    <3> QED
      BY <3>4 DEF Reward!Next
  <2>8. CASE k = "award"
    <3>1. /\ cloud'.snaps = cloud.snaps /\ cloud'.money = cloud.money + award[p]
          /\ cloud'.challenges = cloud.challenges
      BY <1>1, <1>2, <2>1, <2>8 DEF Applied, Awarded, Account
    <3>2. /\ PhotosTaken("award")' = PhotosTaken("award") \cup {p}
          /\ PhotosTaken("snap")' = PhotosTaken("snap")
          /\ PhotosTaken("challenge")' = PhotosTaken("challenge")
          /\ repeats' = IF p \in PhotosTaken("award")
                          THEN [repeats EXCEPT !["award"] = repeats["award"] + 1] ELSE repeats
      BY <2>3, <2>4, <2>8 DEF Credits
    <3>3. Reward!Award(p)
      BY <1>2, <2>6, <2>8, <3>1, <3>2 DEF Reward!Award, Reward!Delivered
    <3> QED
      BY <3>3 DEF Reward!Next
  <2>9. CASE k = "challenge"
    <3>1. /\ cloud'.snaps = cloud.snaps /\ cloud'.money = cloud.money
          /\ cloud'.challenges = cloud.challenges + 1
      BY <1>1, <1>2, <2>1, <2>9 DEF Applied, Completed, Account
    <3>2. /\ PhotosTaken("challenge")' = PhotosTaken("challenge") \cup {p}
          /\ PhotosTaken("snap")' = PhotosTaken("snap")
          /\ PhotosTaken("award")' = PhotosTaken("award")
          /\ repeats' = IF p \in PhotosTaken("challenge")
                          THEN [repeats EXCEPT !["challenge"] = repeats["challenge"] + 1]
                          ELSE repeats
      BY <2>3, <2>4, <2>9 DEF Credits
    <3>3. Reward!CompleteChallenge(p)
      BY <1>2, <2>6, <2>9, <3>1, <3>2 DEF Reward!CompleteChallenge, Reward!Delivered
    <3> QED
      BY <3>3 DEF Reward!Next
  <2>10. CASE k = "entry"
    <3>1. /\ cloud'.snaps = cloud.snaps /\ cloud'.money = cloud.money
          /\ cloud'.challenges = cloud.challenges
      BY <1>1, <1>2, <2>1, <2>10 DEF Applied, WithEntry, Account
    <3>2. /\ PhotosTaken("award")' = PhotosTaken("award")
          /\ PhotosTaken("snap")' = PhotosTaken("snap")
          /\ PhotosTaken("challenge")' = PhotosTaken("challenge")
          /\ repeats' = repeats
      BY <1>1, <2>1, <2>3, <2>10 DEF Credits
    <3> QED
      BY <1>2, <3>1, <3>2 DEF Reward!account
  <2> QED
    BY <2>7, <2>8, <2>9, <2>10 DEF PhotoKinds, Credits
<1> QED
  BY <1>1, <1>4, <1>5, WriteShapes

\* Drawing an award is the abstract Identify, and a snap that is written for nobody the
\* abstract Miss.
LEMMA PhotoRefines ==
  ASSUME TypeOK, LedgerInv, NEW p \in Photos, PlantScannerWorked(p) \/ CountSnap(p)
  PROVE  [Reward!Next]_(Reward!account)
<1>1. UNCHANGED <<cloud, committed, repeats>>
  BY DEF PlantScannerWorked, CountSnap, Step, server
<1>2. \A k : PhotosTaken(k)' = PhotosTaken(k)
  BY <1>1 DEF PhotosTaken
<1>3. CASE PlantScannerWorked(p)
  <2>1. PICK a \in 1..MaxAward : award' = [award EXCEPT ![p] = a]
    BY <1>3 DEF PlantScannerWorked
  <2>2. job[p] = "scanning" /\ UNCHANGED astray
    BY <1>3 DEF PlantScannerWorked
  <2>3. award[p] = 0
    BY <2>2 DEF LedgerInv, Stages
  <2>4. Reward!Identify(p)
    BY <1>1, <1>2, <2>1, <2>2, <2>3 DEF Reward!Identify
  <2> QED
    BY <2>4 DEF Reward!Next
<1>4. CASE CountSnap(p)
  <2>1. /\ job[p] = "countSnap" /\ UNCHANGED award
        /\ astray' = IF Filed THEN astray ELSE astray \cup {p}
    BY <1>4 DEF CountSnap, Step
  <2>2. award[p] # 0 /\ p \notin Issued("snap")
    BY <2>1 DEF LedgerInv, Stages, IssuedBy, Handler
  <2>3. p \notin PhotosTaken("snap")
    BY <2>2 DEF Issued
  <2>4. CASE Filed
    BY <1>1, <1>2, <2>1, <2>4 DEF Reward!account
  <2>5. CASE ~Filed
    <3>1. Reward!Miss(p)
      BY <1>1, <1>2, <2>1, <2>2, <2>3, <2>5 DEF Reward!Miss
    <3> QED
      BY <3>1 DEF Reward!Next
  <2> QED
    BY <2>4, <2>5
<1> QED
  BY <1>3, <1>4

\* Every other step leaves the document, the awards drawn and those astray alone.
LEMMA OthersStutter ==
  ASSUME [Next]_vars, ~Commit,
         \A p \in Photos : ~PlantScannerWorked(p) /\ ~CountSnap(p)
  PROVE  UNCHANGED <<cloud, committed, repeats, award, astray>>
<1> USE DEF server, snap
<1>1. CASE Launch \/ Navigate
  BY <1>1 DEF Launch, Navigate, OpenChallenge, BackToList, OpenProfile
<1>2. CASE Session
  BY <1>2 DEF Session, Press, PressSignIn, SignInRefused, SignInWorked, SignInCallback,
     GetUserSnapshot, GetUserError, GetUserCallback, FinishPermissions, SignOut, RemoveKeys
<1>3. CASE Withdrawal \/ BumpLocal \/ Crash
  BY <1>3 DEF Withdrawal, RequestWithdrawal, MailNotSent, MailSent, ClearRemote,
     BumpLocal, Crash
<1>4. CASE \E p \in Photos : CapturePhoto(p) \/ ScanResult(p) \/ Completion(p)
  BY <1>4 DEF CapturePhoto, ScanResult, PlantScannerFailed, Completion, Step, ReadSnaps,
     WriteSnaps, ReadMoney, WriteMoney, AwardMoney, AskEntries
<1>5. CASE \E p \in Photos : \/ PutData(p) \/ UploadEntries(p)
                             \/ GetEntries(p) \/ EntriesCallback(p)
  BY <1>5 DEF PutData, BlobStored, UploadFailed, UploadEntries, GetEntries,
     EntriesSnapshot, EntriesError, EntriesCallback
<1>6. CASE Worker
  BY <1>6 DEF Worker, Acknowledge, LoseConnection, HandleCredentialChange
<1>7. CASE UNCHANGED vars
  BY <1>7 DEF vars
<1> QED
  BY <1>1, <1>2, <1>3, <1>4, <1>5, <1>6, <1>7 DEF Next

\* The server's users/<uid> document only ever takes RewardAccount's steps, whatever the
\* device, its user and the network do.
THEOREM LedgerRefinesReward == Spec => ImplementsRewardAccount
<1>1. Init => Reward!Init
  BY DEF Init, Reward!Init, PhotosTaken
<1>2. TypeOK /\ LedgerInv /\ [Next]_vars => [Reward!Next]_(Reward!account)
  <2> SUFFICES ASSUME TypeOK, LedgerInv, [Next]_vars
               PROVE  [Reward!Next]_(Reward!account)
    OBVIOUS
  <2>1. CASE Commit
    BY <2>1, CommitRefines
  <2>2. CASE \E p \in Photos : PlantScannerWorked(p) \/ CountSnap(p)
    BY <2>2, PhotoRefines
  <2>3. CASE ~Commit /\ \A p \in Photos : ~PlantScannerWorked(p) /\ ~CountSnap(p)
    <3>1. UNCHANGED <<cloud, committed, repeats, award, astray>>
      BY <2>3, OthersStutter
    <3> QED
      BY <3>1 DEF Reward!account, PhotosTaken
  <2> QED
    BY <2>1, <2>2, <2>3
<1> QED
  BY <1>1, <1>2, TypeCorrect, LedgerInvariant, PTL DEF Spec, ImplementsRewardAccount, Reward!Spec
=============================================================================
