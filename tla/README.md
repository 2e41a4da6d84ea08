# Datability: a TLA+ verification project

Datability is an iOS application (SwiftUI and UIKit, `src/Datability/Datability/`).
Its users photograph plants that a *challenge* asks for. A photo is sent to an
identification service; when it shows the plant asked for, it is uploaded as an
*entry* of the challenge and earns the user a random amount of money. The user
later asks for the money by mail. The account lives in Firestore
(`users/<uid>`), and a second copy of its counters lives in `UserDefaults`,
which is what the profile shows and what a withdrawal asks for.

The application's own code is about 1400 lines of Swift in one directory. The
rest of the repository, `Pods/`, is third-party code in C, C++ and Objective-C.
Most of it is of no concern to the application's logic. Five parts of it are,
because the application rests on them for what it cannot do itself: Firestore's
write path (a counter raised offline must reach the server, and in order),
its read path (`getDocument` must be answered, and not with the past), the
streams under both, and the credentials these carry (a write must never be made
in the name of another user of the device), and the resumable upload of a photo
(an entry must not name a photo that is not there). These are modelled too.

## 1. Inventory

| Component | Code | State it keeps | Operations |
|---|---|---|---|
| Photo capture and rewards | `DatabilityChallengeExplanation.swift` | `isProcessingResults`, per view | `onChange(of: dataSelectedImage)`, completion of `plantScanner`, callback of the entries query |
| Plant identification | `PlantScannerPost.swift`, `plantScanner` | none; one call | guards on the arguments, HTTP request, guards on the answer, comparison of names, completion |
| Photo upload and entries | `PlantScannerPost.swift`, `uploadPhoto`, `uploadEntries` | Storage objects, documents of `challenges/<id>/entries` | put, callback of the put, new entry |
| Profile, withdrawal, sign-out | `DatabilityProfile.swift` | `databaseProfile` (a snapshot), `shouldPresentWithdrawal` | open, mail sheet, `didFinishWith`, sign out |
| Login and onboarding | `DatabilityLogin.swift`, `DatabilityPersonalInfo.swift`, `DatabilityUserLoginFirebase.swift` | `currentUser` (keychain), `users/<uid>`, the identity keys of `UserDefaults` | sign in or create, personal information, permissions, `getUser`, `uploadUser` |
| Local profile | `DatabilityFetchFirestoreProfile.swift`, `DatabilityUser.swift` | `UserDefaults` | `fetchProfileData`, `fetchDatabilityChallenges` |
| Window, launch, tabs | `ViewController.swift`, `HomeBottomBar.swift`, `AppDelegate.swift`, `SceneDelegate.swift` | the view shown | `viewDidLoad`, tab selection |
| Challenge list and map | `DatabilityChallenges.swift`, `DatabilityMaps.swift` | `allChallenges`, `allMapCoordinates` | reload on appearance, append coordinates |
| Challenge texts and pictures | `PlantScannerPost.swift`, `createNLPSummaries`, `getPhotoChallengesURL` | one view each | one request each |
| Firestore write path | `sync_engine.cc`, `local_store.cc`, `leveldb_mutation_queue.cc`, `remote_store.cc`, `write_stream.cc` | a mutation queue per user (persisted), the next batch number, callbacks, the write pipeline | write, acknowledge, reject, change of user, restart of the network, restart of the process |
| Firestore read path | `document_reference.cc`, `event_manager.cc`, `query_listener.cc`, `sync_engine.cc`, `remote_store.cc`, `remote_event.cc`, `online_state_tracker.cc` | listeners, listen targets, pending answers per target, online state and its timer, the cache | get, add and remove a listener, watch changes, snapshots, timeout, failure |
| Firestore streams | `stream.cc`, `watch_stream.cc`, `write_stream.cc` | state, close count, back-off, idle timer | start, credentials, open, write, read, idle, close |
| Credentials and tokens | `FIRAuth.m`, `FIRUser.m`, `FIRSecureTokenService.m`, `FIRAuthSerialTaskQueue.m`, `firebase_auth_credentials_provider_apple.mm` | the user, the tokens, the last token notified, the provider's user and counter | sign in and out, fetch and refresh a token, notify, hand out a token |
| Storage uploads | `GTMSessionUploadFetcher.m`, `FIRStorageUploadTask.m` | the request in flight, the current offset, whether to ask for the offset | start, chunk, query, final callback |

**How they interact.** Three threads of control share state. The *main thread*
runs the buttons, the mail sheet and every Firebase callback. *URLSession's
delegate queue*, which is serial, runs the completion of `plantScanner`: this
closure updates `UserDefaults` and Firestore off the main thread. *Firestore's
worker* answers queries and persists writes in a queue that survives the
process and is sent when the network allows. `UserDefaults`, the write queue and
`Auth.auth().currentUser` are what they share; no lock or transaction relates
the two copies of the counters. Inside the pods there is a fourth, the serial
*work queue of FirebaseAuth*: a change of user goes from there to the main queue
(the credentials provider) and from there to Firestore's worker, each hop being
a message, while tokens travel the same way.

**What is hard.** Two photos in flight; the entry of a photo racing the query
that asks whether it is the first; a read-increment-write of `UserDefaults`
off the main thread while the main thread sets the same key to 0; a snapshot
that is old when it is mailed; callbacks that arrive after a sign-out; a crash
between the write of one copy and of the other; writes that wait offline across
restarts, and increments that are applied again when an answer is lost; two
presses of *Sign in* whose answers overlap with typing, onboarding and sign-out, or
bring the user back in the middle of a photo; a worker that hears of a change of
user late; write results that name no write and are matched by position; a
stream that is closed and started again while its credentials are asked for; a
user who changes while a token is on its way; a target that is watched again
before the answers to the earlier watch have come. PROJECT.json lists these
hazards at their lines.

**What makes it correct.**
- *Account*: it counts no photo that was not identified, and none twice but by a
  repeated commit; no more challenges than snaps and never more money than the
  counted snaps can earn, but for snaps that were written for nobody and for
  repeated commits; a counted photo does not lose its snap; it changes only in the
  abstract account's steps.
- *Entries*: an entry always has its photo in Storage.
- *UserDefaults*: agrees with the account up to what is under way, until a
  crash or a sign-out parts them.
- *Withdrawal*: the mail does not ask for more than the balance.
- *Views*: a spinner does not stay; what is accepted is settled; a pending write
  arrives.
- *Session*: the profile shown is that of the user signed in; documents are those
  of their accounts, exist, and are not overwritten by onboarding.
- *Challenge list and map*: late answers do not take the list back; an entry has
  one marker per answer that had it.
- *Writes*: none lost, none in the wrong order, each answered with what became
  of it; the pipeline matches the wire.
- *Reads*: one callback each, and an answer said to be the server's is at least
  as new as the read.
- *Uploads*: bytes in their places, success only with the whole photo, an end.
- *Credentials*: an open stream carries the token of the user whose writes go
  over it, and ends up with that of the user signed in.
- *Identification*: exactly one completion, accepting exactly what the
  comparison is meant to accept.

## 2. Modules

| Module | What it is |
|---|---|
| `RewardAccount` | abstract specification: what the server's `users/<uid>` may go through |
| `SnapLedger` | the core: one device, its three threads, one onboarded account |
| `MCSnapLedger` | `SnapLedger` for TLC (symmetry of the photos) |
| `SnapLedgerProofs` | type correctness, the inductive invariant, the safety theorems, and that `SnapLedger` implements `RewardAccount` |
| `PlantIdentify` | one call of `plantScanner`, with the comparison of names |
| `Session` | accounts, sign-in, onboarding, `getUser`, sign-out, two users of one device |
| `ChallengeFeed`, `MCChallengeFeed` | the tabs, the challenge list, the map's markers |
| `PendingWrites` | abstract specification: a persistent queue of writes per user, committed in order |
| `Stream` | the operators of a Firestore stream, shared by the next two modules |
| `WritePipeline` | Firestore's write path, down to the server; implements `PendingWrites` |
| `DocumentReads` | Firestore's `getDocument`, down to the server |
| `ResumableUpload` | Firebase Storage's `putData`, down to the server |
| `CredentialStream` | whose token a stream carries: FirebaseAuth, the provider, the worker |
| `SessionProofs`, `ChallengeFeedProofs`, `WritePipelineProofs`, `DocumentReadsProofs`, `CredentialStreamProofs`, `ResumableUploadProofs`, `PlantIdentifyProofs` | the inductive invariant of the module each is named after, and its safety theorems |

The application's modules and the pods' modules meet in three places. The `writes`
of `SnapLedger` with its actions `Commit`, `Acknowledge` and `LoseConnection`, and
the `pending` of `Session`, are the write path seen from the application: a user's
queue, committed in order, of which what was sent and not answered is sent again.
The order is what `PendingWrites` says, and `WritePipeline` is shown to
implement `PendingWrites`. The action `HandleCredentialChange` is in
`WritePipeline`, where it exchanges the queue, and in `CredentialStream`, where it
is one end of the path a change of user takes. `PutData` of the ledger, one step
that works or fails, is what `ResumableUpload` goes through.

### SnapLedger and the code

- **A photo** goes through `job` (where its completion handler is), `upload`
  (its Storage upload) and `query` (its question about earlier entries). The
  statements of the handler at `DatabilityChallengeExplanation.swift:81-103` are
  the actions `PlantScannerWorked`, `ReadSnaps`, `WriteSnaps`, `ReadMoney`,
  `WriteMoney`, `CountSnap`, `AwardMoney`, `AskEntries`, in program order: every
  read and every write of shared state is a step of its own, because the main
  thread, a crash or Firestore's worker may come between. `reg` holds the value
  read and not yet written. The delegate queue being serial, only one photo is
  inside these statements at a time (`QueueFree`).
- **The main thread** runs one handler at a time (`MainFree`). A handler that
  writes two places is two steps, with `main` saying where it is: `SignOut` then
  `RemoveKeys`; `EntriesCallback` then `BumpLocal`; `MailSent` then
  `ClearRemote`. The other threads and a crash may come between the two; another
  main-thread handler may not.
- **The account** is `cloud` on the server and `writes`, the persisted queue of its
  user. A write is an operation on the account, as in the code: `FieldValue.increment`
  for snap, award and challenge, an entry more, the assignment of 0 by a withdrawal.
  `taken` of the queue's writes have reached the server and `answers` of these are to
  be answered over this connection: `Commit` applies the next one, `Acknowledge`
  removes the first, and `LoseConnection`, a change of user and a crash set `answers`
  to 0, after which the server takes the same writes *again*. `repeats` counts how
  often that happened, `committed` what it ever took. `Due` is the account once all
  is taken; `Seen` is what this device may read (its unanswered writes over the
  server's copy, which may have them already, or over the cached one).
- **Who is signed in** is read at the moment of every write, as the code does
  (`Auth.auth().currentUser?.uid ?? "ERROR"`). Signed out, a write goes to
  `users/ERROR`, which does not exist, and `updateData` on it is refused. Firestore's
  `worker` learns of a change of user through `notices`, later than the main thread:
  until then it goes on committing the queue of a user who has left
  (`HandleSuccessfulWrite` has no check), and files the writes of one who has just
  come in the queue of nobody. `Filed` says that a write is for the account and in its
  queue; `astray` records the photos whose snap was not.
- **Signing in.** The button is never disabled, so that a press may still wait for its
  answer when the home view is shown: `Init` has such presses. `SignInWorked` sets the
  user when the answer comes (`FIRAuth.m:1999`, `2027-2053`), whatever view is shown
  and whatever photo is under way by then; its callback asks for the document
  (`SignInCallback`, `GetUserSnapshot`, `GetUserCallback`).
- **Signing out** removes the keys and puts the same home view back on the
  window: `ViewController.homeView` is not rebuilt. The model therefore stays on
  the profile with the same `databaseProfile`; the login view comes only with
  the next launch.
- **Failure.** `Crash` may happen at every step; keychain, `UserDefaults`, the
  write queue, the server and Storage stay. Uploads, queries and `getUser` may
  fail; the identification service may fail or refuse. A photo captured without
  a location is the stage `stuck`: the handler returns with its spinner on.

What is abstracted: the identity keys (name, mail, ...) are one flag `named`;
the seven keys that `getUser` and the sign-out write are written in one step;
the random amount 0.1-1.0 is a choice in `1..MaxAward` units (the code's draw is
positive and bounded, and no property uses more), and is remembered in `award`; a
write is in the persisted queue when the call returns; the challenge each photo is taken for is chosen in
`Init`, the user deciding which one to open. Wording, layout, coordinates and
dates are left out. One assumption on the server is not in the repository, whose
security rules are not part of it: a write to `users/<uid>` from the queue of nobody,
sent without a token, is refused. There is one device and one account here: a second user on the
same device is in `Session` and, for the writes, in `WritePipeline`; a second
device of the same user is in the plan.

### RewardAccount

The promise of the document, without threads, devices or queues. A photo is
identified, which fixes what it earns (`Identify`), and then adds its snap, its award
and its challenge: `CountSnap` only if it was identified, `Award` and
`CompleteChallenge` only if its snap was counted or was written for nobody (`Miss`).
Each is added once, or is one of the `repeats` that are counted; the award of a photo
is the same each time. `PayOut` sets the money to 0. The guards are not in the
application or on the server: that the ledger never violates them, in whatever order
sign-ins, sign-outs, lost answers and crashes come, is the content of the refinement.

### PlantIdentify

The guards of `plantScanner` in program order, each either failing the call or
letting it go on; names are short sequences over letters and the space, because
the verdict depends on `components(separatedBy: " ").first`, which for an empty
name or a leading space is the empty string.

### Session

An account is named by its email, a document and the profile in `UserDefaults` by
the email they carry. `request` follows each press of the button, which is never
disabled: `SignIn`; the answer (`SignInWorked`, `SignInFailed`: the code cannot
tell an unknown account from a wrong password or a lost network); the callback
(`SignInCallback`, or `CreateUser` with the text field as it is *by then*);
`AccountCreated`, `CreateWorked`, `CreateFailed`, `CreateCallback`;
`GetUserAnswered`, `GetUserCallback`. `currentUser` changes with Auth's answer,
before the callback reaches the main queue. A sheet that is asked for when the
login view is gone, or covered, is never shown (`Presented`). The two sheets end
in `FinishPermissions` and `FinishPersonalInfo`, the latter followed by
`UploadUser`, which writes the document of whoever is signed in at that moment.
`Crash` may come at any step and loses the callbacks.

Four history variables say in which circumstances the code makes no promise
(`overlapped`, `edited`, `leaked`, `halfMade`). The properties name these as the
*only* exceptions: any other path to a profile of somebody else, or to an account
without a document, would violate them.

### ChallengeFeed

Each appearance of the list makes two queries on the collection of challenges, and
one more per challenge for its entries. Queries on one collection are answered in
order, from the server or the cache or with an error, and their callbacks run in
order; the nested ones are in any order. The list is a view of its own per
selection of the Home tab, and answers to a view that is gone change nothing. The
array of markers is static: nothing, not even `SignOut`, empties it. `got` of a nested
query is its answer, and once the callback has run the part of it that was the user's
own, so that markers and answers can be compared.

### Stream, WritePipeline, DocumentReads

Firestore's worker queue is serial, so that one action is one operation of that
queue together with everything the operation calls. The C++ methods are operators
from state to state under their own names, and an action composes them as the
method's body does. A `HARD_ASSERT` that fails is recorded in `failed`; the
properties `NoHardAssertFails` say that none does.

`up` and `down` are what is on the wire of the present connection; closing the
stream loses both. That is the fault model: a request or an answer is delivered
once and in order, or it and everything after it is lost with the connection.
`Crash` keeps the mutation queues and the server; `Restart` computes the next
batch number from the queues, as `LoadNextBatchIdFromDb` does. A mutation queue is
a sequence in the order of its keys; `Seek` is the position at which LevelDB's
iterator would stand, and the next batches, and a queue without one of its batches,
are cut at that position.

Assumptions on the server, marked external: it handles a connection's messages in
order and answers each once; it ends a write stream with a permanent error only
for a write it refuses; it is done with what it took from a cancelled stream
before it serves the next; it sends a snapshot when every target it watches is
current; it never ends a stream with status OK. (`Stream::OnStreamFinish`,
`stream.cc:353-364`, passes any status on, `grpc_stream.cc:312-323` too, and an OK would
be taken for the client's own graceful stop, whose assertions in
`remote_store.cc:453-457` and `233-238` fail when the stream is still needed. The
`NoHardAssertFails` of both modules are under this assumption.) `MutationResult` needs
a write in the pipeline, where the code asserts it (`remote_store.cc:437`); that no
answer comes without one is part of `AnswersMatchPipeline`. The handshake does not resume the stream (`write_stream.cc:81`: "TODO(dimond):
Support stream resumption"), so a write whose answer was lost is sent, and may be
committed, again. `ServerCommit` appends it to the log again; the refinement
counts the first commit of each write. What the repetitions do to an account is in
`SnapLedger`, whose writes are increments.

`Open` stands for the states Open and Healthy of the stream, which differ only in
the back-off's reset. Documents are not deleted, and a document is its own query,
view and target. Left out of `DocumentReads`: listens that the server rejects,
existence filters, limbo documents, queries over collections.

One observation is recorded as a hazard and not as a finding, since no document
speaks against it: `StopListening` (`remote_store.cc:187`) sets the online state to
Unknown and cancels its timer although the stream may be starting; a read made
then finds a started stream and starts no timer. As long as the connection neither
fails nor answers, such a read is not given the cached document after ten seconds.

### CredentialStream

`users` are the `FIRUser` objects with the number of their token, since a refresh
that gives a user a new token is a change to be notified like a change of user.
`asked`, `tasks` and `refreshing` are the token requests on their way through
FirebaseAuth; `main` and `worker` are the two FIFO queues. A token carries the user
it was issued to and the user the provider *labels* it with; the label matters
because the authorization header is made from the token's user
(`grpc_connection.cc:261`). The set `tasks` over-approximates the FIFO of
FIRAuthSerialTaskQueue. The stream is one that is always needed: it is restarted
whenever it ends, as a stream with listeners is. App Check is not used by the
application and is left out.

### ResumableUpload

One request is in flight at a time; `reply` is what its fetcher finishes with, and a
handler runs when there is one: `InitialRequestFinished` (`beginChunkFetches`),
`ChunkFinished`, `QueryFinished`, the last two through `ChunkFetcherFinished`, as in
the code. Bytes are numbered, so that a byte in the wrong place is seen. The
arithmetic of the chunks is kept: the bound of the buffer, the rounding to the
granularity, the rest that goes with the chunk before it. Camera pictures are
uploaded as PNG data, which easily exceed one buffer of 10 MB. A request or its answer may be
lost, a connection may break within a chunk, the server may give the upload up.

Assumptions on the server: it keeps whole granules of a chunk that breaks off and
states its granularity in every answer; it refuses a chunk that does not begin where
it is, with a 4xx, as the comment at `GTMSessionUploadFetcher.m:1499` has it; it does
not know the length of the photo, so that ending the upload too early is possible; its
first reply has the location of the upload and its answer to a query the size, so that
the premature errors for their absence (lines 1007 and 1168) do not come up. They end in
the handlers' errors for an upload that was cancelled.

`UploadEnds` has one exception. When the server has taken the last byte and not the
end of the upload, the query finds the upload active and complete;
`queryFetcher:finishedWithData:error:` treats this as done (line 1184, "Handle we're
done"), but `chunkFetcher:finishedWithData:error:` takes only a final status for an
end: it sends the chunk at `currentOffset` again, which the retry block has set to 0.
The server refuses that chunk, is asked again, and so on. Whether Storage's server can
be in this state is not in the repository, hence a hazard and not a finding.

## 3. Runs

| Run | Instance | Shows |
|---|---|---|
| `ledger_two_photos` | 2 photos of 1 challenge, 1 launch, no mail | entries have their photos, `UserDefaults` mirrors the account, over every interleaving of two photos with a sign-out and a crash |
| `ledger_late_sign_in` | 1 photo, 2 launches, 1 press of *Sign in* per process, the first one pressed before the home view came | bounds of challenges and money, snaps kept, the inductive invariant, the refinement, with a sign-in answer that comes late and a worker that hears of it later |
| `ledger_restart` | 1 photo, 2 challenges (one without id), 2 launches, 1 mail, pipeline of 2, 1 lost connection, `FairSpec` | types, mail within the balance, snaps counted, photos settle, with crashes, restart, withdrawal and writes that are applied again |
| `identify` | names up to 3 characters over 2 letters and the space | one completion, and acceptance of exactly the genus |
| `session` | 2 emails, 2 presses, 3 launches, `FairSpec` | whose profile, whose document, which accounts have one; every press settles |
| `feed` | 1 challenge edited once, 2 entries, 3 appearances | one marker per answer that had the entry, lists that go forward |
| `pipeline` | 3 writes (one refused), 2 users, pipeline of 2, 3 faults, `FairSpec` | assertions, matching by position, nothing lost, callbacks, the refinement, queues drain |
| `reads` | 2 reads of 1 document with 2 versions, 2 faults, `FairSpec` | assertions, one callback, freshness, bookkeeping of the aggregator, every read answered |
| `upload` | photos of 0 to 13 bytes, buffer 5, granularity 2, slack 2, 5 faults, `FairSpec` | bytes in place, success means stored, uploads end |
| `credentials` | 2 users, 3 events, `FairSpec` | the stream's token is its user's, labels, no request lost or doubled, the stream follows the user |
| `ledger_first_entry` | 2 photos, 1 challenge, 1 launch | **violated**: see section 4 |
| `ledger_stale_mail` | 1 photo, 1 launch, 1 mail | **violated**: see section 4 |

The properties, in words:

- `EntryHasBlob` speaks of the account once all is taken (`Due`).
- `ChallengesWithinSnaps`, `MoneyWithinSnaps`, `SnapsWithinAccepted` bound the server's
  numbers by each other and by the photos. Their two exceptions are events the model
  records: a snap written while there was no user to write it for (`astray`), and an
  increment that the server took again (`repeats`). A lost, doubled or misplaced write
  for any other reason violates them.
- `SnapsKept`: a completion that went past its increment of snaps has not lost it, if it
  was written for the account at all: it is in the queue or on the server, whatever the
  changes of user, connections and processes in between.
- `LocalMirrorsAccount`: in the first process, until a sign-out or a late sign-in
  answer, `UserDefaults` and the account differ, in snaps and challenges, by exactly the
  statements under way and the repetitions.
- `MailWithinBalance`: the snapshot that a mail asks for may be too low, never
  too high, in a process in which nobody pressed *Sign in*.
- `ImplementsRewardAccount`: the refinement.
- `PhotosSettle`: a photo that was sent loses its
  spinner and is refused, or counted, asked about and uploaded or given up, or
  the process dies.
- `AcceptsExactlyTheGenus` states the comparison declaratively (a common first
  word) and compares it with the splitting the code does; `CompletesOnce` is the
  promise the spinner depends on.
- `ProfileIsOwn`, `DocumentNamesItsAccount`, `AccountsHaveDocuments`,
  `OnboardingKeepsDocuments`, `SignedOutStays`: the session's promises with their
  exact exceptions; `RequestsSettle`: every press of the button settles.
- `MarkersPerAppearance`: an entry has exactly one marker for every appearance whose
  answer had it as the user's own; the array is never cleared, so that it is marked
  again each time. `ListGoesForward`: a late
  or empty answer never takes a list back.
- `AnswersMatchPipeline`: what is on the wire is the answers of the first writes of
  the pipeline, then the requests of the rest, and the pipeline is the front of the
  queue. `NoWriteLost`, `CompletionsTellTheTruth`, `ImplementsPendingWrites` and
  `WritesSettle` rest on it.
- `CalledAtMostOnce`, `AnswersAreFresh`, `AnswersAreDue`, `ReadsAreAnswered`: reads.
- `StoredIsPrefix`, `SuccessMeansStored`, `UploadEnds`: uploads.
- `StreamIsOwn`, `TokensAreLabelled`, `Awaited`, `StreamFollowsUser`: credentials.
  Two checks of the code protect `StreamIsOwn`, the provider's token counter and
  the stream's close count, and each of them alone suffices for it; the first
  alone protects the labels.

**Bounds.** Every hazard of the ledger needs at most two photos (two queries, one
upload against another's query) and at most one mail. All of it at once does not fit in
a few minutes, so each run has the part its question needs: two photos in one process;
one photo with a late sign-in, where one press per process suffices, since the
onboarding before `Init` stands for the press that came first; one photo over two
processes with a mail and a lost connection, under fairness, where two unanswered
writes are the snap and the award, and a crash and the loss together repeat a
repetition (a crash or a change of user loses answers too, so that writes are applied
again in `ledger_late_sign_in` as well). What the runs leave out together is covered, for the safety
properties, by the theorems, which have no bounds. The bounds are `MaxLaunches`,
`MaxMails`, `MaxPresses` and `MaxLosses`, guards of `Launch`, `MailSent`, `PressSignIn`
and `LoseConnection`, and the sets of photos and challenges; `kMaxPendingWrites` is the
pipeline's capacity in the code (10), here 1 or 2. Names of three characters
contain every shape the split tells apart: empty, leading, trailing and inner
space, one word. In `session` two presses overlap, or the second follows a
sign-out and a relaunch for another user. In `feed` three appearances give one
answer overtaken on either side. In `pipeline` a capacity of 2 against 3 writes
makes the pipeline full with a write waiting behind it; three faults are a lost
answer, a change of user and the way back. In `reads` the second read meets the
target of the first while its answers are due; two failures are what the online
state tracker tells apart (the first after a success makes the state unknown, the
next one offline). In `credentials` three
events are a sign-in, a sign-out and another user, or a user, a refresh and its
failure. In `upload` the lengths meet every case of the chunk arithmetic: empty, less
than a granule, exactly one chunk, a rest below and at the slack, several chunks.
In the other modules `MaxPresses`, `MaxAppear`, `MaxFaults`, `MaxVersion` and `MaxEvents` are
guards of the actions they count.

**Deadlock** is not checked: a process that died for the last time, a call that has
returned, a queue that is empty once the user is done really stop.

**Fairness** is as weak as it can be: something that is able to go on does, and
which of them is left open. `SnapLedger`: a handler that the main thread has begun
goes on (`WF(MainStep)`), and in the background something goes on (`SF(Background)`:
the completion, the services' answers, the callbacks, `Commit`, `Acknowledge`,
`HandleCredentialChange`); strong, since
callbacks wait for the main queue, which is FIFO and so runs them however often it
is busy in between. `Session`: Auth and Firestore answer each request, if only with
an error, and callbacks are run, for the same reason. `WritePipeline` and
`DocumentReads`: one weak fairness condition each, on the disjunction of the worker
queue's operations, the answers of credentials and server and the elapsing of the
back-off. `ResumableUpload`: requests are answered, if only with an error, and
replies handled. `CredentialStream`: one per queue. The user, `Crash`, `Launch`, the idle timer and every
failure owe nothing. Failures are bounded by the constants, which is what "once
failures end" means in the liveness properties.

## 4. What the violated runs show

1. **`FirstEntryCounted`** (`DatabilityChallengeExplanation.swift:89-90`). The
   comment says the counter is incremented on the first upload to a challenge.
   The upload is started before the query, and nothing orders the two: when the
   photo's own entry is there first, the query finds it and the challenge is
   never counted.
2. **`MailAsksTotalEarned`** (`DatabilityProfile.swift:113`). The mail asks for
   the snapshot taken when the tab was opened, while sending it sets the whole
   balance to 0; an award in between is lost.

## 5. What is proved

Every theorem holds for every value of the constants that satisfies the named
assumptions of its module: finite sets of photos and of entries, any set of
users or emails without the names for nobody, any set of documents without the name
for none, any letters other than the space, at least one version of the challenges, positive sizes of buffer, granule, pipeline and award, and bounds that
are natural numbers. None of the assumptions restricts how often something happens.

| Theorem (module) | Statement |
|---|---|
| `TypeCorrect` (`SnapLedgerProofs`) | `[]TypeOK` |
| `LedgerInvariant` | `[]LedgerInv`; from it `ChallengesBounded`, `MoneyBounded`, `SnapsBounded`, `EntriesHaveBlobs` |
| `SnapsAreKept` | `[]SnapsKept` |
| `MailsWithinBalance` | `[]MailWithinBalance` |
| `DeviceMirrorsAccount` | `[]LocalMirrorsAccount` |
| `LedgerRefinesReward` | `ImplementsRewardAccount` |
| `SessionTypes` (`SessionProofs`) | `[]TypeOK` |
| `ProfilesAreOwn`, `DocumentsNameAccounts`, `AccountsAreOnboarded` | `[]ProfileIsOwn`, `[]DocumentNamesItsAccount`, `[]AccountsHaveDocuments` |
| `OnboardingSafe`, `SignedOutForGood` | `OnboardingKeepsDocuments`, `SignedOutStays` |
| `ListsGoForward`, `MarkersAreCounted` (`ChallengeFeedProofs`) | `ListGoesForward`, `[]MarkersPerAppearance` |
| `PipelineInvariant` (`WritePipelineProofs`) | `[]PipelineInv`; from it `HardAssertsHold`, `AnswersMeetTheirWrites`, `WritesAreKept`, `CompletionsAreTrue` |
| `PipelineRefinesPending` | `ImplementsPendingWrites` |
| `ReadInvariant` (`DocumentReadsProofs`) | `[]ReadInv`; from it `ReadTypesHold`, `ReadsNeverAssert`, `ReadsCallOnce`, `ReadsAreFresh`, `ReadsAreDue` |
| `StreamsAreOwn`, `LabelsAreTrue`, `RequestsAreAwaited` (`CredentialStreamProofs`) | `[]StreamIsOwn`, `[]TokensAreLabelled`, `[]Awaited` |
| `StoredPrefix`, `SuccessIsTrue` (`ResumableUploadProofs`) | `[]StoredIsPrefix`, `[]SuccessMeansStored` |
| `VerdictIsGenus`, `HandlerCalledOnReturn` (`PlantIdentifyProofs`) | `[]AcceptsExactlyTheGenus`, `[]CalledOnReturn` |

**The ledger.** None of the bounds is inductive: they compare numbers on the server,
and what keeps these apart is the history of the writes. `LedgerInv` has two halves.
*Ledger* is about the queue: what the server has taken are its first writes and was
taken before, no increment is in it twice or comes back to it (`QueueInv`); the award
and the challenge of a photo come behind its snap, unless that was written for nobody
(`InOrder`); the server's snaps and challenges are the number of photos whose write it
took plus the repetitions, and its money at most `MaxAward` for each award and each
repetition (`AddsUp`). *Progress* is about the photos: how far a photo is when its
writes have been made (`IssuedBy`), which is why none is made twice, also when a crash
or a sign-out intervenes; that a snap passed is a snap kept (`SnapsKept`); how the
stages of a photo fit together (`Stages`), and that only one completion runs (`Serial`).
Nothing is assumed about when a user signs in: a sign-in answer changes `currentUser`
and `notices` only, at any moment, and the invariant does not mention them. The set
`Issued(k)` of photos with a write of kind `k`, in the queue or taken, grows only by a
write that is `Filed`, and `Commit`, `Acknowledge` and everything that loses answers
leave it alone; with that, each action disturbs one half only.

The bounds follow: a photo with an award or a challenge on the server has its snap
there or is in `astray` (`InOrder`), and counting sets gives the inequality. For the
refinement, `Commit` is the step of `RewardAccount` for the kind of write it takes, a
repetition if the write was taken before; the identification and the increment that
goes astray are `Identify` and `Miss`; every other step leaves the document alone.

`MailWithinBalance` needs `BalanceInv`: the read-increment-write of a completion
handler keeps a balance in `reg` while the mail sheet may clear the one it was read
from, so the snapshot must stay below the register as well as below `UserDefaults`.
The mirror needs `MirrorInv`: in a first session nothing was restored, every write was
filed, so that what is due is the photos with a write plus the repetitions
(`DueCounts`), and nobody but the handler itself
writes the snaps it has read (`SnapsRead`). That is false of the money, which the
main thread clears, and the property does not speak of the money.

**The session.** `SessionInv` says who may be signed in on which view. In the login
view nobody is, but by a request not handled yet or under a sheet
(`LoginMeansNobody`); as long as nobody types under an outstanding request,
everything there is about the address in the field (`OneAddress`); an account just
made has no document (`NewAccountsAreEmpty`); the keys in `UserDefaults` are nobody's
or the user's, and agree with what a request under way will make of the user
(`KeysAreOwn`); without a second press at most one request is outstanding and the
login view is as it was (`OneAtATime`). Each part is conditional on the history
variable that the properties name as exception, and on no other.

**The challenge list and the map.** For the list, `ListInv`: answers that wait for
their callbacks are no older than what is shown, no newer than the cache, and
ascending in the order of the queries. The markers have an invariant of their own,
`MarkerInv`: the entries of an answer are those of the challenge it was asked about,
entries are asked for once per appearance, and the places of an entry among the markers
are as many as the appearances whose handled answer has it. Its step lemmas say what
appending a finite set, put into a sequence, does to such a count: one more for what is
in the set, nothing else.

**The write path.** Answers carry no name, so that everything rests on positions.
`PipelineInv` says of the remote store `Settled(remote, Queue, log)`: the pipeline is
the front of the queue of the present user, within its capacity (`Front`); after the
handshake the wire holds the answers of the pipeline's first writes, each in
keeping with the server's log, and then the requests of the rest (`Matching`);
before, it holds the handshake or its answer only (`Shaking`); closed, nothing
(`WireDown`); a stream that is starting has one current request for credentials
(`TokensCurrent`). `Working` is what remains of this inside an operation, between
the closing of a stream and the check whether to start it again, and the lemmas
about the C++ methods are stated with it: each method keeps `Working`, and each
operation ends `Settled`. The queues are ordered by number and below the next number
(`Numbered`), also after a restart recomputes it; completions are those of pending
batches (`CallbacksPending`). That the queues have a greatest number at a restart, so
that the next one is above all others, would be an induction; the proof takes the
least element of a set of naturals instead, which the library's facts about
well-founded orders give.

The refinement adds `CommitInv`: what is pending or committed was made, nothing is
pending twice, nothing refused is committed, and of each queue the *first* writes are
committed. The last part is the reason that commits are in order: the server's next
write is the first that it has not answered, all before it were committed, and if it
is itself in the log already it is one sent again. An acknowledgement then removes a
write that PendingWrites has long committed, and is invisible; a rejection removes the
first one outstanding. The log of first commits is defined with the rank of a position
among the positions where a write is new; that every rank is that of one position is
proved with least elements again.

**The read path.** That an answer of the server's is not older than the listen is far
from inductive: when the answer is given, all depends on what was on the wire long
before. `ReadInv` says of the remote store `Settled(remote, cache, since)`:

- `Calm`, what the `HARD_ASSERT`s rely on: a starting stream has one current request
  for credentials (`TokensCurrent`), the online state's timer runs only while a
  started stream has neither failed nor answered (`Tracker`), a closed connection has
  an empty wire and a fresh aggregator (`Down`), and only targets that are listened to
  have a current view;
- `Counted`: what the aggregator waits for about a target is the number of requests
  still on the way up and of answers still on the way down;
- `AllWanted`: the last request about a target that is listened to is to watch it, and
  if there is none the server has the target;
- `AllCurrent`: once the server has taken all requests about a target, everything
  *behind the last answer* on the wire is of the present listen. A document there is
  not older than the listen, and whenever a snapshot comes a document is `Supplied`:
  by the cache, by the aggregator, or by a message before the snapshot;
- `Known`: a request tells the server only of a version that the cache has, so that a
  document the server does not send again is there already;
- `ViewsFresh`: a view that is current is not older than the listen.

With `Counted`, a target that the aggregator takes for active has no answer left on
the wire, so that the whole wire is behind the last answer and `AllCurrent` speaks of
it: this is where the waiting for answers that are due makes old messages harmless.
The other parts are about the reads. The targets are the documents with listeners
(`Listening`), and those are reads of the document with the floor of its listen
(`ListenersRead`); a listener is added once, and nothing was heard before (`Enqueued`);
what was heard and what was answered is fresh (`Heard`); a read whose listener is not
muted has no answer (`Once`). As for the write path, the methods of the stream and of
the online state tracker have lemmas that they keep `Calm` (`RestartCalms`,
`UpdateCalms`), each operation of the worker queue and of the server one that it ends
`Settled` (`ListenSettles`, `AnsweredSettles`, `EventSettles`, `ServeSettles`), and
each action one that it keeps `ReadInv` (`AddKeeps`, `OnEventKeeps`). Counting places
on the wire rests on lemmas about places in joined sequences; that there is a greatest
place, of which `AnswersAreDue` speaks, is taken from least elements again.

**Credentials.** Two queues and two counters have to agree. `EndsWith` says that the
last change of user on a queue is to the user the queue's sender has, and the
receiver already has it if there is none. A token that will pass the provider's
counter when its turn comes is one of the user the provider has then (`InStep`); a
token on the worker's queue belongs to the user the sync engine will have when it
gets there (`TokensInStep`). No request is ahead of a counter (`RequestsBehind`), and
one that the stream waits for is in exactly one of the four places on its way
(`OneRequest`).

**Uploads.** `UploadInv`: a chunk in flight is a piece of the photo that begins at the
current offset on the boundary of a granule and ends on another or with the photo
(`ChunkIsPiece`); the server has whole granules until it has everything
(`ServerIsAligned`); a reply is still true when it is handled (`ReplyIsTrue`). The
arithmetic of the chunks, with its rounding and its slack, is in lemmas of its own.

**The verdict on a plant.** `ScanInv` says that the guards before the next one were
passed, that the handler was called if and only if the call has returned, and that it
was then told whether all guards are passed. The rest is about names:
`components(separatedBy: " ").first` is a word that begins the name and ends at a space
or with the name (`FamilyNameBegins`), and the only one (`BeginsIsFamilyName`), so that
comparing the first components is the same as asking for a common genus. The run has
names of up to 3 characters; the theorem has no such bound.

**Only model-checked**: the liveness properties (`PhotosSettle`, `RequestsSettle`,
`WritesSettle`, `ReadsAreAnswered`, `UploadEnds`, `StreamFollowsUser`,
`CompletesOnce`), since fairness is outside what these proofs can express. Every
invariant and every safety property of a step that a passing run checks is also a
theorem.

## 6. Not modelled, and the plan

Next:

- **Two devices** of one account: what remains of the bounds when two devices count and
  withdraw.

Left out for good:

- **Challenge texts and pictures** (`createNLPSummaries`, `getPhotoChallengesURL`):
  one answer fills one view, and no state is shared.
- **The rest of `Pods/`**: gRPC, BoringSSL, Abseil, LevelDB, the UI pods and the
  general parts of Firebase are libraries whose logic is not the application's. They
  are most of the repository's lines. What the modules rely on (a connection
  delivers in order or is lost, a transaction of LevelDB is atomic) is stated
  where it is used.
- **Inside the modelled pods**: what a mutation does to a document, transactions,
  `waitForPendingWrites`, limbo resolution, existence filters, garbage collection,
  other ways to sign in, the format of the keychain, uploads of files, pausing and
  cancelling an upload.
- The application and scene delegates beyond the choice of the first view, layout
  and wording.
