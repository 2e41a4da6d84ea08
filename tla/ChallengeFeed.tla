----------------------------- MODULE ChallengeFeed -----------------------------
(***************************************************************************)
(* The challenge list and the map of one process whose user is signed in.  *)
(*                                                                         *)
(* Every appearance of the list asks twice for the challenges collection:  *)
(* once to show it, once (getMapCoordinates) to ask each challenge for its *)
(* entries and to append a marker for each of the user's own to a static   *)
(* array. The queries of an appearance outlive the view they were made     *)
(* for. Firestore answers the queries on one collection in the order they  *)
(* were made, from the server or from its cache; the nested ones, on other *)
(* collections, are answered in any order.                                 *)
(***************************************************************************)
EXTENDS Integers, Sequences, FiniteSets, SequencesExt

CONSTANTS
    Entries,       \* the entries there may be: [challenge, host] records
    History,       \* the successive contents of the challenges collection
    MaxAppear      \* bound: how often the list appears

ASSUME EntriesAssumption == IsFiniteSet(Entries)
ASSUME HistoryAssumption == Len(History) \in Nat \ {0}
ASSUME AppearAssumption == MaxAppear \in Nat \ {0}

VARIABLES
    version,       \* which content of History the server has
    cached,        \* which one Firestore's cache has; 0 before the first
    posted,        \* the entries on the server
    currentUser,   \* "uid", or "nil" once signed out (for good: there is no
                   \* login view before the next launch)
    tab,           \* what the home view shows
    listView,      \* which view of the list: it is a new one per Home tab
    list,          \* databilityChallenges of that view: a version, or 0
    mapRegion,     \* the entry the map view is centred on; {} for the origin
    allMapCoordinates, \* the markers, oldest first
    appears,       \* how often the list appeared
    fetch,         \* per appearance: the query for the list
    coords,        \* per appearance: getMapCoordinates' query
    nested         \* per appearance and challenge: its query for entries; got is
                   \* the answer, and once that is handled what was marked of it

server  == <<version, posted>>
queries == <<fetch, coords, nested>>
vars == <<server, cached, currentUser, tab, listView, list, mapRegion,
          allMapCoordinates, appears, queries>>

Appearances == 1..MaxAppear
Challenges  == UNION {History[v] : v \in 1..Len(History)}
Versions    == 0..Len(History)
Query       == [at : {"none", "asked", "answered", "done"}, got : Versions,
                view : 0..MaxAppear]
NoQuery     == [at |-> "none", got |-> 0, view |-> 0]
Handed      == [at |-> "done", got |-> 0, view |-> 0]
NoEntries   == [at |-> "none", got |-> {}]
Content(v)  == IF v = 0 THEN {} ELSE History[v]

\* onAppear: fetchDatabilityChallenges, then getMapCoordinates.
Asked(q, a, w) == [q EXCEPT ![a] = [at |-> "asked", got |-> 0, view |-> w]]

Init ==
    /\ version = 1 /\ cached = 0
    /\ posted \in SUBSET Entries
    /\ currentUser = "uid"
    /\ tab = "list" /\ listView = 1 /\ list = 0
    /\ mapRegion = {}
    /\ allMapCoordinates = <<>>
    /\ appears = 1
    /\ fetch = Asked([a \in Appearances |-> NoQuery], 1, 1)
    /\ coords = Asked([a \in Appearances |-> NoQuery], 1, 1)
    /\ nested = [a \in Appearances |-> [c \in Challenges |-> NoEntries]]

(***************************************************************************)
(* The views                                                               *)
(***************************************************************************)
Appear(w) ==
    /\ appears < MaxAppear
    /\ appears' = appears + 1
    /\ fetch' = Asked(fetch, appears + 1, w)
    /\ coords' = Asked(coords, appears + 1, w)
    /\ tab' = "list"
    /\ listView' = w
    /\ UNCHANGED <<server, cached, currentUser, mapRegion, allMapCoordinates,
                   nested>>

\* A row of the list is opened, on top of the list.
OpenChallenge ==
    /\ tab = "list" /\ Content(list) # {}
    /\ tab' = "challenge"
    /\ UNCHANGED <<server, cached, currentUser, listView, list, mapRegion,
                   allMapCoordinates, appears, queries>>

\* Back: the same list appears again.
BackToList == tab = "challenge" /\ Appear(listView) /\ UNCHANGED list

\* The Home tab: a new list, empty until its query is answered.
OpenList == tab \in {"map", "profile"} /\ Appear(listView + 1) /\ list' = 0

\* The Maps tab: the map is centred once, on the first marker if there is one.
OpenMap ==
    /\ tab # "map"
    /\ tab' = "map"
    /\ mapRegion' = IF allMapCoordinates = <<>> THEN {}
                    ELSE {Head(allMapCoordinates)}
    /\ UNCHANGED <<server, cached, currentUser, listView, list,
                   allMapCoordinates, appears, queries>>

OpenProfile ==
    /\ tab # "profile"
    /\ tab' = "profile"
    /\ UNCHANGED <<server, cached, currentUser, listView, list, mapRegion,
                   allMapCoordinates, appears, queries>>

\* Sign Out, on the profile: the array of markers is not cleared.
SignOut ==
    /\ tab = "profile"
    /\ currentUser' = "nil"
    /\ UNCHANGED <<server, cached, tab, listView, list, mapRegion,
                   allMapCoordinates, appears, queries>>

(***************************************************************************)
(* The queries                                                             *)
(***************************************************************************)
\* The oldest outstanding query of its kind is answered: by the server, which
\* the cache then agrees with, from the cache, or (got = 0) with an error.
Answer(q, a, got) ==
    /\ q[a].at = "asked" /\ \A b \in 1..(a - 1) : q[b].at # "asked"
    /\ got \in {0, cached, version}
    /\ cached' = IF got = 0 THEN cached ELSE got

AnswerFetch(a, got) ==
    /\ Answer(fetch, a, got)
    /\ fetch' = [fetch EXCEPT ![a].at = "answered", ![a].got = got]
    /\ UNCHANGED <<server, currentUser, tab, listView, list, mapRegion,
                   allMapCoordinates, appears, coords, nested>>

AnswerCoords(a, got) ==
    /\ Answer(coords, a, got)
    /\ coords' = [coords EXCEPT ![a].at = "answered", ![a].got = got]
    /\ UNCHANGED <<server, currentUser, tab, listView, list, mapRegion,
                   allMapCoordinates, appears, fetch, nested>>

\* (mutant) Answers are delivered in any order.
Unordered(q, a) == q[a].at = "answered"

\* The callbacks run on the main queue, in the order of the answers.
Delivered(q, a) ==
    q[a].at = "answered" /\ \A b \in 1..(a - 1) : q[b].at # "answered"

\* The list's callback: an empty answer changes nothing, and neither does one
\* for a view that is gone.
Refreshed(a) ==
    IF Content(fetch[a].got) # {} /\ fetch[a].view = listView
      THEN fetch[a].got ELSE list

FetchCallback(a) ==
    /\ Delivered(fetch, a)
    /\ list' = Refreshed(a)
    /\ fetch' = [fetch EXCEPT ![a] = Handed]
    /\ UNCHANGED <<server, cached, currentUser, tab, listView, mapRegion,
                   allMapCoordinates, appears, coords, nested>>

\* getMapCoordinates' callback: one query per challenge.
CoordsCallback(a) ==
    /\ Delivered(coords, a)
    /\ coords' = [coords EXCEPT ![a] = Handed]
    /\ nested' = [nested EXCEPT ![a] = [c \in Challenges |->
                     IF c \in Content(coords[a].got)
                       THEN [at |-> "asked", got |-> {}] ELSE NoEntries]]
    /\ UNCHANGED <<server, cached, currentUser, tab, listView, list, mapRegion,
                   allMapCoordinates, appears, fetch>>

\* An entries query is answered: all there is, what the cache has of it, or (as
\* good as an empty answer) an error.
AnswerNested(a, c) ==
    /\ nested[a][c].at = "asked"
    /\ \E got \in SUBSET {e \in posted : e.challenge = c} :
           nested' = [nested EXCEPT ![a][c] = [at |-> "answered", got |-> got]]
    /\ UNCHANGED <<server, cached, currentUser, tab, listView, list, mapRegion,
                   allMapCoordinates, appears, fetch, coords>>

\* The entries hosted by whoever is signed in when the answer is delivered.
Own(a, c) == {e \in nested[a][c].got : e.host = currentUser}

\* (mutant) The answer is handled again whenever the map changes.
NestedCallbackAgain(a, c) ==
    /\ nested[a][c].at = "answered" /\ Len(allMapCoordinates) < 5
    /\ allMapCoordinates' = allMapCoordinates \o SetToSeq(Own(a, c))
    /\ UNCHANGED <<server, cached, currentUser, tab, listView, list, mapRegion,
                   appears, queries>>

\* The entries' callback appends; nothing ever empties the array. The documents
\* of an answer are in the order of their names.
NestedCallback(a, c) ==
    /\ nested[a][c].at = "answered"
    /\ allMapCoordinates' = allMapCoordinates \o SetToSeq(Own(a, c))
    /\ nested' = [nested EXCEPT ![a][c] = [at |-> "done", got |-> Own(a, c)]]
    /\ UNCHANGED <<server, cached, currentUser, tab, listView, list, mapRegion,
                   appears, fetch, coords>>

(***************************************************************************)
(* Everyone else                                                           *)
(***************************************************************************)
Publish ==
    /\ version < Len(History)
    /\ version' = version + 1
    /\ UNCHANGED <<cached, posted, currentUser, tab, listView, list, mapRegion,
                   allMapCoordinates, appears, queries>>

Post(e) ==
    /\ posted' = posted \cup {e}
    /\ UNCHANGED <<version, cached, currentUser, tab, listView, list, mapRegion,
                   allMapCoordinates, appears, queries>>

Next ==
    \/ OpenChallenge \/ BackToList \/ OpenList \/ OpenMap \/ OpenProfile
    \/ SignOut \/ Publish
    \/ \E e \in Entries : Post(e)
    \/ \E a \in Appearances :
           \/ \E got \in Versions : AnswerFetch(a, got) \/ AnswerCoords(a, got)
           \/ FetchCallback(a) \/ CoordsCallback(a)
           \/ \E c \in Challenges : AnswerNested(a, c) \/ NestedCallback(a, c)

Spec == Init /\ [][Next]_vars

(***************************************************************************)
(* Properties                                                              *)
(***************************************************************************)
Markers(e) == {i \in DOMAIN allMapCoordinates : allMapCoordinates[i] = e}
Handled(e) ==
    {a \in Appearances : \E c \in Challenges :
         nested[a][c].at = "done" /\ e \in nested[a][c].got}

\* An entry has exactly one marker for every appearance whose answer had it as the
\* user's own: in whatever order the answers come, none is handled twice and none
\* of them takes away a marker, and nothing clears the array, so the entry is
\* marked again each time the list appears.
MarkersPerAppearance ==
    \A e \in Entries : Cardinality(Markers(e)) = Cardinality(Handled(e))

\* A list goes forward only: a late answer never puts back an older content of
\* the collection, and an empty one never empties it.
ListGoesForward == [][listView' = listView => list' >= list]_vars
=============================================================================
