-------------------------- MODULE ChallengeFeedProofs --------------------------
(***************************************************************************)
(* Proofs about the challenge list and the map: a list never goes back to  *)
(* an older content, and an entry has exactly one marker for every answer  *)
(* that had it as the user's own.                                          *)
(***************************************************************************)
EXTENDS ChallengeFeed, FiniteSetTheorems, TLAPS

(***************************************************************************)
(* The list                                                                *)
(***************************************************************************)
\* The values of what the list depends on.
ListTypes ==
    /\ version \in Nat /\ cached \in Nat /\ list \in Nat /\ appears \in Nat
    /\ fetch \in [Appearances -> [at : {"none", "asked", "answered", "done"}, got : Nat,
                                  view : Nat]]
    /\ listView \in Nat

\* What is shown is no newer than what is cached, and that no newer than the server's.
ShownIsCached == list <= cached /\ cached <= version

\* An answer that waits for its callback is no newer than the cache, and, unless it is an
\* error, no older than what is shown.
AnswersAreNews ==
    \A a \in Appearances :
        fetch[a].at = "answered" =>
            fetch[a].got <= cached /\ (fetch[a].got # 0 => list <= fetch[a].got)

\* Queries are answered in the order they were made, and what they are answered with only
\* becomes newer.
AnsweredInOrder ==
    \A a, b \in Appearances :
        a < b /\ fetch[b].at = "answered" =>
            /\ fetch[a].at # "asked"
            /\ fetch[a].at = "answered" /\ fetch[a].got # 0 /\ fetch[b].got # 0 =>
                   fetch[a].got <= fetch[b].got

\* An appearance that is still to come has asked for nothing.
NothingAskedYet == \A a \in Appearances : a > appears => fetch[a].at = "none"

ListInv ==
    /\ ListTypes /\ ShownIsCached /\ AnswersAreNews /\ AnsweredInOrder /\ NothingAskedYet

\* The first list has asked, and has nothing.
LEMMA ListInit == Init => ListInv
<1> SUFFICES ASSUME Init PROVE ListInv
  OBVIOUS
<1>1. 1 \in Appearances /\ Appearances \subseteq Nat
  BY AppearAssumption DEF Appearances
<1>2. /\ fetch \in [Appearances -> [at : {"none", "asked", "answered", "done"}, got : Nat,
                                    view : Nat]]
      /\ fetch[1].at = "asked"
      /\ \A a \in Appearances : a # 1 => fetch[a].at = "none"
  BY <1>1 DEF Init, Asked, NoQuery
<1>3. \A a \in Appearances : fetch[a].at # "answered"
  BY <1>2
<1>4. NothingAskedYet
  <2>1. appears = 1 /\ \A a \in Appearances : a > 1 => a # 1
    BY <1>1 DEF Init
  <2> QED
    BY <1>2, <2>1 DEF NothingAskedYet
<1> QED
  BY <1>2, <1>3, <1>4
     DEF Init, ListInv, ListTypes, ShownIsCached, AnswersAreNews, AnsweredInOrder

\* A step that leaves the list and its queries alone, and what is cached no older.
LEMMA ListFrame ==
  ASSUME ListInv, UNCHANGED <<list, listView, fetch, appears>>,
         version' \in Nat, cached' \in Nat, cached <= cached', cached' <= version'
  PROVE  ListInv'
<1>1. ListTypes' /\ AnsweredInOrder' /\ NothingAskedYet'
  BY DEF ListInv, ListTypes, AnsweredInOrder, NothingAskedYet
<1>2. ShownIsCached' /\ AnswersAreNews'
  BY DEF ListInv, ListTypes, ShownIsCached, AnswersAreNews
<1> QED
  BY <1>1, <1>2 DEF ListInv

\* An appearance: a query more, for the list that appears.
LEMMA ListAppears ==
  ASSUME ListInv, NEW w \in Nat, Appear(w), list' \in {0, list}
  PROVE  ListInv'
<1>1. PICK n : n = appears + 1
  OBVIOUS
<1>2. /\ n \in Appearances /\ appears \in Nat /\ appears' = n /\ listView' = w
      /\ n = appears + 1 /\ Appearances \subseteq Nat
      /\ fetch' = [fetch EXCEPT ![n] = [at |-> "asked", got |-> 0, view |-> w]]
      /\ UNCHANGED <<version, cached>>
  BY <1>1, AppearAssumption DEF Appear, Appearances, Asked, ListInv, ListTypes, server
<1>3. ListTypes'
  BY <1>2 DEF ListInv, ListTypes
<1>4. \A a \in Appearances : a # n => fetch'[a] = fetch[a]
  BY <1>2 DEF ListInv, ListTypes
<1>5. fetch'[n].at = "asked"
  BY <1>2 DEF ListInv, ListTypes
<1>6. ShownIsCached' /\ AnswersAreNews'
  <2>1. list' \in Nat /\ list' <= list
    BY DEF ListInv, ListTypes
  <2> QED
    BY <1>2, <1>4, <1>5, <2>1 DEF ListInv, ListTypes, ShownIsCached, AnswersAreNews
<1>7. AnsweredInOrder'
  <2> SUFFICES ASSUME NEW a \in Appearances, NEW b \in Appearances, a < b,
                      fetch'[b].at = "answered"
               PROVE  /\ fetch'[a].at # "asked"
                      /\ fetch'[a].at = "answered" /\ fetch'[a].got # 0 /\ fetch'[b].got # 0 =>
                             fetch'[a].got <= fetch'[b].got
    BY DEF AnsweredInOrder
  <2>1. b # n /\ fetch'[b] = fetch[b]
    BY <1>4, <1>5
  <2>2. ~(b > appears)
    BY <2>1 DEF ListInv, NothingAskedYet
  <2>3. a # n /\ fetch'[a] = fetch[a]
    BY <1>2, <1>4, <2>2
  <2> QED
    BY <2>1, <2>3 DEF ListInv, AnsweredInOrder
<1>8. NothingAskedYet'
  BY <1>2, <1>4 DEF ListInv, NothingAskedYet
<1> QED
  BY <1>3, <1>6, <1>7, <1>8 DEF ListInv

\* What the cache has, or the server, is no older than what the cache had.
LEMMA AnswerIsNews ==
  ASSUME ListInv, NEW q, NEW a, NEW got, Answer(q, a, got)
  PROVE  /\ got \in Nat /\ cached' \in Nat /\ cached <= cached' /\ cached' <= version
         /\ got # 0 => cached <= got
         /\ got <= cached'
  BY DEF ListInv, ListTypes, ShownIsCached, Answer

\* The query for the list is answered.
LEMMA ListAnswered ==
  ASSUME ListInv, NEW a \in Appearances, NEW got, AnswerFetch(a, got)
  PROVE  ListInv'
<1>1. /\ Answer(fetch, a, got) /\ UNCHANGED <<version, list, listView, appears>>
      /\ fetch' = [fetch EXCEPT ![a].at = "answered", ![a].got = got]
  BY DEF AnswerFetch, server
<1>2. /\ got \in Nat /\ cached' \in Nat /\ cached <= cached' /\ cached' <= version
      /\ got # 0 => cached <= got
      /\ got <= cached'
  BY <1>1, AnswerIsNews
<1>3. Appearances \subseteq Nat
  BY DEF Appearances
<1>4. /\ fetch' \in [Appearances -> [at : {"none", "asked", "answered", "done"}, got : Nat,
                                     view : Nat]]
      /\ fetch'[a].at = "answered" /\ fetch'[a].got = got
      /\ \A b \in Appearances : b # a => fetch'[b] = fetch[b]
  BY <1>1, <1>2 DEF ListInv, ListTypes
<1>5. /\ fetch[a].at = "asked"
      /\ \A b \in Appearances : b < a => fetch[b].at # "asked"
      /\ \A b \in Appearances : fetch[b].got \in Nat
  BY <1>1, <1>3 DEF Answer, Appearances, ListInv, ListTypes
<1>6. ListTypes'
  BY <1>1, <1>2, <1>4 DEF ListInv, ListTypes
<1>7. ShownIsCached' /\ AnswersAreNews'
  BY <1>1, <1>2, <1>4, <1>5 DEF ListInv, ListTypes, ShownIsCached, AnswersAreNews
<1>8. AnsweredInOrder'
  <2> SUFFICES ASSUME NEW b \in Appearances, NEW c \in Appearances, b < c,
                      fetch'[c].at = "answered"
               PROVE  /\ fetch'[b].at # "asked"
                      /\ fetch'[b].at = "answered" /\ fetch'[b].got # 0 /\ fetch'[c].got # 0 =>
                             fetch'[b].got <= fetch'[c].got
    BY DEF AnsweredInOrder
  <2>1. CASE c # a
    <3>1. fetch'[c] = fetch[c] /\ fetch[c].at = "answered"
      BY <1>4, <2>1
    <3>2. b # a
      BY <1>5, <3>1 DEF ListInv, AnsweredInOrder
    <3>3. fetch'[b] = fetch[b]
      BY <1>4, <3>2
    <3> QED
      BY <3>1, <3>3 DEF ListInv, AnsweredInOrder
  <2>2. CASE c = a
    <3>1. fetch'[b] = fetch[b] /\ fetch[b].at # "asked" /\ fetch[b].got \in Nat
      BY <1>3, <1>4, <1>5, <2>2
    <3>2. fetch[b].at = "answered" => fetch[b].got <= cached
      BY DEF ListInv, AnswersAreNews
    <3>3. cached \in Nat
      BY DEF ListInv, ListTypes
    <3> QED
      BY <1>2, <1>4, <2>2, <3>1, <3>2, <3>3
  <2> QED
    BY <2>1, <2>2
<1>9. NothingAskedYet'
  BY <1>1, <1>4, <1>5 DEF ListInv, NothingAskedYet
<1> QED
  BY <1>6, <1>7, <1>8, <1>9 DEF ListInv

\* What the callback shows is no older than what it replaces.
LEMMA RefreshedIsNews ==
  ASSUME ListInv, NEW a \in Appearances, fetch[a].at = "answered"
  PROVE  /\ Refreshed(a) \in Nat /\ list <= Refreshed(a) /\ Refreshed(a) <= cached
         /\ Refreshed(a) # list => Refreshed(a) = fetch[a].got /\ fetch[a].got # 0
  BY DEF ListInv, ListTypes, ShownIsCached, AnswersAreNews, Refreshed, Content

\* The list's callback.
LEMMA ListRefreshed ==
  ASSUME ListInv, NEW a \in Appearances, FetchCallback(a)
  PROVE  ListInv' /\ list <= list'
<1>1. /\ Delivered(fetch, a) /\ list' = Refreshed(a) /\ fetch' = [fetch EXCEPT ![a] = Handed]
      /\ UNCHANGED <<version, cached, listView, appears>>
  BY DEF FetchCallback, server
<1>2. /\ fetch[a].at = "answered"
      /\ \A b \in Appearances : b < a => fetch[b].at # "answered"
  BY <1>1 DEF Delivered, Appearances
<1>3. /\ list' \in Nat /\ list <= list' /\ list' <= cached
      /\ list' # list => list' = fetch[a].got /\ fetch[a].got # 0
  BY <1>1, <1>2, RefreshedIsNews
<1>4. /\ fetch'[a].at = "done" /\ \A b \in Appearances : b # a => fetch'[b] = fetch[b]
      /\ fetch' \in [Appearances -> [at : {"none", "asked", "answered", "done"}, got : Nat,
                                     view : Nat]]
  BY <1>1 DEF ListInv, ListTypes, Handed
<1>5. ListTypes'
  BY <1>1, <1>3, <1>4 DEF ListInv, ListTypes
<1>6. ShownIsCached'
  BY <1>1, <1>3 DEF ListInv, ShownIsCached
<1>7. AnswersAreNews'
  <2> SUFFICES ASSUME NEW b \in Appearances, fetch'[b].at = "answered"
               PROVE  fetch'[b].got <= cached /\ (fetch'[b].got # 0 => list' <= fetch'[b].got)
    BY <1>1 DEF AnswersAreNews
  <2>1. b # a /\ fetch'[b] = fetch[b] /\ fetch[b].at = "answered"
    BY <1>4
  <2>2. a < b
    BY <1>2, <2>1 DEF Appearances
  <2>3. fetch[b].got <= cached /\ (fetch[b].got # 0 => list <= fetch[b].got)
    BY <2>1 DEF ListInv, AnswersAreNews
  <2>4. fetch[a].got # 0 /\ fetch[b].got # 0 => fetch[a].got <= fetch[b].got
    BY <1>2, <2>1, <2>2 DEF ListInv, AnsweredInOrder
  <2> QED
    BY <1>3, <2>1, <2>3, <2>4
<1>8. AnsweredInOrder' /\ NothingAskedYet'
  BY <1>1, <1>2, <1>4 DEF ListInv, AnsweredInOrder, NothingAskedYet
<1> QED
  BY <1>3, <1>5, <1>6, <1>7, <1>8 DEF ListInv

\* Every step preserves the list's invariant, and none of a list that stays puts back an
\* older content.
LEMMA ListNext ==
  ASSUME ListInv, [Next]_vars
  PROVE  ListInv' /\ (listView' = listView => list' >= list)
<1>0. /\ listView \in Nat /\ version \in Nat /\ cached \in Nat /\ list \in Nat
      /\ list <= cached /\ cached <= version
  BY DEF ListInv, ListTypes, ShownIsCached
<1>1. CASE OpenChallenge \/ OpenMap \/ OpenProfile \/ SignOut \/ \E e \in Entries : Post(e)
  <2>1. UNCHANGED <<list, listView, fetch, appears, version, cached>>
    BY <1>1 DEF OpenChallenge, OpenMap, OpenProfile, SignOut, Post, server, queries
  <2> QED
    BY <1>0, <2>1, ListFrame
<1>2. CASE Publish
  <2>1. UNCHANGED <<list, listView, fetch, appears, cached>> /\ version' = version + 1
    BY <1>2 DEF Publish, queries
  <2> QED
    BY <1>0, <2>1, ListFrame
<1>3. CASE BackToList
  BY <1>0, <1>3, ListAppears DEF BackToList
<1>4. CASE OpenList
  <2>1. Appear(listView + 1) /\ list' = 0 /\ listView' = listView + 1
    BY <1>4 DEF OpenList, Appear
  <2> QED
    BY <1>0, <2>1, ListAppears
<1>5. CASE \E a \in Appearances, got \in Versions : AnswerFetch(a, got)
  <2>1. list' = list
    BY <1>5 DEF AnswerFetch
  <2> QED
    BY <1>0, <1>5, <2>1, ListAnswered
<1>6. CASE \E a \in Appearances, got \in Versions : AnswerCoords(a, got)
  <2>1. PICK a \in Appearances, got \in Versions : AnswerCoords(a, got)
    BY <1>6
  <2>2. Answer(coords, a, got) /\ UNCHANGED <<list, listView, fetch, appears, version>>
    BY <2>1 DEF AnswerCoords, server
  <2>3. cached' \in Nat /\ cached <= cached' /\ cached' <= version
    BY <2>2, AnswerIsNews
  <2> QED
    BY <1>0, <2>2, <2>3, ListFrame
<1>7. CASE \E a \in Appearances : FetchCallback(a)
  <2>1. ListInv' /\ list <= list'
    BY <1>7, ListRefreshed
  <2>2. list' \in Nat
    BY <2>1 DEF ListInv, ListTypes
  <2> QED
    BY <1>0, <2>1, <2>2
<1>8. CASE \/ \E a \in Appearances : CoordsCallback(a)
           \/ \E a \in Appearances, c \in Challenges : AnswerNested(a, c) \/ NestedCallback(a, c)
  <2>1. UNCHANGED <<list, listView, fetch, appears, version, cached>>
    BY <1>8 DEF CoordsCallback, AnswerNested, NestedCallback, server
  <2> QED
    BY <1>0, <2>1, ListFrame
<1>9. CASE UNCHANGED vars
  <2>1. UNCHANGED <<list, listView, fetch, appears, version, cached>>
    BY <1>9 DEF vars, server, queries
  <2> QED
    BY <1>0, <2>1, ListFrame
<1> QED
  BY <1>1, <1>2, <1>3, <1>4, <1>5, <1>6, <1>7, <1>8, <1>9 DEF Next

\* A list goes forward only: however late the answer to an earlier query comes, it never
\* puts back an older content of the collection, and an empty one never empties the list.
THEOREM ListsGoForward == Spec => ListGoesForward
<1>1. Init => ListInv
  BY ListInit
<1>2. ListInv /\ [Next]_vars => ListInv'
  BY ListNext
<1>3. ListInv /\ [Next]_vars => [listView' = listView => list' >= list]_vars
  BY ListNext
<1> QED
  BY <1>1, <1>2, <1>3, PTL DEF Spec, ListGoesForward

(***************************************************************************)
(* The map                                                                 *)
(***************************************************************************)
Answered == [at : {"none", "asked", "answered", "done"}, got : SUBSET Entries]

\* The values of what the markers depend on.
MarkerTypes ==
    /\ posted \subseteq Entries
    /\ allMapCoordinates \in Seq(Entries)
    /\ appears \in Nat
    /\ coords \in [Appearances -> [at : {"none", "asked", "answered", "done"}, got : Versions,
                                   view : Nat]]
    /\ nested \in [Appearances -> [Challenges -> Answered]]
    /\ listView \in Nat

\* Where an entry is in a sequence of markers.
Places(m, e) == {i \in 1..Len(m) : m[i] = e}

\* The appearances whose answer marked e, n being the nested queries.
HandledIn(n, e) ==
    {a \in Appearances : \E c \in Challenges : n[a][c].at = "done" /\ e \in n[a][c].got}

\* MarkersPerAppearance, for the markers m and the nested queries n.
Counted(m, n) ==
    \A e \in Entries : Cardinality(Places(m, e)) = Cardinality(HandledIn(n, e))

\* The entries of an answer are those of its challenge.
EntriesAreOfChallenges ==
    \A a \in Appearances, c \in Challenges : \A e \in nested[a][c].got : e.challenge = c

\* The entries are asked for once per appearance, when getMapCoordinates has its answer.
NestedAfterCoords ==
    /\ \A a \in Appearances :
           coords[a].at # "done" => \A c \in Challenges : nested[a][c].at = "none"
    /\ \A a \in Appearances : a > appears => coords[a].at = "none"

MarkerInv ==
    /\ MarkerTypes /\ EntriesAreOfChallenges /\ NestedAfterCoords
    /\ Counted(allMapCoordinates, nested)

\* A finite set, put into a sequence, is all there, without repetitions.
LEMMA SetToSeqLists ==
  ASSUME NEW S, IsFiniteSet(S)
  PROVE  /\ SetToSeq(S) \in Seq(S)
         /\ \A i, j \in 1..Len(SetToSeq(S)) : SetToSeq(S)[i] = SetToSeq(S)[j] => i = j
         /\ \A e : e \in S <=> \E j \in 1..Len(SetToSeq(S)) : SetToSeq(S)[j] = e
<1>1. PICK n : n = Cardinality(S)
  OBVIOUS
<1>2. n \in Nat /\ ExistsBijection(1..n, S)
  BY <1>1, FS_CardinalityType
<1>3. PICK f \in [1..n -> S] : IsInjective(f)
  BY <1>2 DEF ExistsBijection, Bijection, Injection
<1>4. PICK s : s = SetToSeq(S)
  OBVIOUS
<1>5. s \in [1..n -> S] /\ IsInjective(s)
  BY <1>1, <1>3, <1>4 DEF SetToSeq
<1>6. s \in Seq(S) /\ Len(s) = n
  BY <1>2, <1>5
<1>7. \A i, j \in 1..n : s[i] = s[j] => i = j
  BY <1>5 DEF IsInjective
<1>8. \A e \in S : \E j \in 1..n : s[j] = e
  <2>1. s \in Injection(1..n, S)
    BY <1>5, <1>7 DEF Injection, IsInjective
  <2>2. IsFiniteSet(1..n) /\ Cardinality(1..n) = n
    BY <1>2, FS_Interval
  <2>3. s \in Surjection(1..n, S)
    BY <1>1, <2>1, <2>2, FS_Injection
  <2> QED
    BY <2>3 DEF Surjection
<1>9. \A j \in 1..n : s[j] \in S
  BY <1>5
<1> QED
  BY <1>4, <1>6, <1>7, <1>8, <1>9

\* The places are finitely many.
LEMMA PlacesFinite ==
  ASSUME NEW m \in Seq(Entries), NEW e
  PROVE  IsFiniteSet(Places(m, e)) /\ Cardinality(Places(m, e)) \in Nat
<1>1. Len(m) \in Nat /\ IsFiniteSet(1..Len(m))
  BY FS_Interval
<1>2. Places(m, e) \subseteq 1..Len(m)
  BY DEF Places
<1>3. IsFiniteSet(Places(m, e))
  BY <1>1, <1>2, FS_Subset
<1> QED
  BY <1>3, FS_CardinalityType

\* What an answer appends has an entry once, or not at all.
LEMMA PlacesAppended ==
  ASSUME NEW m \in Seq(Entries), NEW s \in Seq(Entries), NEW e,
         \A i, j \in 1..Len(s) : s[i] = s[j] => i = j
  PROVE  /\ (\A j \in 1..Len(s) : s[j] # e) => Places(m \o s, e) = Places(m, e)
         /\ (\E j \in 1..Len(s) : s[j] = e) =>
                Cardinality(Places(m \o s, e)) = Cardinality(Places(m, e)) + 1
<1>1. PICK r, k, l : r = m \o s /\ k = Len(m) /\ l = Len(s)
  OBVIOUS
<1>2. /\ k \in Nat /\ l \in Nat /\ Len(r) = k + l
      /\ \A i \in 1..k : r[i] = m[i]
      /\ \A j \in 1..l : r[k + j] = s[j]
  BY <1>1
<1>3. \A i \in 1..Len(r) : i \in 1..k \/ \E j \in 1..l : i = k + j
  <2> SUFFICES ASSUME NEW i \in 1..Len(r), i \notin 1..k PROVE \E j \in 1..l : i = k + j
    OBVIOUS
  <2>1. i - k \in 1..l /\ i = k + (i - k)
    BY <1>2
  <2> QED
    BY <2>1
<1>4. Places(m, e) \subseteq Places(r, e)
  <2>1. \A i \in 1..k : i \in 1..Len(r)
    BY <1>2
  <2> QED
    BY <1>1, <1>2, <2>1 DEF Places
<1>5. ASSUME \A j \in 1..l : s[j] # e PROVE Places(r, e) = Places(m, e)
  <2>1. Places(r, e) \subseteq Places(m, e)
    <3> SUFFICES ASSUME NEW i \in 1..Len(r), r[i] = e PROVE i \in 1..k /\ m[i] = e
      BY <1>1 DEF Places
    <3>1. ~\E j \in 1..l : i = k + j
      BY <1>2, <1>5
    <3>2. i \in 1..k
      BY <1>3, <3>1
    <3> QED
      BY <1>2, <3>2
  <2> QED
    BY <1>4, <2>1
<1>6. ASSUME NEW j \in 1..l, s[j] = e
      PROVE  Cardinality(Places(r, e)) = Cardinality(Places(m, e)) + 1
  <2>1. \A i \in 1..l : s[i] = e => i = j
    BY <1>1, <1>6
  <2>2. PICK p : p = k + j
    OBVIOUS
  <2>3. p \in 1..Len(r) /\ r[p] = e /\ p \notin 1..k
    BY <1>2, <1>6, <2>2
  <2>4. Places(r, e) \subseteq Places(m, e) \cup {p}
    <3> SUFFICES ASSUME NEW i \in 1..Len(r), r[i] = e PROVE i \in Places(m, e) \/ i = p
      BY DEF Places
    <3>1. CASE i \in 1..k
      BY <1>1, <1>2, <3>1 DEF Places
    <3>2. CASE \E x \in 1..l : i = k + x
      BY <1>2, <2>1, <2>2, <3>2
    <3> QED
      BY <1>3, <3>1, <3>2
  <2>5. Places(r, e) = Places(m, e) \cup {p} /\ p \notin Places(m, e)
    BY <1>1, <1>4, <2>3, <2>4 DEF Places
  <2>6. IsFiniteSet(Places(m, e))
    BY PlacesFinite
  <2> QED
    BY <2>5, <2>6, FS_AddElement
<1> QED
  BY <1>1, <1>5, <1>6

\* The appearances whose answer was handled are finitely many.
LEMMA HandledFinite ==
  ASSUME NEW n, NEW e
  PROVE  IsFiniteSet(HandledIn(n, e))
<1>1. IsFiniteSet(Appearances)
  BY AppearAssumption, FS_Interval DEF Appearances
<1>2. HandledIn(n, e) \subseteq Appearances
  BY DEF HandledIn
<1> QED
  BY <1>1, <1>2, FS_Subset

\* The count stays while the handled answers do.
LEMMA CountKept ==
  ASSUME NEW m, NEW n, NEW n2, Counted(m, n),
         \A a \in Appearances, c \in Challenges :
             n[a][c].at = "done" \/ n2[a][c].at = "done" => n2[a][c] = n[a][c]
  PROVE  Counted(m, n2)
<1>1. \A e : HandledIn(n, e) = HandledIn(n2, e)
  BY DEF HandledIn
<1> QED
  BY <1>1 DEF Counted

\* The answer of a for c becomes one that was handled, and marked own.
Handles(n, n2, a, c, own) ==
    /\ n[a][c].at # "done" /\ n2[a][c].at = "done" /\ n2[a][c].got = own
    /\ \A b \in Appearances, d \in Challenges : b # a \/ d # c => n2[b][d] = n[b][d]
    /\ \A b \in Appearances, d \in Challenges : \A e \in n[b][d].got : e.challenge = d
    /\ \A e \in own : e.challenge = c

\* The count stays when an answer is handled: the markers have what it marked once more.
LEMMA CountHandled ==
  ASSUME NEW m \in Seq(Entries), NEW s \in Seq(Entries), NEW n, NEW n2, Counted(m, n),
         \A i, j \in 1..Len(s) : s[i] = s[j] => i = j,
         NEW a \in Appearances, NEW c \in Challenges, NEW own,
         \A e : e \in own <=> \E j \in 1..Len(s) : s[j] = e,
         Handles(n, n2, a, c, own)
  PROVE  Counted(m \o s, n2)
<1> SUFFICES ASSUME NEW e \in Entries
             PROVE  Cardinality(Places(m \o s, e)) = Cardinality(HandledIn(n2, e))
  BY DEF Counted
<1>1. Cardinality(Places(m, e)) = Cardinality(HandledIn(n, e))
  BY DEF Counted
<1>2. /\ HandledIn(n, e) \subseteq Appearances /\ HandledIn(n2, e) \subseteq Appearances
      /\ \A b \in Appearances : b # a => (b \in HandledIn(n2, e) <=> b \in HandledIn(n, e))
  BY DEF Handles, HandledIn
<1>3. CASE e \in own
  <2>1. a \notin HandledIn(n, e) /\ a \in HandledIn(n2, e)
    BY <1>3 DEF Handles, HandledIn
  <2>2. HandledIn(n2, e) = HandledIn(n, e) \cup {a}
    BY <1>2, <2>1
  <2>3. Cardinality(HandledIn(n2, e)) = Cardinality(HandledIn(n, e)) + 1
    BY <2>1, <2>2, HandledFinite, FS_AddElement
  <2>4. Cardinality(Places(m \o s, e)) = Cardinality(Places(m, e)) + 1
    BY <1>3, PlacesAppended
  <2> QED
    BY <1>1, <2>3, <2>4
<1>4. CASE e \notin own
  <2>1. a \in HandledIn(n2, e) <=> a \in HandledIn(n, e)
    BY <1>4 DEF Handles, HandledIn
  <2>2. HandledIn(n2, e) = HandledIn(n, e)
    <3>1. \A b : b \in HandledIn(n2, e) <=> b \in HandledIn(n, e)
      BY <1>2, <2>1
    <3> QED
      BY <3>1
  <2>3. Places(m \o s, e) = Places(m, e)
    BY <1>4, PlacesAppended
  <2> QED
    BY <1>1, <2>2, <2>3
<1> QED
  BY <1>3, <1>4

\* There are no markers before the first answer.
LEMMA MarkerInit == Init => MarkerInv
<1> SUFFICES ASSUME Init PROVE MarkerInv
  OBVIOUS
<1>1. 1 \in Appearances /\ Appearances \subseteq Nat /\ appears = 1 /\ 0 \in Versions
  BY AppearAssumption, HistoryAssumption DEF Appearances, Versions, Init
<1>2. /\ coords \in [Appearances -> [at : {"none", "asked", "answered", "done"},
                                     got : Versions, view : Nat]]
      /\ \A a \in Appearances : coords[a].at # "done" /\ (a # 1 => coords[a].at = "none")
  BY <1>1 DEF Init, Asked, NoQuery
<1>3. /\ nested \in [Appearances -> [Challenges -> Answered]]
      /\ \A a \in Appearances, c \in Challenges : /\ nested[a][c].at = "none"
                                                  /\ nested[a][c].got = {}
  BY DEF Init, NoEntries, Answered
<1>4. allMapCoordinates = <<>> /\ <<>> \in Seq(Entries) /\ Len(allMapCoordinates) = 0
  BY DEF Init
<1>5. MarkerTypes
  <2>1. posted \subseteq Entries /\ listView \in Nat /\ appears \in Nat
    BY DEF Init
  <2> QED
    BY <1>2, <1>3, <1>4, <2>1 DEF MarkerTypes
<1>6. EntriesAreOfChallenges
  BY <1>3 DEF EntriesAreOfChallenges
<1>7. NestedAfterCoords
  <2>1. \A a \in Appearances : a > 1 => a # 1
    BY <1>1
  <2> QED
    BY <1>1, <1>2, <1>3, <2>1 DEF NestedAfterCoords
<1>8. Counted(allMapCoordinates, nested)
  <2>1. \A e : Places(allMapCoordinates, e) = {}
    BY <1>4 DEF Places
  <2>2. \A e : HandledIn(nested, e) = {}
    BY <1>3 DEF HandledIn
  <2> QED
    BY <2>1, <2>2 DEF Counted
<1> QED
  BY <1>5, <1>6, <1>7, <1>8 DEF MarkerInv

\* A step that changes neither the markers nor the nested queries.
LEMMA MarkerFrame ==
  ASSUME MarkerInv, UNCHANGED <<allMapCoordinates, nested>>, MarkerTypes', NestedAfterCoords'
  PROVE  MarkerInv'
<1>1. EntriesAreOfChallenges'
  BY DEF MarkerInv, EntriesAreOfChallenges
<1>2. Counted(allMapCoordinates', nested')
  BY DEF MarkerInv
<1> QED
  BY <1>1, <1>2 DEF MarkerInv

\* An appearance asks for the challenges, and not yet for entries.
LEMMA MarkerAppears ==
  ASSUME MarkerInv, NEW w \in Nat, Appear(w)
  PROVE  MarkerInv'
<1>1. PICK n : n = appears + 1
  OBVIOUS
<1>2. /\ n \in Appearances /\ appears \in Nat /\ appears' = n /\ listView' = w
      /\ n = appears + 1 /\ Appearances \subseteq Nat /\ 0 \in Versions
      /\ coords' = [coords EXCEPT ![n] = [at |-> "asked", got |-> 0, view |-> w]]
      /\ UNCHANGED <<posted, allMapCoordinates, nested>>
  BY <1>1, AppearAssumption, HistoryAssumption
     DEF Appear, Appearances, Versions, Asked, MarkerInv, MarkerTypes, server
<1>3. MarkerTypes'
  BY <1>2 DEF MarkerInv, MarkerTypes
<1>4. coords'[n].at = "asked" /\ \A a \in Appearances : a # n => coords'[a] = coords[a]
  BY <1>2 DEF MarkerInv, MarkerTypes
<1>5. coords[n].at = "none"
  BY <1>2 DEF MarkerInv, NestedAfterCoords
<1>6. NestedAfterCoords'
  BY <1>2, <1>4, <1>5 DEF MarkerInv, NestedAfterCoords
<1> QED
  BY <1>2, <1>3, <1>6, MarkerFrame

\* getMapCoordinates' query is answered.
LEMMA MarkerCoordsAnswered ==
  ASSUME MarkerInv, NEW a \in Appearances, NEW got \in Versions, AnswerCoords(a, got)
  PROVE  MarkerInv'
<1>1. /\ coords[a].at = "asked"
      /\ coords' = [coords EXCEPT ![a].at = "answered", ![a].got = got]
      /\ UNCHANGED <<posted, appears, listView, allMapCoordinates, nested>>
  BY DEF AnswerCoords, Answer, server
<1>2. MarkerTypes'
  BY <1>1 DEF MarkerInv, MarkerTypes
<1>3. coords'[a].at = "answered" /\ \A b \in Appearances : b # a => coords'[b] = coords[b]
  BY <1>1 DEF MarkerInv, MarkerTypes
<1>4. NestedAfterCoords'
  BY <1>1, <1>3 DEF MarkerInv, NestedAfterCoords
<1> QED
  BY <1>1, <1>2, <1>4, MarkerFrame

\* getMapCoordinates' callback: no entries of this appearance were asked for before.
LEMMA MarkerCoords ==
  ASSUME MarkerInv, NEW a \in Appearances, CoordsCallback(a)
  PROVE  MarkerInv'
<1>1. PICK asked : asked = [c \in Challenges |-> IF c \in Content(coords[a].got)
                                                   THEN [at |-> "asked", got |-> {}]
                                                   ELSE NoEntries]
  OBVIOUS
<1>2. /\ coords[a].at = "answered" /\ coords' = [coords EXCEPT ![a] = Handed]
      /\ nested' = [nested EXCEPT ![a] = asked]
      /\ UNCHANGED <<posted, appears, listView, allMapCoordinates>>
  BY <1>1 DEF CoordsCallback, Delivered, server
<1>3. /\ asked \in [Challenges -> Answered]
      /\ \A c \in Challenges : asked[c].at # "done" /\ asked[c].got = {}
  BY <1>1 DEF NoEntries, Answered
<1>4. /\ nested' \in [Appearances -> [Challenges -> Answered]] /\ nested'[a] = asked
      /\ \A b \in Appearances : b # a => nested'[b] = nested[b]
  BY <1>2, <1>3 DEF MarkerInv, MarkerTypes
<1>5. /\ coords' \in [Appearances -> [at : {"none", "asked", "answered", "done"},
                                      got : Versions, view : Nat]]
      /\ coords'[a].at = "done"
      /\ \A b \in Appearances : b # a => coords'[b] = coords[b]
  <2>1. 0 \in Versions
    BY HistoryAssumption DEF Versions
  <2> QED
    BY <1>2, <2>1 DEF MarkerInv, MarkerTypes, Handed
<1>6. MarkerTypes'
  BY <1>2, <1>4, <1>5 DEF MarkerInv, MarkerTypes
<1>7. EntriesAreOfChallenges'
  BY <1>2, <1>3, <1>4 DEF MarkerInv, EntriesAreOfChallenges
<1>8. NestedAfterCoords'
  <2>1. ~(a > appears)
    BY <1>2 DEF MarkerInv, NestedAfterCoords
  <2> QED
    BY <1>2, <1>4, <1>5, <2>1 DEF MarkerInv, NestedAfterCoords
<1>9. \A b \in Appearances, c \in Challenges :
          nested[b][c].at = "done" \/ nested'[b][c].at = "done" => nested'[b][c] = nested[b][c]
  BY <1>2, <1>3, <1>4 DEF MarkerInv, NestedAfterCoords
<1>10. Counted(allMapCoordinates, nested')
  <2>1. PICK m, n, n2 : m = allMapCoordinates /\ n = nested /\ n2 = nested'
    OBVIOUS
  <2>2. /\ Counted(m, n)
        /\ \A b \in Appearances, d \in Challenges :
               n[b][d].at = "done" \/ n2[b][d].at = "done" => n2[b][d] = n[b][d]
    BY <1>9, <2>1 DEF MarkerInv
  <2>3. Counted(m, n2)
    BY <2>2, CountKept
  <2> QED
    BY <2>1, <2>3
<1> QED
  BY <1>2, <1>6, <1>7, <1>8, <1>10 DEF MarkerInv

\* The query of a for the entries of c becomes x, and the markers become m.
NestedBecomes(a, c, x, m) ==
    /\ nested[a][c].at # "none" /\ nested' = [nested EXCEPT ![a][c] = x]
    /\ x \in Answered /\ \A e \in x.got : e.challenge = c
    /\ allMapCoordinates' = m
    /\ m \in Seq(Entries)
    /\ UNCHANGED <<posted, appears, listView, coords>>

\* An answer of one challenge changes: what follows for the queries.
LEMMA NestedChanges ==
  ASSUME MarkerInv, NEW a \in Appearances, NEW c \in Challenges, NEW x, NEW m,
         NestedBecomes(a, c, x, m)
  PROVE  /\ MarkerTypes' /\ EntriesAreOfChallenges' /\ NestedAfterCoords'
         /\ nested'[a][c] = x
         /\ \A b \in Appearances, d \in Challenges :
                <<b, d>> # <<a, c>> => nested'[b][d] = nested[b][d]
<1>1. nested \in [Appearances -> [Challenges -> Answered]]
  BY DEF MarkerInv, MarkerTypes
<1>2. /\ nested' \in [Appearances -> [Challenges -> Answered]] /\ nested'[a][c] = x
      /\ \A b \in Appearances, d \in Challenges :
             b # a \/ d # c => nested'[b][d] = nested[b][d]
  BY <1>1 DEF NestedBecomes
<1>3. MarkerTypes'
  BY <1>2 DEF MarkerInv, MarkerTypes, NestedBecomes
<1>4. EntriesAreOfChallenges'
  BY <1>2 DEF MarkerInv, EntriesAreOfChallenges, NestedBecomes
<1>5. coords[a].at = "done"
  BY DEF MarkerInv, NestedAfterCoords, NestedBecomes
<1>6. NestedAfterCoords'
  BY <1>2, <1>5 DEF MarkerInv, NestedAfterCoords, NestedBecomes
<1> QED
  BY <1>2, <1>3, <1>4, <1>6

\* A query for entries is answered.
LEMMA MarkerAnswered ==
  ASSUME MarkerInv, NEW a \in Appearances, NEW c \in Challenges, AnswerNested(a, c)
  PROVE  MarkerInv'
<1>1. PICK x \in Answered : /\ x.at = "answered" /\ \A e \in x.got : e.challenge = c
                            /\ nested' = [nested EXCEPT ![a][c] = x]
  <2>1. PICK got \in SUBSET {e \in posted : e.challenge = c} :
            nested' = [nested EXCEPT ![a][c] = [at |-> "answered", got |-> got]]
    BY DEF AnswerNested
  <2>2. [at |-> "answered", got |-> got] \in Answered
    BY DEF Answered, MarkerInv, MarkerTypes
  <2> QED
    BY <2>1, <2>2
<1>2. /\ nested[a][c].at = "asked" /\ nested' = [nested EXCEPT ![a][c] = x]
      /\ UNCHANGED <<posted, appears, listView, coords, allMapCoordinates>>
  BY <1>1 DEF AnswerNested, server
<1>3. /\ MarkerTypes' /\ EntriesAreOfChallenges' /\ NestedAfterCoords'
      /\ nested'[a][c] = x
      /\ \A b \in Appearances, d \in Challenges :
             <<b, d>> # <<a, c>> => nested'[b][d] = nested[b][d]
  <2>1. PICK m : m = allMapCoordinates
    OBVIOUS
  <2>2. m \in Seq(Entries)
    BY <2>1 DEF MarkerInv, MarkerTypes
  <2>3. NestedBecomes(a, c, x, m)
    BY <1>1, <1>2, <2>1, <2>2 DEF NestedBecomes
  <2> QED
    BY <2>3, NestedChanges
<1>4. \A b \in Appearances, d \in Challenges :
          nested[b][d].at = "done" \/ nested'[b][d].at = "done" => nested'[b][d] = nested[b][d]
  BY <1>1, <1>2, <1>3
<1>5. Counted(allMapCoordinates, nested')
  <2>1. PICK m, n, n2 : m = allMapCoordinates /\ n = nested /\ n2 = nested'
    OBVIOUS
  <2>2. /\ Counted(m, n)
        /\ \A b \in Appearances, d \in Challenges :
               n[b][d].at = "done" \/ n2[b][d].at = "done" => n2[b][d] = n[b][d]
    BY <1>4, <2>1 DEF MarkerInv
  <2>3. Counted(m, n2)
    BY <2>2, CountKept
  <2> QED
    BY <2>1, <2>3
<1> QED
  BY <1>2, <1>3, <1>5 DEF MarkerInv

\* The entries' callback: an answer is handled once, and appends an entry once.
LEMMA MarkerHandled ==
  ASSUME MarkerInv, NEW a \in Appearances, NEW c \in Challenges, NestedCallback(a, c)
  PROVE  MarkerInv'
<1>1. PICK m, own, s, x : /\ m = allMapCoordinates /\ own = Own(a, c) /\ s = SetToSeq(own)
                          /\ x = [at |-> "done", got |-> own]
  OBVIOUS
<1>2. /\ nested[a][c].at = "answered" /\ allMapCoordinates' = m \o s
      /\ nested' = [nested EXCEPT ![a][c] = x]
      /\ UNCHANGED <<posted, appears, listView, coords>>
  BY <1>1 DEF NestedCallback, server
<1>3. nested[a][c] \in Answered /\ \A e \in nested[a][c].got : e.challenge = c
  BY DEF MarkerInv, MarkerTypes, EntriesAreOfChallenges
<1>4. own \subseteq Entries /\ \A e \in own : e.challenge = c
  BY <1>1, <1>3 DEF Own, Answered
<1>5. IsFiniteSet(own)
  BY <1>4, EntriesAssumption, FS_Subset
<1>6. /\ s \in Seq(own)
      /\ \A i, j \in 1..Len(s) : s[i] = s[j] => i = j
      /\ \A e : e \in own <=> \E j \in 1..Len(s) : s[j] = e
  BY <1>1, <1>5, SetToSeqLists
<1>7. m \in Seq(Entries) /\ s \in Seq(Entries) /\ m \o s \in Seq(Entries)
  <2>1. m \in Seq(Entries)
    BY <1>1 DEF MarkerInv, MarkerTypes
  <2>2. s \in Seq(Entries)
    BY <1>4, <1>6
  <2> QED
    BY <2>1, <2>2
<1>8. x \in Answered /\ x.at = "done" /\ x.got = own
  BY <1>1, <1>4 DEF Answered
<1>9. /\ MarkerTypes' /\ EntriesAreOfChallenges' /\ NestedAfterCoords'
      /\ nested'[a][c] = x
      /\ \A b \in Appearances, d \in Challenges :
             <<b, d>> # <<a, c>> => nested'[b][d] = nested[b][d]
  <2>1. PICK r : r = m \o s
    OBVIOUS
  <2>2. NestedBecomes(a, c, x, r)
    BY <1>2, <1>4, <1>7, <1>8, <2>1 DEF NestedBecomes
  <2> QED
    BY <2>2, NestedChanges
<1>10. Counted(m \o s, nested')
  <2>1. PICK n, n2 : n = nested /\ n2 = nested'
    OBVIOUS
  <2>2. Counted(m, n)
    BY <1>1, <2>1 DEF MarkerInv
  <2>3. Handles(n, n2, a, c, own)
    BY <1>2, <1>4, <1>8, <1>9, <2>1 DEF Handles, MarkerInv, EntriesAreOfChallenges
  <2>4. Counted(m \o s, n2)
    BY <1>6, <1>7, <2>2, <2>3, CountHandled
  <2> QED
    BY <2>1, <2>4
<1> QED
  BY <1>2, <1>9, <1>10 DEF MarkerInv

\* Every step preserves the map's invariant.
LEMMA MarkerNext ==
  ASSUME MarkerInv, [Next]_vars
  PROVE  MarkerInv'
<1>0. listView \in Nat
  BY DEF MarkerInv, MarkerTypes
<1>1. CASE \/ OpenChallenge \/ OpenMap \/ OpenProfile \/ SignOut \/ Publish
           \/ \E e \in Entries : Post(e)
           \/ \E a \in Appearances : FetchCallback(a)
           \/ \E a \in Appearances, got \in Versions : AnswerFetch(a, got)
           \/ UNCHANGED vars
  <2>1. /\ UNCHANGED <<listView, appears, allMapCoordinates, coords, nested>>
        /\ posted' \in {posted} \cup {posted \cup {e} : e \in Entries}
    BY <1>1 DEF OpenChallenge, OpenMap, OpenProfile, SignOut, Publish, Post, FetchCallback,
       AnswerFetch, server, queries, vars
  <2>2. MarkerTypes' /\ NestedAfterCoords'
    BY <2>1 DEF MarkerInv, MarkerTypes, NestedAfterCoords
  <2> QED
    BY <2>1, <2>2, MarkerFrame
<1>2. CASE BackToList \/ OpenList
  BY <1>0, <1>2, MarkerAppears DEF BackToList, OpenList
<1>3. CASE \E a \in Appearances, got \in Versions : AnswerCoords(a, got)
  BY <1>3, MarkerCoordsAnswered
<1>4. CASE \E a \in Appearances : CoordsCallback(a)
  BY <1>4, MarkerCoords
<1>5. CASE \E a \in Appearances, c \in Challenges : AnswerNested(a, c)
  BY <1>5, MarkerAnswered
<1>6. CASE \E a \in Appearances, c \in Challenges : NestedCallback(a, c)
  BY <1>6, MarkerHandled
<1> QED
  BY <1>1, <1>2, <1>3, <1>4, <1>5, <1>6 DEF Next

\* An entry has exactly one marker for every appearance of the list whose answer had it as
\* the user's own, for every set of entries and challenges and any number of appearances.
THEOREM MarkersAreCounted == Spec => []MarkersPerAppearance
<1>1. Init => MarkerInv
  BY MarkerInit
<1>2. MarkerInv /\ [Next]_vars => MarkerInv'
  BY MarkerNext
<1>3. MarkerInv => MarkersPerAppearance
  <2> SUFFICES ASSUME MarkerInv, NEW e \in Entries
               PROVE  Cardinality(Markers(e)) = Cardinality(Handled(e))
    BY DEF MarkersPerAppearance
  <2>1. Markers(e) = Places(allMapCoordinates, e)
    BY DEF MarkerInv, MarkerTypes, Markers, Places
  <2>2. Handled(e) = HandledIn(nested, e)
    BY DEF Handled, HandledIn
  <2> QED
    BY <2>1, <2>2 DEF MarkerInv, Counted
<1> QED
  BY <1>1, <1>2, <1>3, PTL DEF Spec
=============================================================================
