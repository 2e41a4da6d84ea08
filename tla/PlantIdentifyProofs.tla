-------------------------- MODULE PlantIdentifyProofs --------------------------
(***************************************************************************)
(* Proof that plantScanner accepts a photo exactly when the answer is      *)
(* whole and names a plant of the genus asked for, for names of every      *)
(* length, and calls its completion handler once.                          *)
(***************************************************************************)
EXTENDS PlantIdentify, SequenceTheorems, WellFoundedInduction, TLAPS

(***************************************************************************)
(* Names                                                                   *)
(***************************************************************************)
\* A nonempty set of naturals has a least element.
LEMMA LeastNatural ==
  ASSUME NEW T \in SUBSET Nat, T # {}
  PROVE  \E x \in T : \A y \in T : x <= y
<1>1. PICK R : R = OpToRel(<, Nat)
  OBVIOUS
<1>2. IsWellFoundedOn(R, Nat)
  BY <1>1, NatLessThanWellFounded
<1>3. PICK x \in T : \A y \in T : ~(<<y, x>> \in R)
  BY <1>2, WFMin
<1>4. \A m, n \in Nat : n < m => <<n, m>> \in R
  BY <1>1 DEF OpToRel
<1>5. ASSUME NEW y \in T PROVE x <= y
  <2>1. x \in Nat /\ y \in Nat
    OBVIOUS
  <2>2. ~(y < x)
    BY <1>3, <1>4, <2>1
  <2> QED
    BY <2>1, <2>2
<1> QED
  BY <1>5

\* A name is a sequence of letters and spaces.
LEMMA NameIsSeq ==
  ASSUME NEW s \in Names
  PROVE  /\ s \in Seq(Letters \cup {Space}) /\ Len(s) \in 0..MaxName
         /\ \A i \in 1..Len(s) : s[i] \in Letters \cup {Space}
<1>1. PICK n \in 0..MaxName : s \in [1..n -> Letters \cup {Space}]
  BY DEF Names
<1>2. n \in Nat
  BY NameAssumption
<1>3. s \in Seq(Letters \cup {Space})
  BY <1>1, <1>2, SeqDef
<1>4. Len(s) = n
  BY <1>1, <1>2, <1>3
<1> QED
  BY <1>1, <1>3, <1>4

\* The words are the sequences of letters that are not too long.
LEMMA WordIsSeq ==
  /\ \A g \in Words : /\ g \in Seq(Letters) /\ Len(g) \in 0..MaxName
                      /\ \A i \in 1..Len(g) : g[i] \in Letters
  /\ \A g \in Seq(Letters) : Len(g) <= MaxName => g \in Words
<1>1. ASSUME NEW g \in Words
      PROVE  /\ g \in Seq(Letters) /\ Len(g) \in 0..MaxName
             /\ \A i \in 1..Len(g) : g[i] \in Letters
  <2>1. PICK n \in 0..MaxName : g \in [1..n -> Letters]
    BY DEF Words
  <2>2. n \in Nat
    BY NameAssumption
  <2>3. g \in Seq(Letters)
    BY <2>1, <2>2, SeqDef
  <2>4. Len(g) = n
    BY <2>1, <2>2, <2>3
  <2> QED
    BY <2>1, <2>3, <2>4
<1>2. ASSUME NEW g \in Seq(Letters), Len(g) <= MaxName PROVE g \in Words
  <2>1. Len(g) \in 0..MaxName /\ g \in [1..Len(g) -> Letters]
    BY <1>2, NameAssumption
  <2> QED
    BY <2>1 DEF Words
<1> QED
  BY <1>1, <1>2

\* The first space of a name, or the place behind its end: no space is before it.
LEMMA FirstSpaceFirst ==
  ASSUME NEW s \in Names
  PROVE  /\ FirstSpace(s) \in 1..(Len(s) + 1)
         /\ FirstSpace(s) <= Len(s) => s[FirstSpace(s)] = Space
         /\ \A i \in 1..Len(s) : i < FirstSpace(s) => s[i] # Space
<1>1. Len(s) \in Nat
  BY NameIsSeq
<1>2. PICK S : S = {i \in 1..Len(s) : s[i] = Space} \cup {Len(s) + 1}
  OBVIOUS
<1>3. S \in SUBSET Nat /\ S # {}
  BY <1>1, <1>2
<1>4. \E x \in S : \A y \in S : x <= y
  BY <1>3, LeastNatural
<1>5. Min(S) \in S /\ \A y \in S : Min(S) <= y
  BY <1>4 DEF Min
<1>6. PICK m : m = Min(S)
  OBVIOUS
<1>7. FirstSpace(s) = m
  BY <1>2, <1>6 DEF FirstSpace
<1>8. m \in S /\ \A y \in S : m <= y
  BY <1>5, <1>6
<1>9. ASSUME NEW i \in 1..Len(s), i < m PROVE s[i] # Space
  BY <1>1, <1>2, <1>8, <1>9
<1> QED
  BY <1>1, <1>2, <1>7, <1>8, <1>9

\* What components(separatedBy: " ").first returns is a word that begins the name.
LEMMA FamilyNameBegins ==
  ASSUME NEW s \in Names
  PROVE  FamilyName(s) \in Words /\ Begins(FamilyName(s), s)
<1>1. PICK k, g : k = FirstSpace(s) - 1 /\ g = FamilyName(s)
  OBVIOUS
<1>2. /\ Len(s) \in 0..MaxName /\ MaxName \in Nat /\ k \in 0..Len(s)
      /\ k < Len(s) => s[k + 1] = Space
      /\ \A i \in 1..k : s[i] # Space
  BY <1>1, FirstSpaceFirst, NameIsSeq, NameAssumption
<1>3. \A i \in 1..k : s[i] \in Letters
  BY <1>2, NameIsSeq
<1>4. g = SubSeq(s, 1, k) /\ s \in Seq(Letters \cup {Space})
  BY <1>1, NameIsSeq DEF FamilyName
<1>5. /\ g \in Seq(Letters \cup {Space}) /\ Len(g) = k
      /\ \A i \in 1..k : g[i] = s[i]
  BY <1>2, <1>4
<1>6. g \in Seq(Letters)
  BY <1>2, <1>3, <1>5, SeqDef
<1>7. g \in Words
  BY <1>2, <1>5, <1>6, WordIsSeq
<1>8. Begins(g, s)
  BY <1>2, <1>4, <1>5 DEF Begins
<1> QED
  BY <1>1, <1>7, <1>8

\* It is the only one.
LEMMA BeginsIsFamilyName ==
  ASSUME NEW s \in Names, NEW g \in Words, Begins(g, s)
  PROVE  g = FamilyName(s)
<1>1. PICK k, m : k = FirstSpace(s) /\ m = Len(g)
  OBVIOUS
<1>2. /\ Len(s) \in Nat /\ k \in 1..(Len(s) + 1)
      /\ k <= Len(s) => s[k] = Space
      /\ \A i \in 1..Len(s) : i < k => s[i] # Space
  BY <1>1, FirstSpaceFirst, NameIsSeq
<1>3. m \in Nat /\ m <= Len(s) /\ SubSeq(s, 1, m) = g /\ (m < Len(s) => s[m + 1] = Space)
  BY <1>1, WordIsSeq DEF Begins
<1>4. \A i \in 1..m : s[i] \in Letters
  <2>1. \A i \in 1..m : g[i] = s[i]
    BY <1>2, <1>3, NameIsSeq
  <2> QED
    BY <1>1, <2>1, WordIsSeq
<1>5. \A i \in 1..m : s[i] # Space
  BY <1>4, SpaceAssumption
<1>6. k > m
  BY <1>2, <1>3, <1>5
<1>7. k <= m + 1
  BY <1>2, <1>3
<1>8. m = k - 1
  BY <1>2, <1>3, <1>6, <1>7
<1> QED
  BY <1>1, <1>3, <1>8 DEF FamilyName

\* Splitting at spaces decides the genus.
LEMMA FamilyIsGenus ==
  ASSUME NEW s \in Names, NEW t \in Names
  PROVE  FamilyName(s) = FamilyName(t) <=> SameGenus(s, t)
<1>1. ASSUME FamilyName(s) = FamilyName(t) PROVE SameGenus(s, t)
  BY <1>1, FamilyNameBegins DEF SameGenus
<1>2. ASSUME SameGenus(s, t) PROVE FamilyName(s) = FamilyName(t)
  <2>1. PICK g \in Words : Begins(g, s) /\ Begins(g, t)
    BY <1>2 DEF SameGenus
  <2> QED
    BY <2>1, BeginsIsFamilyName
<1> QED
  BY <1>1, <1>2

(***************************************************************************)
(* The guards                                                              *)
(***************************************************************************)
GuardCount == 13
AllPass == \A i \in 1..GuardCount : Passes(Guards[i])

\* Every guard is passed when nothing is missing and the family names agree.
LEMMA AllPassMeans ==
  ASSUME scan \in Scans
  PROVE  AllPass <=> /\ scan.missing = "nothing"
                     /\ FamilyName(scan.expectedPlant) = FamilyName(scan.plant_name)
<1>1. /\ Len(Guards) = GuardCount /\ Guards[GuardCount] = "family"
      /\ \A i \in 1..(GuardCount - 1) : Guards[i] # "family" /\ Guards[i] # "nothing"
  BY DEF Guards, GuardCount
<1>2. scan.missing \in Missing
  BY DEF Scans
<1>3. scan.missing = "nothing" \/ \E i \in 1..(GuardCount - 1) : scan.missing = Guards[i]
  BY <1>1, <1>2 DEF Missing, GuardCount
<1>4. Passes(Guards[GuardCount])
        <=> FamilyName(scan.expectedPlant) = FamilyName(scan.plant_name)
  BY <1>1 DEF Passes
<1>5. \A i \in 1..(GuardCount - 1) : Passes(Guards[i]) <=> scan.missing # Guards[i]
  BY <1>1 DEF Passes
<1>6. \A i \in 1..GuardCount : i = GuardCount \/ i \in 1..(GuardCount - 1)
  BY DEF GuardCount
<1>7. \A i : i = GuardCount \/ i \in 1..(GuardCount - 1) => i \in 1..GuardCount
  BY DEF GuardCount
<1> QED
  BY <1>1, <1>3, <1>4, <1>5, <1>6, <1>7 DEF AllPass

\* The completion handler was called when, and only when, the call has returned.
CalledOnReturn == Len(completions) = IF check = 0 THEN 1 ELSE 0

\* The guards before the next one were passed; a call that has returned called its
\* completion handler, once, with whether all are.
ScanInv ==
    /\ scan \in Scans
    /\ check \in 0..GuardCount
    /\ completions \in Seq(BOOLEAN)
    /\ CalledOnReturn
    /\ check # 0 => \A i \in 1..(check - 1) : Passes(Guards[i])
    /\ check = 0 => (completions[Len(completions)] <=> AllPass)

\* Calling the handler with whether all guards are passed ends the call.
LEMMA CompleteKeeps ==
  ASSUME ScanInv, check # 0, UNCHANGED scan, NEW b \in BOOLEAN, b <=> AllPass, Complete(b)
  PROVE  ScanInv'
<1>1. completions \in Seq(BOOLEAN) /\ Len(completions) = 0
  BY DEF ScanInv, CalledOnReturn
<1>2. /\ completions' \in Seq(BOOLEAN) /\ Len(completions') = 1
      /\ completions'[Len(completions')] = b
  BY <1>1 DEF Complete
<1>3. check' = 0 /\ check' \in 0..GuardCount
  BY DEF Complete, GuardCount
<1>4. AllPass' <=> AllPass
  BY DEF AllPass, Passes
<1> QED
  BY <1>2, <1>3, <1>4 DEF ScanInv, CalledOnReturn

\* Every step keeps the invariant.
LEMMA ScanNext == ScanInv /\ [Next]_vars => ScanInv'
<1> SUFFICES ASSUME ScanInv, [Next]_vars PROVE ScanInv'
  OBVIOUS
<1>1. CASE EvaluateGuard
  <2>1. /\ check \in 1..GuardCount /\ check # 0
        /\ Len(Guards) = GuardCount /\ UNCHANGED scan
    BY <1>1 DEF EvaluateGuard, ScanInv, GuardCount, Guards
  <2>2. CASE ~Passes(Guards[check])
    <3>1. ~AllPass
      BY <2>1, <2>2 DEF AllPass
    <3>2. Complete(FALSE)
      BY <1>1, <2>2 DEF EvaluateGuard
    <3> QED
      BY <2>1, <3>1, <3>2, CompleteKeeps
  <2>3. CASE Passes(Guards[check])
    <3>1. \A i \in 1..check : Passes(Guards[i])
      <4>1. \A i \in 1..check : i = check \/ i \in 1..(check - 1)
        BY <2>1 DEF GuardCount
      <4> QED
        BY <2>1, <2>3, <4>1 DEF ScanInv, GuardCount
    <3>2. CASE check = GuardCount
      <4>1. AllPass
        BY <3>1, <3>2 DEF AllPass
      <4>2. Complete(TRUE)
        BY <1>1, <2>1, <2>3, <3>2 DEF EvaluateGuard
      <4> QED
        BY <2>1, <4>1, <4>2, CompleteKeeps
    <3>3. CASE check # GuardCount
      <4>1. check' = check + 1 /\ UNCHANGED completions
        BY <1>1, <2>1, <2>3, <3>3 DEF EvaluateGuard
      <4>2. check' \in 0..GuardCount /\ check' # 0 /\ check' - 1 = check
        BY <2>1, <3>3, <4>1 DEF GuardCount
      <4>3. \A i \in 1..check : Passes(Guards[i])'
        BY <2>1, <3>1 DEF Passes
      <4> QED
        BY <2>1, <4>1, <4>2, <4>3 DEF ScanInv, CalledOnReturn
    <3> QED
      BY <3>2, <3>3
  <2> QED
    BY <2>2, <2>3
<1>2. CASE UNCHANGED vars
  BY <1>2 DEF vars, ScanInv, CalledOnReturn, AllPass, Passes
<1> QED
  BY <1>1, <1>2 DEF Next

(***************************************************************************)
(* The theorems                                                            *)
(***************************************************************************)
\* The inductive invariant holds of every call.
THEOREM ScanInvariant == Spec => []ScanInv
<1>1. Init => ScanInv
  <2> SUFFICES ASSUME Init PROVE ScanInv
    OBVIOUS
  <2>1. /\ check = 1 /\ check \in 0..GuardCount
        /\ completions \in Seq(BOOLEAN) /\ Len(completions) = 0
    BY DEF Init, GuardCount
  <2>2. 1..(check - 1) = {}
    BY <2>1
  <2> QED
    BY <2>1, <2>2 DEF Init, ScanInv, CalledOnReturn
<1> QED
  BY <1>1, ScanNext, PTL DEF Spec

\* On no path does plantScanner call its completion handler twice, or return without
\* having called it: the safety part of CompletesOnce.
THEOREM HandlerCalledOnReturn == Spec => []CalledOnReturn
<1>1. ScanInv => CalledOnReturn
  BY DEF ScanInv
<1> QED
  BY <1>1, ScanInvariant, PTL

\* plantScanner accepts a photo exactly when no part of the service's answer is
\* missing and a word without spaces begins both names and ends there in both,
\* whatever the letters and however long the names: taking the first component of
\* components(separatedBy: " ") decides that, also for empty names and leading
\* spaces.
THEOREM VerdictIsGenus == Spec => []AcceptsExactlyTheGenus
<1>1. ScanInv => AcceptsExactlyTheGenus
  <2> SUFFICES ASSUME ScanInv PROVE AcceptsExactlyTheGenus
    OBVIOUS
  <2>1. scan \in Scans /\ scan.expectedPlant \in Names /\ scan.plant_name \in Names
    BY DEF ScanInv, Scans
  <2>2. AllPass <=> scan.missing = "nothing" /\ SameGenus(scan.expectedPlant, scan.plant_name)
    BY <2>1, AllPassMeans, FamilyIsGenus
  <2> QED
    BY <2>2 DEF AcceptsExactlyTheGenus, ScanInv
<1> QED
  BY <1>1, ScanInvariant, PTL
=============================================================================
