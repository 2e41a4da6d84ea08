----------------------------- MODULE PlantIdentify -----------------------------
(***************************************************************************)
(* PlantScanner.plantScanner: one call, from its guards through the answer *)
(* of the identification service to its completion handler.                *)
(*                                                                         *)
(* A name is a sequence of characters, because the verdict depends on how  *)
(* names are split at spaces. Of everything else only what the guards tell *)
(* apart is kept: which part of the answer is missing.                     *)
(***************************************************************************)
EXTENDS Integers, Sequences, FiniteSetsExt

CONSTANTS
    Letters,      \* the characters of a name other than the space
    Space,        \* the space
    MaxName       \* bound: the longest name

ASSUME SpaceAssumption == Space \notin Letters
ASSUME NameAssumption == MaxName \in Nat

VARIABLES
    scan,         \* the arguments of the call and what the service answers
    check,        \* the next guard to evaluate; 0 once the call has returned
    completions   \* what the completion handler was called with, in order

vars == <<scan, check, completions>>

Names == UNION {[1..n -> Letters \cup {Space}] : n \in 0..MaxName}

\* The guards in program order. The first two run in the caller, the others in
\* the data task's handler.
Guards == <<"location", "pngData", "transport", "dictionary", "is_plant",
            "suggestions", "plant_details", "similar_images", "image_url",
            "plant_name", "wiki_url", "isPlantResultsBool", "family">>

\* What can be missing: a guard's own subject, or nothing. A missing part hides
\* the ones after it, so one is enough.
Missing == {"nothing"} \cup {Guards[i] : i \in 1..Len(Guards) - 1}

\* is_plant is an Int of the answer, and 1 when the service sees a plant.
Scans == [missing : Missing, expectedPlant : Names, plant_name : Names]

\* components(separatedBy: " ").first: what comes before the first space, and the
\* empty string when the name is empty or begins with one.
FirstSpace(s) == Min({i \in 1..Len(s) : s[i] = Space} \cup {Len(s) + 1})

\* (mutant) The last component is taken.
LastComponent(s) ==
    SubSeq(s, Max({i \in 1..Len(s) : s[i] = Space} \cup {0}) + 1, Len(s))

FamilyName(s) == SubSeq(s, 1, FirstSpace(s) - 1)

\* Whether the guard g is passed.
Passes(g) ==
    IF g = "family"
      THEN FamilyName(scan.expectedPlant) = FamilyName(scan.plant_name)
      ELSE scan.missing # g

Init ==
    /\ scan \in Scans
    /\ check = 1
    /\ completions = <<>>

\* (mutant) A guard that returns without telling the caller.
CompleteSilently(b) ==
    /\ completions' = IF scan.missing = "dictionary" THEN completions
                                                     ELSE Append(completions, b)
    /\ check' = 0

\* completion(b), and return.
Complete(b) ==
    /\ completions' = Append(completions, b)
    /\ check' = 0

EvaluateGuard ==
    /\ check # 0
    /\ IF ~Passes(Guards[check]) THEN Complete(FALSE)
       ELSE IF check = Len(Guards) THEN Complete(TRUE)
       ELSE check' = check + 1 /\ UNCHANGED completions
    /\ UNCHANGED scan

Next == EvaluateGuard

\* The data task's handler is called in the end, with an answer or an error.
Spec == Init /\ [][Next]_vars /\ WF_vars(Next)

(***************************************************************************)
(* Properties                                                              *)
(***************************************************************************)
\* Two names are of one genus when a word without spaces begins both, and in
\* each is followed by a space or by nothing.
Begins(g, s) == /\ Len(g) <= Len(s)
                /\ SubSeq(s, 1, Len(g)) = g
                /\ Len(g) < Len(s) => s[Len(g) + 1] = Space
Words == UNION {[1..n -> Letters] : n \in 0..MaxName}
SameGenus(s, t) == \E g \in Words : Begins(g, s) /\ Begins(g, t)

\* A photo is accepted only when the whole answer is there and names a plant of
\* the genus asked for, and then it is: splitting at spaces decides exactly that.
AcceptsExactlyTheGenus ==
    check = 0 => (completions[Len(completions)] <=>
                    /\ scan.missing = "nothing"
                    /\ SameGenus(scan.expectedPlant, scan.plant_name))

\* Whatever the answer, the completion handler is called, and only once: the
\* spinner of the challenge view depends on it.
CompletesOnce == <>[](Len(completions) = 1)
=============================================================================
