----------------------------- MODULE RewardAccount -----------------------------
(***************************************************************************)
(* What the server's users/<uid> document promises to whoever reads it:    *)
(* the snap, the award and the completed challenge of a photo are added in *)
(* this order and only for photos that were identified; each is added once *)
(* unless it is delivered again, and then with the same amount; a photo    *)
(* whose snap was written for nobody may still earn; and a payout takes    *)
(* the whole balance.                                                      *)
(***************************************************************************)
EXTENDS Integers

CONSTANTS
    Photos,
    MaxAward,      \* the most that one snap earns
    Credits        \* "snap", "award", "challenge"

VARIABLES
    snaps, money, challenges,       \* the document
    earns,                          \* per photo: its award, 0 until identified
    missed,                         \* the photos whose snap was written for nobody
    counted, rewarded, completed,   \* the photos that have added theirs
    repeats                         \* per kind: how often one was added again

account == <<snaps, money, challenges, earns, missed, counted, rewarded, completed,
             repeats>>

Init == /\ snaps = 0 /\ money = 0 /\ challenges = 0
        /\ earns = [p \in Photos |-> 0]
        /\ missed = {} /\ counted = {} /\ rewarded = {} /\ completed = {}
        /\ repeats = [k \in Credits |-> 0]

Identify(p) ==
    /\ earns[p] = 0
    /\ \E a \in 1..MaxAward : earns' = [earns EXCEPT ![p] = a]
    /\ UNCHANGED <<snaps, money, challenges, missed, counted, rewarded, completed,
                   repeats>>

Miss(p) ==
    /\ earns[p] # 0 /\ p \notin counted
    /\ missed' = missed \cup {p}
    /\ UNCHANGED <<snaps, money, challenges, earns, counted, rewarded, completed,
                   repeats>>

\* Only what was added before is a repetition.
Delivered(k, p, before) ==
    repeats' = IF p \in before THEN [repeats EXCEPT ![k] = repeats[k] + 1]
                               ELSE repeats

CountSnap(p) ==
    /\ earns[p] # 0 /\ p \notin missed
    /\ Delivered("snap", p, counted)
    /\ counted' = counted \cup {p}
    /\ snaps' = snaps + 1
    /\ UNCHANGED <<money, challenges, earns, missed, rewarded, completed>>

Award(p) ==
    /\ p \in counted \cup missed
    /\ Delivered("award", p, rewarded)
    /\ rewarded' = rewarded \cup {p}
    /\ money' = money + earns[p]
    /\ UNCHANGED <<snaps, challenges, earns, missed, counted, completed>>

CompleteChallenge(p) ==
    /\ p \in counted \cup missed
    /\ Delivered("challenge", p, completed)
    /\ completed' = completed \cup {p}
    /\ challenges' = challenges + 1
    /\ UNCHANGED <<snaps, money, earns, missed, counted, rewarded>>

PayOut ==
    /\ money' = 0
    /\ UNCHANGED <<snaps, challenges, earns, missed, counted, rewarded, completed,
                   repeats>>

Next == \/ \E p \in Photos : \/ Identify(p) \/ Miss(p) \/ CountSnap(p) \/ Award(p)
                             \/ CompleteChallenge(p)
        \/ PayOut

Spec == Init /\ [][Next]_account
=============================================================================
