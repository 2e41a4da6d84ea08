---------------------------- MODULE MCChallengeFeed ----------------------------
(* A small instance of ChallengeFeed for TLC. *)
EXTENDS ChallengeFeed

\* One challenge, with an own entry and somebody else's.
SomeEntries == {[challenge |-> "oak", host |-> "uid"],
                [challenge |-> "oak", host |-> "other"]}

\* The challenge is edited once.
SomeHistory == << {"oak"}, {"oak"} >>
=============================================================================
