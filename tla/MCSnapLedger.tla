----------------------------- MODULE MCSnapLedger -----------------------------
(* Small instances of SnapLedger for TLC. *)
EXTENDS SnapLedger, TLC

\* Photos are interchangeable: nothing in the specification names one.
PhotoSymmetry == Permutations(Photos)
=============================================================================
