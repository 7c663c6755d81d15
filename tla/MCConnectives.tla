--------------------------- MODULE MCConnectives ---------------------------
(***************************************************************************)
(* Instances of Connectives for TLC.                                       *)
(***************************************************************************)
EXTENDS Connectives, TLC

CONSTANTS fa, fb, x

TwoFields == {fa, fb}
OneValue == {x}
EveryTest == {"equal", "nil", "empty"}

FieldSymmetry == Permutations({fa, fb})
=============================================================================
