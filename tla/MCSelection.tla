----------------------------- MODULE MCSelection -----------------------------
(* Instances of Selection for TLC.                                         *)
EXTENDS Selection, TLC

CONSTANTS a, b

MCPool    == <<a, b>>
\* Weights 0.5 and, by default, 1.0.
MCWeight  == [e \in {a, b} |-> IF e = a THEN 1 ELSE 0]
\* Scores are rounded down to multiples of 0.4.
MCQuotient(n, w) == (n * UnitWeight) \div (2 * w)
Symmetry  == Permutations(Picker)
=============================================================================
