---------------------------- MODULE MCStatistics ----------------------------
(* Model-checking instance of Statistics.                                   *)
EXTENDS Statistics

\* The second month is shorter than the first, as after January.
ShortMonths == <<2, 1, 1>>

Symmetry == Permutations(Browsers)
=============================================================================
