---------------------------- MODULE MCShortUrls ----------------------------
(* Model-checking instance of ShortUrls.                                   *)
EXTENDS ShortUrls, TLC

CONSTANTS bob, adm

\* Every imported row belongs to bob in owners.csv.
BobOwns == [c \in Rows |-> bob]

Symmetry == Permutations(Requests)
=============================================================================
