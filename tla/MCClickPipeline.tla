-------------------------- MODULE MCClickPipeline --------------------------
(* Model-checking instance of ClickPipeline.                               *)
EXTENDS ClickPipeline, TLC

\* The workers are interchangeable, and so are the daily keys.
Symmetry == Permutations(Workers) \cup Permutations(Keys)
=============================================================================
