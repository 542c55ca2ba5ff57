-------------------------- MODULE MCRedirectCache --------------------------
(* Model-checking instance of RedirectCache.                               *)
EXTENDS RedirectCache, TLC

\* Instances, requests, editors and targets are interchangeable.
Symmetry ==
  Permutations(Instances) \cup Permutations(Requests)
    \cup Permutations(Editors) \cup Permutations(Targets)
=============================================================================
