--------------------------- MODULE MCSingleSignOn ---------------------------
(* Model-checking instance of SingleSignOn, and with it of AccountLinking.  *)
EXTENDS SingleSignOn, TLC

\* What administrators change: one setting, or two at once.
SmallPatches ==
  {"confirm" :> FALSE, ("reauth" :> FALSE) @@ ("signup" :> FALSE)}

Symmetry ==
  Permutations(Requests) \cup Permutations(Admins) \cup Permutations(Flows)
    \cup Permutations(Emails)
=============================================================================
