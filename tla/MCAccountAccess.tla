-------------------------- MODULE MCAccountAccess --------------------------
(* Model-checking instance of AccountAccess, and with it of Sessions,       *)
(* LocalLogin, Passkeys and Administrators.                                 *)
EXTENDS AccountAccess, TLC

\* Each kind of route on its own.
OneKind == {{"password"}, {"passkey"}, {"administration"}, {"sessions"}}

Symmetry ==
  Permutations(Users) \cup Permutations(Tokens) \cup Permutations(Requests)
    \cup Permutations(Ceremonies)
=============================================================================
