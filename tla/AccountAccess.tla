---------------------------- MODULE AccountAccess ---------------------------
(***************************************************************************)
(* What signed-in users and administrators do with accounts: the sessions  *)
(* with the modules that act through them.  The requests of one behaviour  *)
(* are of the kinds in traffic; logins and failures mix with each.          *)
(***************************************************************************)
EXTENDS LocalLogin, Passkeys, Administrators

CONSTANT Traffic  \* bound: the kinds of route that are used together

ASSUME TrafficAssumption ==
  Traffic \subseteq SUBSET {"password", "passkey", "administration", "sessions"}

VARIABLE traffic  \* the kinds of this behaviour

vars == <<sessions, local, webauthn, administration, traffic>>

\* What each kind of route leaves alone.
byPassword == <<webauthn, administration, traffic>>
byPasskey  == <<local, administration, traffic>>
byAdmin    == <<local, webauthn, traffic>>
others     == <<local, byAdmin, administration>>

\* What a behaviour does not use starts at one value.
Init ==
  /\ traffic \in Traffic
  /\ SessionsInit /\ LocalInit /\ PasskeysInit /\ AdministratorsInit
  /\ "password" \in traffic \/ creds = [u \in Users |-> None]
  /\ "administration" \in traffic \/ admins = Users

\* The routes that are used together are served together.
Arrives(q) ==
  \/ "sessions" \in traffic /\ SessionArrives(q) /\ UNCHANGED others
  \/ "password" \in traffic /\ LocalArrives(q) /\ UNCHANGED byPassword
  \/ "passkey" \in traffic /\ PasskeyArrives(q) /\ UNCHANGED byPasskey
  \/ "administration" \in traffic /\ AdministratorsArrive(q) /\ UNCHANGED byAdmin

Next ==
  \/ \E q \in Requests : Arrives(q)
  \/ LocalNext /\ UNCHANGED byPassword
  \/ "passkey" \in traffic /\ PasskeysNext /\ UNCHANGED byPasskey
  \/ AdministratorsNext /\ UNCHANGED byAdmin
  \/ SessionsNext /\ UNCHANGED others
  \/ "sessions" \in traffic /\ Tick /\ UNCHANGED others

Spec == Init /\ [][Next]_vars

-----------------------------------------------------------------------------
(* Properties.                                                             *)

Calls ==
  {[op |-> op] : op \in {"me", "set password"} \cup PasskeyCalls} \cup Patches
    \cup [op : {"passkey"}, key : Keys]

Steps ==
  {"idle", "session", "touch", "extend", "flag", "logout", "record", "reset", "insert passkey",
   "assertion", "verify", "set admin", "set status"} \cup ({c.op : c \in Calls} \ {"passkey"})

RequestsTypeOK ==
  \A q \in Requests :
    /\ req[q].pc \in Steps
    /\ req[q].user \in Users \cup {None} /\ req[q].token \in issued \cup {None}
    /\ req[q].isAdmin \in BOOLEAN
    /\ req[q].call \in Calls \cup {None}
    /\ CASE req[q].pc \in {"record", "reset"} -> req[q].read \in Credentials
         [] req[q].pc = "verify"               -> req[q].read \in 0..MaxSignCount
         [] OTHER                              -> req[q].read = None

\* Every variable has its type; the parts are the modules'.
TypeOK ==
  SessionsTypeOK /\ LocalTypeOK /\ PasskeysTypeOK /\ AdministratorsTypeOK /\ RequestsTypeOK
=============================================================================
