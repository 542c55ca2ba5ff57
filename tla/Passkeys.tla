------------------------------ MODULE Passkeys ------------------------------
(***************************************************************************)
(* Passkeys: WebAuthnService, its one-time ceremonies in Redis and the     *)
(* stored signature counters.                                              *)
(*                                                                         *)
(* What the authenticator signs and the library verifies is not modelled: a*)
(* finished ceremony is a genuine one, for any passkey that is registered  *)
(* and with any counter.  Names are left out, and so is renaming.  A       *)
(* ceremony that runs out is one that is never finished.                   *)
(***************************************************************************)
EXTENDS Sessions

CONSTANTS
  Keys,        \* credential ids; an authenticator makes each of them once
  Ceremonies,  \* ceremony ids
  MaxSignCount \* bound: the counters that authenticators report

ASSUME PasskeysAssumption == MaxSignCount \in Nat /\ None \notin Keys \cup Ceremonies

VARIABLES
  passkeys,    \* webauthn_credentials: the owner and sign_count of each
  made,        \* the credential ids that have been registered
  ceremonies,  \* what is stored under each ceremony id
  finished     \* history: how many requests finished each ceremony

webauthn == <<passkeys, made, ceremonies, finished>>

NoPasskey == [user |-> None, count |-> 0]

\* A registration is somebody's, a login is not.
Ceremony(kind, user) == [kind |-> kind, user |-> user]

PasskeysInit ==
  /\ passkeys = [k \in Keys |-> NoPasskey]
  /\ made = {}
  /\ ceremonies = [c \in Ceremonies |-> Ceremony("new", None)]
  /\ finished = [c \in Ceremonies |-> 0]

-----------------------------------------------------------------------------
\* storeSession: registrations and logins share a prefix.
StoreSession(c, ceremony) ==
  /\ ceremonies[c].kind = "new"
  /\ ceremonies' = [ceremonies EXCEPT ![c] = ceremony]

\* Mutant: the ceremony is read with GET.
PeekSession(c) ==
  /\ ceremonies[c].kind \in {"registration", "login"}
  /\ finished' = [finished EXCEPT ![c] = @ + 1]
  /\ UNCHANGED ceremonies

\* consumeSession: GETDEL.
ConsumeSession(c) ==
  /\ ceremonies[c].kind \in {"registration", "login"}
  /\ ceremonies' = [ceremonies EXCEPT ![c] = Ceremony("consumed", None)]
  /\ finished' = [finished EXCEPT ![c] = @ + 1]

\* handleWebAuthnRegisterBegin, for somebody signed in.
BeginRegistration(q, c) ==
  /\ req[q].pc = "register begin"
  /\ StoreSession(c, Ceremony("registration", req[q].user))
  /\ Done(q)
  /\ UNCHANGED <<store, admins, gone, revived, passkeys, made, finished>>

\* FinishRegistration; the library refuses the data of a login, and what
\* somebody else began.
ConsumeRegistration(q, c) ==
  /\ req[q].pc = "register finish"
  /\ ConsumeSession(c)
  /\ IF ceremonies[c] = Ceremony("registration", req[q].user)
     THEN Goto(q, "insert passkey") ELSE Done(q)
  /\ UNCHANGED <<store, admins, gone, revived, passkeys, made>>

\* CreateWebAuthnCredential, with the counter the authenticator starts at.
InsertPasskey(q, k, n) ==
  /\ req[q].pc = "insert passkey" /\ k \notin made
  /\ passkeys' = [passkeys EXCEPT ![k] = [user |-> req[q].user, count |-> n]]
  /\ made' = made \cup {k}
  /\ Done(q)
  /\ UNCHANGED <<store, admins, gone, revived, ceremonies, finished>>

\* handleWebAuthnLoginBegin, for anybody.
BeginPasskeyLogin(c) ==
  /\ StoreSession(c, Ceremony("login", None))
  /\ UNCHANGED <<sessions, passkeys, made, finished>>

\* handleWebAuthnLoginFinish, FinishLogin: the ceremony is consumed first; the
\* library refuses the data of a registration.
FinishPasskeyLogin(q, c) ==
  /\ ConsumeSession(c)
  /\ IF ceremonies[c].kind = "login" THEN Accept(q, [Idle EXCEPT !.pc = "assertion"])
     ELSE req[q] = Idle /\ UNCHANGED req
  /\ UNCHANGED <<store, admins, gone, revived, passkeys, made>>

\* The owner's passkeys are loaded for the library to verify against.
LoadPasskeys(q, k) ==
  /\ req[q].pc = "assertion" /\ passkeys[k] # NoPasskey
  /\ req' = [req EXCEPT ![q].pc = "verify", ![q].user = passkeys[k].user,
                        ![q].call = [op |-> "passkey", key |-> k], ![q].read = passkeys[k].count]
  /\ UNCHANGED <<store, admins, gone, revived, webauthn>>

\* Mutant: the clone warning is ignored.
NoCloneWarning(n, stored) == FALSE

\* The library's clone warning: a counter in use that did not go up.
CloneWarning(n, stored) == n <= stored /\ (n # 0 \/ stored # 0)

\* applyLoginResult refuses a clone and leaves the stored counter alone;
\* otherwise it writes the new one, by credential id and without asking
\* whether there was still a row.
ApplyLoginResult(q, n) ==
  /\ req[q].pc = "verify"
  /\ ~CloneWarning(n, req[q].read)
  /\ LET k == req[q].call.key IN
     passkeys' = IF passkeys[k] = NoPasskey THEN passkeys
                 ELSE [passkeys EXCEPT ![k].count = n]
  /\ req' = [req EXCEPT ![q].pc = "session", ![q].read = None]
  /\ UNCHANGED <<store, admins, gone, revived, made, ceremonies, finished>>

\* handleDeleteWebAuthnCredential: scoped to the caller.
DeletePasskey(q, k) ==
  /\ req[q].pc = "delete passkey"
  /\ passkeys[k].user = req[q].user
  /\ passkeys' = [passkeys EXCEPT ![k] = NoPasskey]
  /\ Done(q)
  /\ UNCHANGED <<store, admins, gone, revived, made, ceremonies, finished>>

PasskeyCalls == {"register begin", "register finish", "delete passkey"}

PasskeyArrives(q) ==
  \/ \E c \in Ceremonies : FinishPasskeyLogin(q, c)
  \/ \E t \in Tokens, op \in PasskeyCalls :
       Authenticate(q, t, [op |-> op]) /\ UNCHANGED webauthn

PasskeysNext ==
  \/ \E c \in Ceremonies :
       \/ BeginPasskeyLogin(c)
       \/ \E q \in Requests : BeginRegistration(q, c) \/ ConsumeRegistration(q, c)
  \/ \E q \in Requests, k \in Keys :
       \/ \E n \in 0..MaxSignCount : InsertPasskey(q, k, n)
       \/ LoadPasskeys(q, k) \/ DeletePasskey(q, k)
  \/ \E q \in Requests, n \in 0..MaxSignCount : ApplyLoginResult(q, n)

-----------------------------------------------------------------------------
(* Properties.                                                             *)

PasskeyRows == [user : Users, count : 0..MaxSignCount]

PasskeysTypeOK ==
  /\ passkeys \in [Keys -> PasskeyRows \cup {NoPasskey}]
  /\ \A k \in Keys : passkeys[k] # NoPasskey => k \in made
  /\ ceremonies \in [Ceremonies -> {Ceremony(k, None) : k \in {"new", "login", "consumed"}}
                                  \cup {Ceremony("registration", u) : u \in Users}]
  /\ finished \in [Ceremonies -> Nat]

\* A ceremony is finished at most once, by whichever of the two handlers and
\* however many requests send its id.
CeremonyOnce == \A c \in Ceremonies : finished[c] <= 1

\* The stored counter of a passkey falls only when a login that verified
\* against an older value writes after one that got a higher one.
CounterRises ==
  [][\A k \in Keys :
       passkeys[k] # NoPasskey /\ passkeys'[k] # NoPasskey
         /\ passkeys'[k].count < passkeys[k].count =>
           \E q \in Requests :
             /\ req[q].pc = "verify" /\ req[q].call.key = k
             /\ req[q].read < passkeys[k].count]_<<sessions, webauthn>>
=============================================================================
