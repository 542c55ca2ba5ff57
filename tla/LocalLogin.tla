----------------------------- MODULE LocalLogin -----------------------------
(***************************************************************************)
(* Logins with e-mail and password and the lockout behind them:            *)
(* LocalAuthenticator.Login, SetPassword and their store.  The counter is  *)
(* read in one statement and written back in another.  The comparison of   *)
(* the hash uses only what was read, so it is part of the reading step.    *)
(***************************************************************************)
EXTENDS Sessions

CONSTANTS
  MaxFailed,  \* maxFailedAttempts
  MaxCount    \* bound: the counter, which goes on after a lock has run out

ASSUME LocalLoginAssumption == MaxFailed \in Nat \ {0} /\ MaxCount \in Nat

VARIABLES
  creds,      \* local_credentials: the counter and locked_until
  wrong       \* history: failures recorded since the account was forgiven, up
              \* to MaxFailed

local == <<creds, wrong>>

\* locked_until is NULL, ahead or past.
Credential(n, locked) == [failed |-> n, locked |-> locked]

Fresh == Credential(0, "null")

LocalInit ==
  /\ creds \in [Users -> {Fresh, None}]
  /\ wrong = [u \in Users |-> 0]

-----------------------------------------------------------------------------
\* What Login does next: a wrong password is recorded, a right one clears what
\* failed before it.
Compared(u, right) ==
  IF right /\ creds[u] = Fresh THEN [Idle EXCEPT !.pc = "session", !.user = u]
  ELSE [Idle EXCEPT !.pc = IF right THEN "reset" ELSE "record", !.user = u, !.read = creds[u]]

\* Mutant: locked_until is not looked at.
LoginUnlocked(q, u, right) ==
  /\ creds[u] # None /\ creds[u].failed < MaxCount
  /\ Accept(q, Compared(u, right))
  /\ UNCHANGED <<store, admins, gone, revived, local>>

\* Login: an account without a password or with a lock ahead is refused.
Login(q, u, right) ==
  /\ creds[u] # None /\ creds[u].locked # "ahead" /\ creds[u].failed < MaxCount
  /\ Accept(q, Compared(u, right))
  /\ UNCHANGED <<store, admins, gone, revived, local>>

\* What Login writes after a failure, from what it read.
Attempts(c) ==
  Credential(c.failed + 1, IF c.failed + 1 >= MaxFailed THEN "ahead" ELSE "null")

\* RecordFailedAttempt overwrites both columns.
RecordFailedAttempt(q) ==
  /\ req[q].pc = "record"
  /\ LET u == req[q].user
         c == Attempts(req[q].read) IN
     /\ creds' = [creds EXCEPT ![u] = c]
     /\ wrong' = [wrong EXCEPT ![u] = IF @ < MaxFailed THEN @ + 1 ELSE @]
  /\ Done(q)
  /\ UNCHANGED <<store, admins, gone, revived>>

\* A login of u has compared a wrong password and not counted it yet.
Recording(u) == \E q \in Requests : req[q].pc = "record" /\ req[q].user = u

\* History: the failures of u are forgiven, unless a login under way is going to
\* write back a counter that it read before.
Forgive(u) == wrong' = [wrong EXCEPT ![u] = IF Recording(u) THEN @ ELSE 0]

\* Mutant: only the counter is cleared.
ResetCounterOnly(q) ==
  /\ req[q].pc = "reset"
  /\ creds' = [creds EXCEPT ![req[q].user] = Credential(0, IF @ = None THEN "null" ELSE @.locked)]
  /\ Forgive(req[q].user)
  /\ req' = [req EXCEPT ![q].pc = "session", ![q].read = None]
  /\ UNCHANGED <<store, admins, gone, revived>>

\* ResetFailedAttempts, after a right password.
ResetFailedAttempts(q) ==
  /\ req[q].pc = "reset"
  /\ creds' = [creds EXCEPT ![req[q].user] = Fresh]
  /\ Forgive(req[q].user)
  /\ req' = [req EXCEPT ![q].pc = "session", ![q].read = None]
  /\ UNCHANGED <<store, admins, gone, revived>>

\* Mutant: the hash is replaced and the lockout is left as it is.
SetPasswordOnly(q) ==
  /\ req[q].pc = "set password"
  /\ creds' = [creds EXCEPT ![req[q].user] = IF @ = None THEN Fresh ELSE @]
  /\ Forgive(req[q].user)
  /\ Done(q)
  /\ UNCHANGED <<store, admins, gone, revived>>

\* handleSetPassword, for the session's own account.
SetPassword(q) ==
  /\ req[q].pc = "set password"
  /\ creds' = [creds EXCEPT ![req[q].user] = Fresh]
  /\ Forgive(req[q].user)
  /\ Done(q)
  /\ UNCHANGED <<store, admins, gone, revived>>

\* lockoutDuration passes.
LockRunsOut(u) ==
  /\ creds[u] # None /\ creds[u].locked = "ahead"
  /\ creds' = [creds EXCEPT ![u].locked = "past"]
  /\ UNCHANGED <<sessions, wrong>>

LocalArrives(q) ==
  \/ \E u \in Users, right \in BOOLEAN : Login(q, u, right)
  \/ \E t \in Tokens : Authenticate(q, t, [op |-> "set password"]) /\ UNCHANGED local

LocalNext ==
  \/ \E q \in Requests : RecordFailedAttempt(q) \/ ResetFailedAttempts(q) \/ SetPassword(q)
  \/ \E u \in Users : LockRunsOut(u)

-----------------------------------------------------------------------------
(* Properties.                                                             *)

Credentials == [failed : 0..MaxCount, locked : {"null", "ahead", "past"}]

\* The counter and the lock are always written together.
LocalTypeOK ==
  /\ creds \in [Users -> Credentials \cup {None}]
  /\ \A u \in Users : creds[u] # None =>
       (creds[u].failed >= MaxFailed <=> creds[u].locked # "null")
  /\ wrong \in [Users -> 0..MaxFailed]

\* A lock is earned: overlapping logins may lose failures but never invent one,
\* so an account is locked only after MaxFailed recorded failures, and what came
\* before a right password or a new one counts no more.  It counts on only
\* through a login that had read the counter before that and writes it back
\* after.
LockEarned ==
  \A u \in Users : creds[u] # None /\ creds[u].locked = "ahead" => wrong[u] = MaxFailed

\* A lock ends before its time only by a new password, or by a login that had
\* read the counter before the lock was set.
LockHolds ==
  [][\A u \in Users :
       creds[u] # None /\ creds[u].locked = "ahead" /\ creds'[u].locked = "null" =>
         \E q \in Requests :
           /\ req[q].user = u
           /\ \/ req[q].pc = "set password"
              \/ req[q].pc \in {"record", "reset"} /\ req[q].read # creds[u]]_<<sessions, local>>
=============================================================================
