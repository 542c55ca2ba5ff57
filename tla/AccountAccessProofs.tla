------------------------- MODULE AccountAccessProofs -------------------------
(***************************************************************************)
(* The invariants and action properties of AccountAccess: what holds of    *)
(* sessions, the lockout, passkeys and administrators, for any accounts,   *)
(* tokens, requests, passkeys and ceremonies, and any mix of routes.        *)
(***************************************************************************)
EXTENDS AccountAccessTypes

-----------------------------------------------------------------------------
(***************************************************************************)
(* Administrators.                                                         *)
(***************************************************************************)

\* Only handlePatchUser touches administrators and statuses.
LEMMA AdministrationSteps ==
  ASSUME [Next]_vars
  PROVE  \/ UNCHANGED <<admins, suspended, crossed>>
         \/ \E q \in Requests : SetSystemAdmin(q) \/ SetUserStatus(q)
<1>1. CASE UNCHANGED vars
  BY <1>1 DEF vars, sessions, administration
<1>2. CASE Next
  <2>1. ASSUME NEW q \in Requests, Arrives(q) PROVE UNCHANGED <<admins, suspended, crossed>>
    BY <2>1
    DEF Arrives, SessionArrives, LocalArrives, PasskeyArrives, AdministratorsArrive, Authenticate,
        BeginLogout, Login, FinishPasskeyLogin, others, byPassword, byPasskey, byAdmin,
        administration
  <2>2. CASE LocalNext /\ UNCHANGED byPassword
    BY <2>2
    DEF LocalNext, byPassword, administration, RecordFailedAttempt, ResetFailedAttempts,
        SetPassword, LockRunsOut, sessions
  <2>3. CASE PasskeysNext /\ UNCHANGED byPasskey
    BY <2>3
    DEF PasskeysNext, byPasskey, administration, BeginPasskeyLogin, BeginRegistration,
        ConsumeRegistration, InsertPasskey, LoadPasskeys, DeletePasskey, ApplyLoginResult, sessions
  <2>4. CASE AdministratorsNext
    BY <2>4 DEF AdministratorsNext, RequireSystemAdmin, administration
  <2>5. CASE SessionsNext /\ UNCHANGED others
    BY <2>5
    DEF SessionsNext, others, administration, SignIn, CreateSession, Touch, Extend, ReadFlag,
        Respond, Logout, Abort
  <2>6. CASE Tick /\ UNCHANGED others
    BY <2>6 DEF Tick, others, administration
  <2> QED BY <1>2, <2>1, <2>2, <2>3, <2>4, <2>5, <2>6 DEF Next
<1> QED
  BY <1>1, <1>2

-----------------------------------------------------------------------------
(***************************************************************************)
(* Passkeys.                                                               *)
(***************************************************************************)

\* What a step of the passkey handlers is.
LEMMA PasskeyHandlers ==
  ASSUME PasskeysNext \/ \E q \in Requests : PasskeyArrives(q)
  PROVE  \/ UNCHANGED webauthn
         \/ \E c \in Ceremonies : BeginPasskeyLogin(c)
         \/ \E c \in Ceremonies, q \in Requests :
              FinishPasskeyLogin(q, c) \/ BeginRegistration(q, c) \/ ConsumeRegistration(q, c)
         \/ \E q \in Requests, k \in Keys, n \in 0..MaxSignCount : InsertPasskey(q, k, n)
         \/ \E q \in Requests, k \in Keys : DeletePasskey(q, k)
         \/ \E q \in Requests, n \in 0..MaxSignCount : ApplyLoginResult(q, n)
BY DEF PasskeysNext, PasskeyArrives, LoadPasskeys

\* What a step does to the ceremonies.
LEMMA CeremonySteps ==
  ASSUME [Next]_vars
  PROVE  \/ UNCHANGED <<ceremonies, finished>>
         \/ \E c \in Ceremonies : ConsumeSession(c)
         \/ \E c \in Ceremonies, kind \in {"registration", "login"} : \E u :
              StoreSession(c, Ceremony(kind, u)) /\ UNCHANGED finished
<1>1. CASE UNCHANGED webauthn
  BY <1>1 DEF webauthn
<1>2. CASE PasskeysNext \/ \E q \in Requests : PasskeyArrives(q)
  BY <1>1, <1>2, PasskeyHandlers
  DEF BeginPasskeyLogin, FinishPasskeyLogin, BeginRegistration, ConsumeRegistration, InsertPasskey,
      DeletePasskey, ApplyLoginResult
<1> QED
  BY <1>1, <1>2, Modules DEF vars

\* What a step does to the passkeys.
LEMMA PasskeySteps ==
  ASSUME [Next]_vars
  PROVE  \/ UNCHANGED passkeys
         \/ \E q \in Requests, k \in Keys, n \in 0..MaxSignCount : InsertPasskey(q, k, n)
         \/ \E q \in Requests, k \in Keys : DeletePasskey(q, k)
         \/ \E q \in Requests, n \in 0..MaxSignCount : ApplyLoginResult(q, n)
<1>1. CASE UNCHANGED webauthn
  BY <1>1 DEF webauthn
<1>2. CASE PasskeysNext \/ \E q \in Requests : PasskeyArrives(q)
  BY <1>1, <1>2, PasskeyHandlers
  DEF BeginPasskeyLogin, FinishPasskeyLogin, BeginRegistration, ConsumeRegistration
<1> QED
  BY <1>1, <1>2, Modules DEF vars

\* A ceremony that can still be finished has not been.
OnceInv ==
  \A c \in Ceremonies :
    /\ finished[c] <= 1
    /\ ceremonies[c].kind # "consumed" => finished[c] = 0

\* The id of a ceremony is good for one request, whichever of the two finish
\* handlers it reaches: consumeSession reads and deletes in one command.
THEOREM CeremoniesOnce == Spec => []CeremonyOnce
<1>1. Init => OnceInv
  BY DEF Init, PasskeysInit, OnceInv
<1>2. TypeInv /\ OnceInv /\ [Next]_vars => OnceInv'
  <2> SUFFICES ASSUME TypeInv, OnceInv, [Next]_vars PROVE OnceInv'
    OBVIOUS
  <2> USE DEF TypeInv, PasskeysTypeOK, OnceInv, Ceremony
  <2>1. CASE UNCHANGED <<ceremonies, finished>>
    BY <2>1
  <2>2. ASSUME NEW c \in Ceremonies, ConsumeSession(c) PROVE OnceInv'
    BY <2>2 DEF ConsumeSession
  <2>3. ASSUME NEW c \in Ceremonies, NEW kind, NEW u, UNCHANGED finished,
               StoreSession(c, Ceremony(kind, u))
        PROVE  OnceInv'
    BY <2>3 DEF StoreSession
  <2> QED BY <2>1, <2>2, <2>3, CeremonySteps
<1>3. OnceInv => CeremonyOnce
  BY DEF OnceInv, CeremonyOnce
<1> QED
  BY <1>1, <1>2, <1>3, TypeInvariant, PTL DEF Spec

\* What CounterRises says of one step.
Rises ==
  \A k \in Keys :
    passkeys[k] # NoPasskey /\ passkeys'[k] # NoPasskey
      /\ passkeys'[k].count < passkeys[k].count =>
        \E q \in Requests :
          /\ req[q].pc = "verify" /\ req[q].call.key = k
          /\ req[q].read < passkeys[k].count

\* A stored signature counter falls only through a login that verified against
\* a value which another login has replaced in the meantime: a new credential
\* id has no counter yet, and the clone check lets no login through that does
\* not pass the value it read.
THEOREM CountersRise == Spec => CounterRises
<1>1. TypeInv /\ [Next]_vars => [Rises]_<<sessions, webauthn>>
  <2> SUFFICES ASSUME TypeInv, [Next]_vars, NEW k \in Keys,
                      passkeys[k] # NoPasskey, passkeys'[k] # NoPasskey,
                      passkeys'[k].count < passkeys[k].count
               PROVE  \E q \in Requests : /\ req[q].pc = "verify" /\ req[q].call.key = k
                                          /\ req[q].read < passkeys[k].count
    BY DEF Rises
  <2>1. passkeys[k].count \in Nat /\ passkeys \in [Keys -> PasskeyRows \cup {NoPasskey}]
        /\ k \in made
    BY PasskeysAssumption DEF TypeInv, PasskeysTypeOK, PasskeyRows
  <2>2. CASE UNCHANGED passkeys
    BY <2>1, <2>2
  <2>3. ASSUME NEW q \in Requests, NEW j \in Keys, NEW n \in 0..MaxSignCount, InsertPasskey(q, j, n)
        PROVE  FALSE
    <3>1. passkeys'[k] = passkeys[k]
      BY <2>1, <2>3 DEF InsertPasskey
    <3> QED BY <2>1, <3>1
  <2>4. ASSUME NEW q \in Requests, NEW j \in Keys, DeletePasskey(q, j) PROVE FALSE
    <3>1. passkeys'[k] = passkeys[k] \/ passkeys'[k] = NoPasskey
      BY <2>1, <2>4 DEF DeletePasskey
    <3> QED BY <2>1, <3>1
  <2>5. ASSUME NEW q \in Requests, NEW n \in 0..MaxSignCount, ApplyLoginResult(q, n)
        PROVE  /\ req[q].pc = "verify" /\ req[q].call.key = k
               /\ req[q].read < passkeys[k].count
    <3>1. req[q].read \in Nat /\ n \in Nat
      BY <2>5, PasskeysAssumption DEF TypeInv, ReqsOK, ReqOK, ApplyLoginResult
    <3>2. req[q].call.key = k
      BY <2>1, <2>5 DEF ApplyLoginResult
    <3>3. passkeys' = [passkeys EXCEPT ![k].count = n]
      BY <2>5, <3>2 DEF ApplyLoginResult
    <3>4. passkeys'[k].count = n
      BY <2>1, <3>3 DEF PasskeyRows
    <3> QED BY <2>1, <2>5, <3>1, <3>2, <3>4 DEF ApplyLoginResult, CloneWarning
  <2> QED BY <2>2, <2>3, <2>4, <2>5, PasskeySteps
<1> QED
  BY <1>1, TypeInvariant, PTL DEF Spec, CounterRises, Rises

-----------------------------------------------------------------------------
(***************************************************************************)
(* How requests move.                                                      *)
(***************************************************************************)

\* The steps at which a request holds a credential it has read.
Holding == {"record", "reset"}

\* The steps from requireAuth's reading of the flag to the change it allows.
Gating == {"patch user", "set admin"}

\* q goes where it holds neither a session's record nor a credential, and is not
\* about to change an administrator.
Leaves(q) == \E r : req' = [req EXCEPT ![q] = r] /\ r.pc \notin OnToken \cup Holding \cup Gating

LEMMA DoneLeaves == ASSUME NEW q \in Requests, Done(q) PROVE Leaves(q)
<1>1. Idle.pc \notin OnToken \cup Holding \cup Gating
  BY DEF Idle, OnToken, Holding, Gating
<1> QED
  BY <1>1 DEF Done, Leaves

LEMMA GotoLeaves ==
  ASSUME ReqsOK, NEW q \in Requests, NEW pc, Goto(q, pc), pc \notin OnToken \cup Holding \cup Gating
  PROVE  Leaves(q)
<1> DEFINE r == [req[q] EXCEPT !.pc = pc]
<1>1. req' = [req EXCEPT ![q] = r]
  BY DEF Goto
<1>2. r.pc = pc
  BY DEF ReqsOK, ReqRows
<1> QED
  BY <1>1, <1>2 DEF Leaves

LEMMA ToSessionLeaves ==
  ASSUME ReqsOK, NEW q \in Requests, req' = [req EXCEPT ![q].pc = "session", ![q].read = None]
  PROVE  Leaves(q)
<1> DEFINE r == [req[q] EXCEPT !.pc = "session", !.read = None]
<1>1. req' = [req EXCEPT ![q] = r]
  OBVIOUS
<1>2. r.pc = "session"
  BY DEF ReqsOK, ReqRows
<1> HIDE DEF r
<1> QED
  BY <1>1, <1>2 DEF Leaves, OnToken, Holding, Gating

\* q passes on to its handler, or through requireSystemAdmin.
Passes(q) ==
  /\ ReadFlag(q) \/ RequireSystemAdmin(q)
  /\ UNCHANGED <<admins, crossed>>

LEMMA SetSystemAdminLeaves ==
  ASSUME ReqsOK, NEW q \in Requests, SetSystemAdmin(q)
  PROVE  Leaves(q)
<1>1. "set status" \notin OnToken \cup Holding \cup Gating
  BY DEF OnToken, Holding, Gating
<1> QED
  BY <1>1, DoneLeaves, GotoLeaves DEF SetSystemAdmin

\* requireAuth hands over to the handler of the call, with the flag as it is.
LEMMA FlagRead ==
  ASSUME TypeInv, NEW q \in Requests, ReadFlag(q), NEW p \in Requests, req'[p] # req[p]
  PROVE  /\ req'[p].pc \notin OnToken \cup Holding \cup {"set admin"}
         /\ req'[p].user = req[p].user /\ req'[p].isAdmin = (req[p].user \in admins)
<1>0. PICK op : op = req[q].call.op
  OBVIOUS
<1>1. PICK flag : flag = (req[q].user \in admins)
  OBVIOUS
<1> DEFINE r == [req[q] EXCEPT !.pc = op, !.isAdmin = flag]
<1>2. req[q].call \in Routed
  BY DEF TypeInv, ReqsOK, ReqOK, ReadFlag, Carrying
<1>3. op \notin OnToken \cup Holding \cup {"set admin"}
  BY <1>0, <1>2, RoutedOps DEF Holding, Remembering
<1>4. req' = [req EXCEPT ![q] = r]
  BY <1>0, <1>1 DEF ReadFlag
<1>5. r.pc = op /\ r.user = req[q].user /\ r.isAdmin = flag
  BY DEF TypeInv, ReqsOK, ReqRows
<1> HIDE DEF r
<1>6. p = q /\ req'[p] = r
  BY <1>4 DEF TypeInv, ReqsOK
<1> QED
  BY <1>1, <1>3, <1>5, <1>6

\* requireSystemAdmin lets those through whose flag is set.
LEMMA Required ==
  ASSUME TypeInv, NEW q \in Requests, RequireSystemAdmin(q), NEW p \in Requests, req'[p] # req[p]
  PROVE  /\ req[p].pc = "patch user" /\ req[p].isAdmin
         /\ req'[p].pc \notin OnToken \cup Holding
         /\ req'[p].isAdmin /\ req'[p].user = req[p].user
<1>1. PICK pc \in {"set status", "set admin"} : Goto(q, pc)
  BY DEF RequireSystemAdmin
<1> DEFINE r == [req[q] EXCEPT !.pc = pc]
<1>2. req' = [req EXCEPT ![q] = r]
  BY <1>1 DEF Goto
<1>3. r.pc = pc /\ r.user = req[q].user /\ r.isAdmin = req[q].isAdmin
  BY DEF TypeInv, ReqsOK, ReqRows
<1> HIDE DEF r
<1>4. p = q /\ req'[p] = r
  BY <1>2 DEF TypeInv, ReqsOK
<1> QED
  BY <1>3, <1>4 DEF RequireSystemAdmin, OnToken, Holding

\* What a step does to the requests: one of them reads a session or a
\* credential, passes the flag on, or leaves.
LEMMA RequestSteps ==
  ASSUME TypeInv, [Next]_vars
  PROVE  \/ UNCHANGED req
         \/ \E q \in Requests :
              \/ Leaves(q) \/ Touch(q) \/ Passes(q)
              \/ \E t \in Tokens, call \in Routed : Authenticate(q, t, call) \/ BeginLogout(q, t)
              \/ \E u \in Users, right \in BOOLEAN : Login(q, u, right)
<1> DEFINE Reads == \E q \in Requests :
              \/ Leaves(q) \/ Touch(q) \/ Passes(q)
              \/ \E t \in Tokens, call \in Routed : Authenticate(q, t, call) \/ BeginLogout(q, t)
              \/ \E u \in Users, right \in BOOLEAN : Login(q, u, right)
<1>1. CASE UNCHANGED vars
  BY <1>1 DEF vars, sessions
<1>2. CASE /\ SessionsNext \/ Tick \/ \E q \in Requests : SessionArrives(q)
           /\ UNCHANGED administration
  <2>1. ASSUME NEW q \in Requests, NEW t \in Tokens,
               Authenticate(q, t, [op |-> "me"]) \/ BeginLogout(q, t)
        PROVE  Reads
    BY <2>1, Arriving
  <2>2. ASSUME NEW q \in Requests, NEW u \in Users, SignIn(q, u) PROVE Leaves(q)
    <3> DEFINE r == [Idle EXCEPT !.pc = "session", !.user = u]
    <3>1. req' = [req EXCEPT ![q] = r]
      BY <2>2 DEF SignIn, Accept
    <3>2. r.pc \notin OnToken \cup Holding \cup Gating
      BY DEF Idle, OnToken, Holding, Gating
    <3> HIDE DEF r
    <3> QED BY <3>1, <3>2 DEF Leaves
  <2>3. ASSUME NEW q \in Requests, NEW t \in Tokens, CreateSession(q, t) PROVE Leaves(q)
    BY <2>3, DoneLeaves DEF CreateSession
  <2>4. ASSUME NEW q \in Requests, Extend(q) PROVE Leaves(q)
    BY <2>4, GotoLeaves DEF Extend, TypeInv, OnToken, Holding, Gating
  <2>5. ASSUME NEW q \in Requests, ReadFlag(q) PROVE Passes(q)
    BY <1>2, <2>5 DEF ReadFlag, Passes, administration
  <2>6. ASSUME NEW q \in Requests, Respond(q) \/ Logout(q) \/ Abort(q) PROVE Leaves(q)
    BY <2>6, DoneLeaves DEF Respond, Logout, Abort
  <2> QED BY <1>2, <2>1, <2>2, <2>3, <2>4, <2>5, <2>6 DEF SessionsNext, SessionArrives, Tick
<1>3. CASE LocalNext \/ \E q \in Requests : LocalArrives(q)
  <2>1. ASSUME NEW q \in Requests, NEW t \in Tokens, Authenticate(q, t, [op |-> "set password"])
        PROVE  Reads
    BY <2>1, Arriving
  <2>2. ASSUME NEW q \in Requests, RecordFailedAttempt(q) \/ SetPassword(q) PROVE Leaves(q)
    BY <2>2, DoneLeaves DEF RecordFailedAttempt, SetPassword
  <2>3. ASSUME NEW q \in Requests, ResetFailedAttempts(q) PROVE Leaves(q)
    BY <2>3, ToSessionLeaves DEF ResetFailedAttempts, TypeInv
  <2> QED BY <1>3, <2>1, <2>2, <2>3 DEF LocalNext, LocalArrives, LockRunsOut, sessions
<1>4. CASE PasskeysNext \/ \E q \in Requests : PasskeyArrives(q)
  <2>1. ASSUME NEW q \in Requests, NEW t \in Tokens, NEW op \in PasskeyCalls,
               Authenticate(q, t, [op |-> op])
        PROVE  Reads
    BY <2>1, Arriving
  <2>2. ASSUME NEW q \in Requests, NEW c \in Ceremonies, FinishPasskeyLogin(q, c)
        PROVE  Leaves(q) \/ UNCHANGED req
    <3> DEFINE r == [Idle EXCEPT !.pc = "assertion"]
    <3>1. r.pc = "assertion"
      BY DEF Idle
    <3>2. req' = [req EXCEPT ![q] = r] \/ UNCHANGED req
      BY <2>2 DEF FinishPasskeyLogin, Accept
    <3> HIDE DEF r
    <3> QED BY <3>1, <3>2 DEF Leaves, OnToken, Holding, Gating
  <2>3. ASSUME NEW q \in Requests, NEW c \in Ceremonies,
               BeginRegistration(q, c) \/ ConsumeRegistration(q, c)
        PROVE  Leaves(q)
    BY <2>3, DoneLeaves, GotoLeaves
    DEF BeginRegistration, ConsumeRegistration, TypeInv, OnToken, Holding, Gating
  <2>4. ASSUME NEW q \in Requests, NEW k \in Keys, NEW n \in 0..MaxSignCount,
               InsertPasskey(q, k, n)
        PROVE  Leaves(q)
    BY <2>4, DoneLeaves DEF InsertPasskey
  <2>5. ASSUME NEW q \in Requests, NEW k \in Keys, LoadPasskeys(q, k) PROVE Leaves(q)
    <3> DEFINE r == [req[q] EXCEPT !.pc = "verify", !.user = passkeys[k].user,
                       !.call = [op |-> "passkey", key |-> k], !.read = passkeys[k].count]
    <3>1. req' = [req EXCEPT ![q] = r]
      BY <2>5 DEF LoadPasskeys
    <3>2. r.pc = "verify"
      BY DEF TypeInv, ReqsOK, ReqRows
    <3> QED BY <3>1, <3>2 DEF Leaves, OnToken, Holding, Gating
  <2>6. ASSUME NEW q \in Requests, NEW k \in Keys, DeletePasskey(q, k) PROVE Leaves(q)
    BY <2>6, DoneLeaves DEF DeletePasskey
  <2>7. ASSUME NEW q \in Requests, NEW n \in 0..MaxSignCount, ApplyLoginResult(q, n)
        PROVE  Leaves(q)
    BY <2>7, ToSessionLeaves DEF ApplyLoginResult, TypeInv
  <2>8. ASSUME NEW c \in Ceremonies, BeginPasskeyLogin(c) PROVE UNCHANGED req
    BY <2>8 DEF BeginPasskeyLogin, sessions
  <2> QED
    BY <1>4, <2>1, <2>2, <2>3, <2>4, <2>5, <2>6, <2>7, <2>8 DEF PasskeysNext, PasskeyArrives
<1>5. CASE AdministratorsNext \/ \E q \in Requests : AdministratorsArrive(q)
  <2>1. ASSUME NEW q \in Requests, NEW t \in Tokens, NEW p \in Patches, Authenticate(q, t, p)
        PROVE  Reads
    BY <2>1, Arriving
  <2>2. ASSUME NEW q \in Requests, RequireSystemAdmin(q) PROVE Passes(q)
    BY <2>2 DEF RequireSystemAdmin, Passes, administration
  <2>3. ASSUME NEW q \in Requests, SetSystemAdmin(q) PROVE Leaves(q)
    BY <2>3, SetSystemAdminLeaves DEF TypeInv
  <2>4. ASSUME NEW q \in Requests, SetUserStatus(q) PROVE Leaves(q)
    BY <2>4, DoneLeaves DEF SetUserStatus
  <2> QED BY <1>5, <2>1, <2>2, <2>3, <2>4 DEF AdministratorsNext, AdministratorsArrive
<1> QED
  BY <1>1, <1>2, <1>3, <1>4, <1>5, Modules

\* A request that has left is not holding anything.
LEMMA Left ==
  ASSUME ReqsOK, NEW q \in Requests, Leaves(q), NEW p \in Requests
  PROVE  req'[p] = req[p] \/ req'[p].pc \notin OnToken \cup Holding \cup Gating
BY DEF Leaves, ReqsOK

-----------------------------------------------------------------------------
(***************************************************************************)
(* Somebody who can administer the system is left.                         *)
(***************************************************************************)

\* A request that is past requireAuth and may still change an administrator has
\* just read the flag, or has passed requireSystemAdmin on it.
LEMMA Gates ==
  ASSUME TypeInv, [Next]_vars, NEW p \in Requests, req'[p].pc \in Gating
  PROVE  \/ req'[p] = req[p]
         \/ /\ UNCHANGED <<admins, crossed>> /\ req'[p].pc = "patch user"
            /\ req'[p].user = req[p].user /\ req'[p].isAdmin = (req[p].user \in admins)
         \/ /\ UNCHANGED <<admins, crossed>> /\ req[p].pc = "patch user"
            /\ req[p].isAdmin /\ req'[p].isAdmin /\ req'[p].user = req[p].user
<1>1. CASE UNCHANGED req
  BY <1>1
<1>2. ASSUME NEW q \in Requests, Leaves(q) PROVE req'[p] = req[p]
  BY <1>2, Left DEF TypeInv
<1>3. ASSUME NEW q \in Requests, Touch(q) PROVE req'[p] = req[p]
  BY <1>3 DEF Touch, Goto, TypeInv, ReqsOK, ReqRows, Gating
<1>4. ASSUME NEW q \in Requests, NEW t \in Tokens, NEW call \in Routed,
             Authenticate(q, t, call) \/ BeginLogout(q, t)
      PROVE  req'[p] = req[p]
  BY <1>4 DEF Authenticate, BeginLogout, Accept, Idle, TypeInv, ReqsOK, Gating
<1>5. ASSUME NEW q \in Requests, NEW u \in Users, NEW right \in BOOLEAN, Login(q, u, right)
      PROVE  req'[p] = req[p]
  BY <1>5 DEF Login, Accept, Compared, Idle, TypeInv, ReqsOK, Gating
<1>6. ASSUME NEW q \in Requests, Passes(q), ReadFlag(q), req'[p] # req[p]
      PROVE  /\ UNCHANGED <<admins, crossed>> /\ req'[p].pc = "patch user"
             /\ req'[p].user = req[p].user /\ req'[p].isAdmin = (req[p].user \in admins)
  BY <1>6, FlagRead DEF Passes, Gating
<1>7. ASSUME NEW q \in Requests, Passes(q), RequireSystemAdmin(q), req'[p] # req[p]
      PROVE  /\ UNCHANGED <<admins, crossed>> /\ req[p].pc = "patch user"
             /\ req[p].isAdmin /\ req'[p].isAdmin /\ req'[p].user = req[p].user
  BY <1>7, Required DEF Passes
<1> QED
  BY <1>1, <1>2, <1>3, <1>4, <1>5, <1>6, <1>7, RequestSteps DEF Passes

\* Whoever may still change an administrator is one, as long as nobody was
\* demoted who was about to; and nobody gets that far without the flag.
GateInv ==
  /\ ~crossed => /\ admins # {}
                 /\ \A q \in Requests :
                      req[q].pc \in Gating /\ req[q].isAdmin => req[q].user \in admins
  /\ \A q \in Requests : req[q].pc = "set admin" => req[q].isAdmin

\* In every run in which no administrator is demoted between requireAuth's
\* reading of their flag and their own change, somebody is left who can
\* administer the system: handlePatchUser lets nobody demote their own account,
\* so whoever makes a change outlasts it.
THEOREM SomebodyStays == Spec => []SomebodyIsLeft
<1>1. Init => GateInv
  <2> SUFFICES ASSUME Init PROVE GateInv
    OBVIOUS
  <2>1. \A q \in Requests : req[q].pc = "idle"
    BY DEF Init, SessionsInit, Idle
  <2>2. admins # {}
    BY DEF Init, AdministratorsInit
  <2> QED BY <2>1, <2>2 DEF GateInv, Gating
<1>2. TypeInv /\ GateInv /\ [Next]_vars => GateInv'
  <2> SUFFICES ASSUME TypeInv, GateInv, [Next]_vars PROVE GateInv'
    OBVIOUS
  <2>1. ASSUME NEW p \in Requests, req'[p].pc = "set admin" PROVE req'[p].isAdmin
    BY <2>1, Gates DEF GateInv, Gating
  <2>2. CASE UNCHANGED <<admins, crossed>>
    <3>1. ASSUME NEW p \in Requests, ~crossed, req'[p].pc \in Gating, req'[p].isAdmin
          PROVE  req'[p].user \in admins
      <4>1. req[p].pc \in Gating /\ req[p].isAdmin => req[p].user \in admins
        BY <3>1 DEF GateInv
      <4> QED BY <3>1, <4>1, Gates DEF Gating
    <3> QED BY <2>1, <2>2, <3>1 DEF GateInv
  <2>3. ASSUME NEW q \in Requests, SetSystemAdmin(q) PROVE GateInv'
    <3> DEFINE w == req[q].call.whom
    <3>1. ASSUME NEW p \in Requests, req'[p].pc \in Gating PROVE req'[p] = req[p] /\ p # q
      <4>1. Leaves(q)
        BY <2>3, SetSystemAdminLeaves DEF TypeInv
      <4>2. req'[q].pc \notin Gating
        BY <4>1 DEF Leaves, TypeInv, ReqsOK
      <4> QED BY <3>1, <4>1, <4>2, Left DEF TypeInv
    <3>2. /\ req[q].pc = "set admin" /\ req[q].isAdmin
          /\ w # req[q].user \/ req[q].call.admin = "grant"
      BY <2>3 DEF SetSystemAdmin, MayDemote, GateInv
    <3>3. ASSUME ~crossed' PROVE ~crossed /\ req[q].user \in admins
      BY <2>3, <3>2, <3>3 DEF SetSystemAdmin, GateInv, Gating
    <3>4. CASE req[q].call.admin = "grant"
      <4>1. admins' = admins \cup {w}
        BY <2>3, <3>4 DEF SetSystemAdmin
      <4> QED BY <2>1, <3>1, <3>3, <4>1 DEF GateInv
    <3>5. CASE req[q].call.admin # "grant"
      <4>1. admins' = admins \ {w} /\ (~crossed' => ~Acting(q, w))
        BY <2>3, <3>5 DEF SetSystemAdmin
      <4>2. ASSUME ~crossed' PROVE admins' # {}
        BY <3>2, <3>3, <3>5, <4>1, <4>2
      <4>3. ASSUME ~crossed', NEW p \in Requests, req'[p].pc \in Gating, req'[p].isAdmin
            PROVE  req'[p].user \in admins'
        <5>1. req'[p] = req[p] /\ p # q
          BY <3>1, <4>3
        <5>2. req[p].user \in admins
          BY <3>3, <4>3, <5>1 DEF GateInv
        <5>3. req[p].user # w
          BY <4>1, <4>3, <5>1 DEF Acting, Gating
        <5> QED BY <4>1, <5>1, <5>2, <5>3
      <4> QED BY <2>1, <4>2, <4>3 DEF GateInv
    <3> QED BY <3>4, <3>5
  <2>4. ASSUME NEW q \in Requests, SetUserStatus(q) PROVE UNCHANGED <<admins, crossed>>
    BY <2>4 DEF SetUserStatus
  <2> QED BY <2>2, <2>3, <2>4, AdministrationSteps
<1>3. GateInv => SomebodyIsLeft
  BY DEF GateInv, SomebodyIsLeft
<1> QED
  BY <1>1, <1>2, <1>3, TypeInvariant, PTL DEF Spec

-----------------------------------------------------------------------------
(***************************************************************************)
(* The lockout.                                                            *)
(***************************************************************************)

\* What a step does to the credentials.
LEMMA CredentialSteps ==
  ASSUME [Next]_vars
  PROVE  \/ UNCHANGED <<creds, wrong>>
         \/ \E q \in Requests :
              RecordFailedAttempt(q) \/ ResetFailedAttempts(q) \/ SetPassword(q)
         \/ \E u \in Users : LockRunsOut(u)
<1>1. CASE UNCHANGED local
  BY <1>1 DEF local
<1>2. CASE LocalNext \/ \E q \in Requests : LocalArrives(q)
  BY <1>2 DEF LocalNext, LocalArrives, Login, local
<1> QED
  BY <1>1, <1>2, Modules DEF vars

\* A request that starts to hold a credential is a login, which has just read it
\* and writes nothing.
LEMMA Readers ==
  ASSUME TypeInv, [Next]_vars, NEW p \in Requests, req'[p].pc \in Holding
  PROVE  \/ req'[p] = req[p]
         \/ /\ UNCHANGED <<creds, wrong>>
            /\ \E u \in Users : /\ creds[u] # None /\ req'[p].user = u
                                /\ req'[p].read = creds[u]
<1>1. CASE UNCHANGED req
  BY <1>1
<1>2. ASSUME NEW q \in Requests, Leaves(q) PROVE req'[p] = req[p]
  BY <1>2, Left DEF TypeInv
<1>3. ASSUME NEW q \in Requests, Touch(q) PROVE req'[p] = req[p]
  BY <1>3 DEF Touch, Goto, TypeInv, ReqsOK, ReqRows, Holding
<1>4. ASSUME NEW q \in Requests, NEW t \in Tokens, NEW call \in Routed,
             Authenticate(q, t, call) \/ BeginLogout(q, t)
      PROVE  req'[p] = req[p]
  BY <1>4 DEF Authenticate, BeginLogout, Accept, Idle, TypeInv, ReqsOK, Holding
<1>5. ASSUME NEW q \in Requests, NEW u \in Users, NEW right \in BOOLEAN, Login(q, u, right)
      PROVE  \/ req'[p] = req[p]
             \/ creds[u] # None /\ req'[p].user = u /\ req'[p].read = creds[u]
  BY <1>5 DEF Login, Accept, Compared, Idle, TypeInv, ReqsOK, Holding
<1>6. ASSUME NEW q \in Requests, NEW u \in Users, NEW right \in BOOLEAN, Login(q, u, right)
      PROVE  UNCHANGED <<creds, wrong>>
  BY <1>6 DEF Login, local
<1>7. ASSUME NEW q \in Requests, Passes(q) PROVE req'[p] = req[p]
  BY <1>7, FlagRead, Required DEF Passes
<1> QED
  BY <1>1, <1>2, <1>3, <1>4, <1>5, <1>6, <1>7, RequestSteps

\* A counter of an account that is no higher than the failures recorded for it
\* since it was forgiven.
Earned(u, c) == c.failed <= wrong[u] \/ wrong[u] = MaxFailed

EarnedInv ==
  /\ \A u \in Users : creds[u] # None => Earned(u, creds[u])
  /\ \A q \in Requests : req[q].pc = "record" => Earned(req[q].user, req[q].read)

LEMMA EarnedInvNext == TypeInv /\ EarnedInv /\ [Next]_vars => EarnedInv'
<1> SUFFICES ASSUME TypeInv, EarnedInv, [Next]_vars PROVE EarnedInv'
  OBVIOUS
<1>1. \A q \in Requests : req[q].pc \in Holding =>
        /\ req[q].user \in Users /\ req[q].read \in Credentials
        /\ req[q].read.failed \in Nat
  BY LocalLoginAssumption DEF TypeInv, ReqsOK, ReqOK, Holding, Credentials
<1>2. \A u \in Users : wrong[u] \in 0..MaxFailed /\ (creds[u] # None => creds[u].failed \in Nat)
  BY LocalLoginAssumption DEF TypeInv, LocalTypeOK, Credentials
<1>3. CASE UNCHANGED <<creds, wrong>>
  BY <1>3, Readers DEF EarnedInv, Earned, Holding
<1>4. ASSUME NEW q \in Requests, RecordFailedAttempt(q) PROVE EarnedInv'
  <2> DEFINE u == req[q].user
             c == Attempts(req[q].read)
  <2>1. req[q].pc = "record" /\ req[q].pc \in Holding
    BY <1>4 DEF RecordFailedAttempt, Holding
  <2>2. u \in Users /\ req[q].read.failed \in Nat /\ Earned(u, req[q].read)
    BY <1>1, <2>1 DEF EarnedInv
  <2>3. c.failed = req[q].read.failed + 1
    BY DEF Attempts, Credential
  <2> HIDE DEF c
  <2>4. /\ creds' = [creds EXCEPT ![u] = c]
        /\ wrong' = [wrong EXCEPT ![u] = IF @ < MaxFailed THEN @ + 1 ELSE @]
    BY <1>4 DEF RecordFailedAttempt, c
  <2>5. \A v \in Users : wrong'[v] \in Nat /\ (wrong'[v] = MaxFailed \/ wrong[v] <= wrong'[v])
    BY <1>2, <2>2, <2>4, LocalLoginAssumption DEF TypeInv, LocalTypeOK
  <2>6. c.failed <= wrong'[u] \/ wrong'[u] = MaxFailed
    BY <1>2, <2>2, <2>3, <2>4, LocalLoginAssumption DEF Earned, TypeInv, LocalTypeOK
  <2>7. ASSUME NEW v \in Users, creds'[v] # None PROVE Earned(v, creds[v])' 
    <3>1. CASE v = u
      BY <2>2, <2>4, <2>6, <3>1 DEF Earned, TypeInv, LocalTypeOK
    <3>2. CASE v # u
      BY <1>2, <2>2, <2>4, <2>7, <3>2 DEF EarnedInv, Earned, TypeInv, LocalTypeOK
    <3> QED BY <3>1, <3>2
  <2>8. ASSUME NEW p \in Requests, req'[p].pc = "record" PROVE Earned(req[p].user, req[p].read)'
    <3>1. req'[p] = req[p] /\ req'[p].pc \in Holding
      BY <1>4, <2>8, DoneLeaves, Left DEF RecordFailedAttempt, TypeInv, Holding
    <3>2. req[p].pc = "record" /\ Earned(req[p].user, req[p].read) /\ req[p].user \in Users
          /\ req[p].read.failed \in Nat
      BY <1>1, <2>8, <3>1 DEF EarnedInv
    <3>3. \/ req[p].read.failed <= wrong'[req[p].user]
          \/ wrong'[req[p].user] = MaxFailed
      BY <1>2, <2>4, <2>5, <3>2, LocalLoginAssumption DEF Earned, TypeInv, LocalTypeOK
    <3> QED BY <3>1, <3>3 DEF Earned
  <2> QED BY <2>7, <2>8 DEF EarnedInv
<1>5. ASSUME NEW q \in Requests, ResetFailedAttempts(q) \/ SetPassword(q) PROVE EarnedInv'
  <2> PICK u : u = req[q].user
    OBVIOUS
  <2>1. u \in Users
    BY <1>5 DEF TypeInv, ReqsOK, ReqOK, ResetFailedAttempts, SetPassword
  <2>2. creds' = [creds EXCEPT ![u] = Fresh] /\ Forgive(u)
    BY <1>5 DEF ResetFailedAttempts, SetPassword
  <2>3. Fresh.failed = 0
    BY DEF Fresh, Credential
  <2>4. \A v \in Users : /\ wrong'[v] \in 0..MaxFailed
                         /\ wrong'[v] = wrong[v] \/ (v = u /\ ~Recording(u))
    BY <1>2, <2>1, <2>2, LocalLoginAssumption DEF Forgive, TypeInv, LocalTypeOK
  <2>5. \A v \in Users : creds'[v] = IF v = u THEN Fresh ELSE creds[v]
    BY <2>1, <2>2 DEF TypeInv, LocalTypeOK
  <2>6. ASSUME NEW v \in Users, creds'[v] # None PROVE Earned(v, creds[v])'
    <3>1. CASE v = u
      BY <2>3, <2>4, <2>5, <3>1, LocalLoginAssumption DEF Earned
    <3>2. CASE v # u
      BY <2>4, <2>5, <2>6, <3>2 DEF EarnedInv, Earned
    <3> QED BY <3>1, <3>2
  <2>7. Leaves(q)
    BY <1>5, DoneLeaves, ToSessionLeaves DEF ResetFailedAttempts, SetPassword, TypeInv
  <2>8. ASSUME NEW p \in Requests, req'[p].pc = "record" PROVE Earned(req[p].user, req[p].read)'
    <3>1. req'[p] = req[p]
      BY <2>7, <2>8, Left DEF TypeInv, Holding
    <3>2. req[p].user \in Users /\ Earned(req[p].user, req[p].read)
      BY <1>1, <2>8, <3>1 DEF EarnedInv, Holding
    <3>3. req[p].user = u => Recording(u)
      BY <2>8, <3>1 DEF Recording
    <3>4. wrong'[req[p].user] = wrong[req[p].user]
      BY <2>4, <3>2, <3>3
    <3> QED BY <3>1, <3>2, <3>4 DEF Earned
  <2> QED BY <2>6, <2>8 DEF EarnedInv
<1>6. ASSUME NEW u \in Users, LockRunsOut(u) PROVE EarnedInv'
  <2>1. creds[u] # None /\ creds' = [creds EXCEPT ![u].locked = "past"]
    BY <1>6 DEF LockRunsOut
  <2>2. UNCHANGED <<wrong, req>>
    BY <1>6 DEF LockRunsOut, sessions
  <2>3. creds[u] \in Credentials
    BY <2>1 DEF TypeInv, LocalTypeOK
  <2>4. creds'[u].failed = creds[u].failed
    BY <2>1, <2>3 DEF Credentials, TypeInv, LocalTypeOK
  <2>5. \A v \in Users : creds'[v] # None => Earned(v, creds[v])'
    BY <2>1, <2>2, <2>4 DEF EarnedInv, Earned, TypeInv, LocalTypeOK
  <2> QED BY <2>2, <2>5 DEF EarnedInv, Earned
<1> QED
  BY <1>3, <1>4, <1>5, <1>6, CredentialSteps

\* A lock is earned by MaxFailed failures recorded since the account was last
\* forgiven by a right password or a new one: however logins overlap, a counter
\* that is stored, or held by one that will count a failure, is never ahead of
\* those, so nothing that was forgiven comes back but through a login that had
\* read the counter before.
THEOREM LocksEarned == Spec => []LockEarned
<1>1. Init => EarnedInv
  <2>1. Fresh.failed = 0
    BY DEF Fresh, Credential
  <2> QED
    BY <2>1, LocalLoginAssumption
    DEF Init, LocalInit, SessionsInit, EarnedInv, Earned, Idle
<1>2. TypeInv /\ EarnedInv => LockEarned
  <2> SUFFICES ASSUME TypeInv, EarnedInv, NEW u \in Users, creds[u] # None,
                      creds[u].locked = "ahead"
               PROVE  wrong[u] = MaxFailed
    BY DEF LockEarned
  <2>1. creds[u].failed >= MaxFailed /\ creds[u].failed \in Nat /\ wrong[u] \in 0..MaxFailed
    BY LocalLoginAssumption DEF TypeInv, LocalTypeOK, Credentials
  <2> QED BY <2>1, LocalLoginAssumption DEF EarnedInv, Earned
<1> QED
  BY <1>1, <1>2, EarnedInvNext, TypeInvariant, PTL DEF Spec

\* What LockHolds says of one step.
Holds ==
  \A u \in Users :
    creds[u] # None /\ creds[u].locked = "ahead" /\ creds'[u].locked = "null" =>
      \E q \in Requests :
        /\ req[q].user = u
        /\ \/ req[q].pc = "set password"
           \/ req[q].pc \in {"record", "reset"} /\ req[q].read # creds[u]

\* A lock ends early only through a new password or a login that compared
\* before the lock was set: Login refuses a credential that it reads locked, so
\* whoever writes over a lock has read something else.
THEOREM LocksHold == Spec => LockHolds
<1>1. TypeInv /\ [Next]_vars => [Holds]_<<sessions, local>>
  <2> SUFFICES ASSUME TypeInv, [Next]_vars, NEW u \in Users, creds[u] # None,
                      creds[u].locked = "ahead", creds'[u].locked = "null"
               PROVE  \E q \in Requests :
                        /\ req[q].user = u
                        /\ \/ req[q].pc = "set password"
                           \/ req[q].pc \in {"record", "reset"} /\ req[q].read # creds[u]
    BY DEF Holds
  <2>1. creds \in [Users -> Credentials \cup {None}] /\ creds[u] \in Credentials
    BY DEF TypeInv, LocalTypeOK
  <2>2. CASE UNCHANGED creds
    BY <2>2
  <2>3. ASSUME NEW q \in Requests, RecordFailedAttempt(q) \/ ResetFailedAttempts(q)
        PROVE  req[q].user = u /\ req[q].pc \in {"record", "reset"} /\ req[q].read # creds[u]
    <3>1. req[q].pc \in {"record", "reset"} /\ req[q].read.locked # "ahead"
      BY <2>3 DEF TypeInv, ReqsOK, ReqOK, RecordFailedAttempt, ResetFailedAttempts
    <3>2. req[q].user = u
      BY <2>1, <2>3 DEF RecordFailedAttempt, ResetFailedAttempts
    <3> QED BY <3>1, <3>2
  <2>4. ASSUME NEW q \in Requests, SetPassword(q)
        PROVE  req[q].user = u /\ req[q].pc = "set password"
    BY <2>1, <2>4 DEF SetPassword
  <2>5. ASSUME NEW v \in Users, LockRunsOut(v) PROVE FALSE
    BY <2>1, <2>5 DEF LockRunsOut, Credentials
  <2> QED BY <2>2, <2>3, <2>4, <2>5, CredentialSteps
<1> QED
  BY <1>1, TypeInvariant, PTL DEF Spec, LockHolds, Holds

-----------------------------------------------------------------------------
(***************************************************************************)
(* Sessions.                                                               *)
(***************************************************************************)

\* What a step does to the store.
LEMMA StoreSteps ==
  ASSUME [Next]_vars
  PROVE  \/ UNCHANGED <<store, gone, revived>>
         \/ Tick
         \/ \E q \in Requests :
              Extend(q) \/ Logout(q) \/ \E t \in Tokens : CreateSession(q, t)
<1>1. CASE UNCHANGED vars
  BY <1>1 DEF vars, sessions
<1>2. CASE SessionsNext \/ Tick \/ \E q \in Requests : SessionArrives(q)
  BY <1>2
  DEF SessionsNext, SessionArrives, Authenticate, BeginLogout, SignIn, Touch, ReadFlag, Respond, Abort
<1>3. CASE LocalNext \/ \E q \in Requests : LocalArrives(q)
  BY <1>3
  DEF LocalNext, LocalArrives, Authenticate, Login, RecordFailedAttempt, ResetFailedAttempts,
      SetPassword, LockRunsOut, sessions
<1>4. CASE PasskeysNext \/ \E q \in Requests : PasskeyArrives(q)
  BY <1>4
  DEF PasskeysNext, PasskeyArrives, Authenticate, BeginPasskeyLogin, FinishPasskeyLogin,
      BeginRegistration, ConsumeRegistration, InsertPasskey, LoadPasskeys, DeletePasskey,
      ApplyLoginResult, sessions
<1>5. CASE AdministratorsNext \/ \E q \in Requests : AdministratorsArrive(q)
  BY <1>5
  DEF AdministratorsNext, AdministratorsArrive, Authenticate, RequireSystemAdmin, SetSystemAdmin,
      SetUserStatus
<1> QED
  BY <1>1, <1>2, <1>3, <1>4, <1>5, Modules

\* A request that starts to hold a session's record has found it live.
LEMMA Holders ==
  ASSUME TypeInv, [Next]_vars, NEW p \in Requests, req'[p].pc \in OnToken
  PROVE  \/ req'[p] = req[p]
         \/ /\ req[p].pc \in OnToken /\ req'[p].user = req[p].user
            /\ req'[p].token = req[p].token
            /\ req'[p].pc = "extend" => Live(req[p].token)
         \/ /\ Live(req'[p].token) /\ req'[p].user = sess[req'[p].token].user
            /\ req'[p].pc # "extend"
<1>1. CASE UNCHANGED req
  BY <1>1
<1>2. ASSUME NEW q \in Requests, Leaves(q) PROVE req'[p] = req[p]
  BY <1>2, Left DEF TypeInv
<1>3. ASSUME NEW q \in Requests, Touch(q)
      PROVE  \/ req'[p] = req[p]
             \/ /\ req[p].pc \in OnToken /\ req'[p].user = req[p].user
                /\ req'[p].token = req[p].token
                /\ req'[p].pc = "extend" => Live(req[p].token)
  <2>1. CASE p = q
    <3>1. req[q].pc \in OnToken
      BY <1>3 DEF Touch, OnToken
    <3>2. PICK pc \in {"extend", "flag"} :
            req' = [req EXCEPT ![q].pc = pc] /\ (pc = "extend" => Get(req[q].token) # {})
      BY <1>3 DEF Touch, Goto
    <3>3. /\ req'[q].user = req[q].user /\ req'[q].token = req[q].token /\ req'[q].pc = pc
      BY <3>2 DEF TypeInv, ReqsOK, ReqRows
    <3> QED BY <2>1, <3>1, <3>2, <3>3 DEF Get
  <2>2. CASE p # q
    BY <1>3, <2>2 DEF Touch, Goto, TypeInv, ReqsOK
  <2> QED BY <2>1, <2>2
<1>4. ASSUME NEW q \in Requests, NEW t \in Tokens, NEW call \in Routed,
             Authenticate(q, t, call) \/ BeginLogout(q, t)
      PROVE  \/ req'[p] = req[p]
             \/ /\ Live(req'[p].token) /\ req'[p].user = sess[req'[p].token].user
                /\ req'[p].pc # "extend"
  <2>1. req \in [Requests -> ReqRows]
    BY DEF TypeInv, ReqsOK
  <2>2. PICK r : /\ req' = [req EXCEPT ![q] = r] /\ Live(t)
                 /\ r.token = t /\ r.user = sess[t].user /\ r.pc # "extend"
    <3>1. CASE Authenticate(q, t, call)
      <4> DEFINE r == [Idle EXCEPT !.pc = "touch", !.user = sess[t].user, !.token = t, !.call = call]
      <4>1. req' = [req EXCEPT ![q] = r] /\ Live(t)
        BY <3>1 DEF Authenticate, Get, Accept
      <4>2. r.token = t /\ r.user = sess[t].user /\ r.pc # "extend"
        BY DEF Idle
      <4> HIDE DEF r
      <4> QED BY <4>1, <4>2
    <3>2. CASE BeginLogout(q, t)
      <4> DEFINE r == [Idle EXCEPT !.pc = "logout", !.user = sess[t].user, !.token = t]
      <4>1. req' = [req EXCEPT ![q] = r] /\ Live(t)
        BY <3>2 DEF BeginLogout, Get, Accept
      <4>2. r.token = t /\ r.user = sess[t].user /\ r.pc # "extend"
        BY DEF Idle
      <4> HIDE DEF r
      <4> QED BY <4>1, <4>2
    <3> QED BY <1>4, <3>1, <3>2
  <2>3. CASE p = q
    BY <2>1, <2>2, <2>3
  <2>4. CASE p # q
    BY <2>1, <2>2, <2>4
  <2> QED BY <2>3, <2>4
<1>5. ASSUME NEW q \in Requests, NEW u \in Users, NEW right \in BOOLEAN, Login(q, u, right)
      PROVE  req'[p] = req[p]
  <2>1. CASE p = q
    BY <1>5, <2>1 DEF Login, Accept, Compared, Idle, TypeInv, ReqsOK, OnToken
  <2>2. CASE p # q
    BY <1>5, <2>2 DEF Login, Accept, TypeInv, ReqsOK
  <2> QED BY <2>1, <2>2
<1>6. ASSUME NEW q \in Requests, Passes(q) PROVE req'[p] = req[p]
  BY <1>6, FlagRead, Required DEF Passes
<1> QED
  BY <1>1, <1>2, <1>3, <1>4, <1>5, <1>6, RequestSteps

\* A session becomes live again only through Extend.
LEMMA Livening ==
  ASSUME TypeInv, [Next]_vars, NEW t \in issued, ~Live(t), ~Extending(t)
  PROVE  ~Live(t)'
<1>1. t \in Tokens /\ sess \in [Tokens -> SessionRows \cup {NoSession}]
  BY DEF TypeInv, SessionsTypeOK
<1>2. CASE UNCHANGED store
  BY <1>2 DEF store, Live
<1>3. CASE Tick
  BY <1>1, <1>3 DEF Tick, Live, NoSession, SessionRows
<1>4. ASSUME NEW q \in Requests, Extend(q) PROVE ~Live(t)'
  <2>1. req[q].token # t
    BY <1>4 DEF Extend, Extending
  <2> QED BY <1>1, <1>4, <2>1 DEF Extend, Live
<1>5. ASSUME NEW q \in Requests, Logout(q) PROVE ~Live(t)'
  BY <1>1, <1>5 DEF Logout, Live, NoSession
<1>6. ASSUME NEW q \in Requests, NEW s \in Tokens, CreateSession(q, s) PROVE ~Live(t)'
  BY <1>1, <1>6 DEF CreateSession, Live
<1> QED
  BY <1>2, <1>3, <1>4, <1>5, <1>6, StoreSteps

\* Nobody is about to write back a session that is gone for good.
GoneInv == \A t \in gone : ~Live(t) /\ ~Extending(t)

\* A logout is final: once the key is deleted and no request stands between
\* Touch's read of it and its write, no request can get there, since Touch
\* writes only what it has read and a token is handed out once.
THEOREM LogoutsHold == Spec => []LogoutHolds
<1>1. Init => GoneInv
  BY DEF Init, SessionsInit, GoneInv
<1>2. TypeInv /\ GoneInv /\ [Next]_vars => GoneInv'
  <2> SUFFICES ASSUME TypeInv, GoneInv, [Next]_vars PROVE GoneInv'
    OBVIOUS
  <2>1. ASSUME NEW t \in issued, ~Live(t), ~Extending(t) PROVE ~Live(t)' /\ ~Extending(t)'
    <3>1. ASSUME NEW p \in Requests, req'[p].pc = "extend" PROVE req'[p].token # t
      BY <2>1, <3>1, Holders DEF Extending, OnToken
    <3> QED BY <2>1, <3>1, Livening DEF Extending
  <2>2. gone \subseteq issued
    BY DEF TypeInv, SessionsTypeOK
  <2>3. CASE UNCHANGED gone
    BY <2>1, <2>2, <2>3 DEF GoneInv
  <2>4. ASSUME NEW q \in Requests, Logout(q) PROVE GoneInv'
    <3> PICK t : t = req[q].token
      OBVIOUS
    <3>1. t \in issued /\ t \in Tokens
      BY <2>4 DEF TypeInv, ReqsOK, ReqOK, Logout, OnToken, SessionsTypeOK
    <3>2. ~Live(t)'
      BY <2>4, <3>1 DEF Logout, Live, NoSession, TypeInv, SessionsTypeOK
    <3>3. ~Extending(t) => ~Extending(t)'
      <4>1. ASSUME NEW p \in Requests, req'[p].pc = "extend" PROVE req'[p] = req[p]
        BY <2>4, <4>1, DoneLeaves, Left DEF Logout, TypeInv, OnToken
      <4> QED BY <4>1 DEF Extending
    <3>4. gone' = IF Extending(t) THEN gone ELSE gone \cup {t}
      BY <2>4 DEF Logout
    <3> QED BY <2>1, <2>2, <3>2, <3>3, <3>4 DEF GoneInv
  <2> QED BY <2>3, <2>4, StoreSteps DEF Tick, Extend, CreateSession
<1>3. GoneInv => LogoutHolds
  BY DEF GoneInv, LogoutHolds
<1> QED
  BY <1>1, <1>2, <1>3, TypeInvariant, PTL DEF Spec

\* Whoever holds a session's record knows whose it is.
OwnersInv ==
  /\ \A p, q \in Requests :
       req[p].pc \in OnToken /\ req[q].pc \in OnToken /\ req[p].token = req[q].token =>
         req[p].user = req[q].user
  /\ \A q \in Requests :
       req[q].pc \in OnToken /\ Live(req[q].token) => sess[req[q].token].user = req[q].user

LEMMA OwnersInvNext == TypeInv /\ OwnersInv /\ [Next]_vars => OwnersInv'
<1> SUFFICES ASSUME TypeInv, OwnersInv, [Next]_vars PROVE OwnersInv'
  OBVIOUS
<1> DEFINE Known(p) == req[p].pc \in OnToken /\ req[p].user = req'[p].user
                         /\ req[p].token = req'[p].token
           Found(p) == Live(req'[p].token) /\ req'[p].user = sess[req'[p].token].user
<1>1. ASSUME NEW p \in Requests, req'[p].pc \in OnToken PROVE Known(p) \/ Found(p)
  BY <1>1, Holders
<1>2. ASSUME NEW p \in Requests, NEW q \in Requests, req'[p].pc \in OnToken,
             req'[q].pc \in OnToken, req'[p].token = req'[q].token
      PROVE  req'[p].user = req'[q].user
  BY <1>1, <1>2 DEF OwnersInv
<1>3. ASSUME NEW q \in Requests, req'[q].pc \in OnToken, Live(req[q].token)'
      PROVE  sess'[req'[q].token].user = req'[q].user
  <2>1. PICK t : t = req'[q].token
    OBVIOUS
  <2>2. t \in issued' /\ t \in Tokens /\ sess \in [Tokens -> SessionRows \cup {NoSession}]
    <3>1. TypeInv'
      BY TypeInvNext
    <3> QED BY <1>3, <2>1, <3>1 DEF TypeInv, ReqsOK, ReqOK, SessionsTypeOK
  <2>3. Known(q) \/ Found(q)
    BY <1>1, <1>3
  <2>4. Live(t) => sess[t].user = req'[q].user
    BY <2>1, <2>3 DEF OwnersInv
  <2>5. sess'[t].left > 0
    BY <1>3, <2>1 DEF Live
  <2>6. CASE UNCHANGED store
    BY <2>1, <2>4, <2>5, <2>6 DEF store, Live
  <2>7. CASE Tick
    <3>1. sess'[t] = [sess[t] EXCEPT !.left = @ - 1] /\ ~(sess[t].left <= 1)
      BY <2>2, <2>5, <2>7 DEF Tick, NoSession
    <3>2. sess[t] \in SessionRows
      BY <2>2, <3>1 DEF NoSession
    <3>3. Live(t) /\ sess'[t].user = sess[t].user
      BY <3>1, <3>2, SessionsAssumption DEF SessionRows, Live
    <3> QED BY <2>1, <2>4, <3>3
  <2>8. ASSUME NEW p \in Requests, Extend(p) PROVE sess'[t].user = req'[q].user
    <3>1. CASE req[p].token = t
      <4>1. req[p].pc \in OnToken
        BY <2>8 DEF Extend, OnToken
      <4>2. req[p].user = req'[q].user
        BY <2>1, <2>3, <3>1, <4>1 DEF OwnersInv
      <4>3. sess' = [sess EXCEPT ![t] = [user |-> req[p].user, left |-> TTL]]
        BY <2>8, <3>1 DEF Extend
      <4> QED BY <2>2, <4>2, <4>3
    <3>2. CASE req[p].token # t
      BY <2>1, <2>2, <2>4, <2>5, <2>8, <3>2 DEF Extend, Live
    <3> QED BY <3>1, <3>2
  <2>9. ASSUME NEW p \in Requests, Logout(p) PROVE sess'[t].user = req'[q].user
    <3>1. req[p].token # t
      BY <2>2, <2>5, <2>9 DEF Logout, NoSession
    <3> QED BY <2>1, <2>2, <2>4, <2>5, <2>9, <3>1 DEF Logout, Live
  <2>10. ASSUME NEW p \in Requests, NEW s \in Tokens, CreateSession(p, s)
         PROVE  sess'[t].user = req'[q].user
    <3>1. req'[q] = req[q]
      BY <1>3, <2>10, DoneLeaves, Left DEF CreateSession, TypeInv
    <3>2. t \in issued
      BY <1>3, <2>1, <3>1 DEF TypeInv, ReqsOK, ReqOK
    <3>3. s # t
      BY <2>10, <3>2 DEF CreateSession
    <3> QED BY <2>1, <2>2, <2>4, <2>5, <2>10, <3>3 DEF CreateSession, Live
  <2> QED BY <2>1, <2>6, <2>7, <2>8, <2>9, <2>10, StoreSteps
<1> QED
  BY <1>2, <1>3 DEF OwnersInv

\* A session that is listed for u and no longer lived than the list.
Listed(t, u) == t \in index[u] /\ indexLeft[u] >= sess[t].left

LEMMA IndexNext == TypeInv /\ OwnersInv /\ IndexSuffices /\ [Next]_vars => IndexSuffices'
<1> SUFFICES ASSUME TypeInv, OwnersInv, IndexSuffices, [Next]_vars,
                    NEW t \in Tokens, sess'[t].left > 0, t \notin revived'
             PROVE  t \in index'[sess'[t].user] /\ indexLeft'[sess'[t].user] >= sess'[t].left
  BY DEF IndexSuffices, Live
<1>1. /\ sess \in [Tokens -> SessionRows \cup {NoSession}]
      /\ index \in [Users -> SUBSET issued] /\ indexLeft \in [Users -> 0..TTL]
      /\ \A u \in Users : index[u] = {} <=> indexLeft[u] = 0
  BY DEF TypeInv, SessionsTypeOK
<1>2. ASSUME Live(t)
      PROVE  /\ sess[t].user \in Users /\ sess[t].left \in 1..TTL
             /\ t \notin revived => Listed(t, sess[t].user)
  BY <1>1, <1>2 DEF SessionRows, NoSession, Live, IndexSuffices, Listed
<1>3. CASE UNCHANGED <<store, revived>>
  BY <1>2, <1>3 DEF store, Live, Listed
<1>4. CASE Tick
  <2>1. sess'[t] = [sess[t] EXCEPT !.left = @ - 1] /\ ~(sess[t].left <= 1)
    BY <1>4 DEF Tick, NoSession
  <2>2. sess[t] \in SessionRows
    BY <1>1, <2>1 DEF NoSession
  <2>3. /\ Live(t) /\ sess'[t].user = sess[t].user /\ sess'[t].left = sess[t].left - 1
    BY <2>1, <2>2, SessionsAssumption DEF SessionRows, Live
  <2>4. Listed(t, sess[t].user)
    BY <1>2, <1>4, <2>3 DEF Tick
  <2> QED
    BY <1>1, <1>2, <1>4, <2>1, <2>3, <2>4, SessionsAssumption DEF Tick, Listed
<1>5. ASSUME NEW q \in Requests, Extend(q)
      PROVE  t \in index'[sess'[t].user] /\ indexLeft'[sess'[t].user] >= sess'[t].left
  <2> DEFINE u == req[q].user
  <2>1. u \in Users /\ req[q].token \in Tokens /\ req[q].pc \in OnToken
    BY <1>5 DEF TypeInv, ReqsOK, ReqOK, Extend, OnToken, SessionsTypeOK
  <2>2. /\ sess' = [sess EXCEPT ![req[q].token] = [user |-> u, left |-> TTL]]
        /\ indexLeft' = [indexLeft EXCEPT ![u] = IF index[u] = {} THEN 0 ELSE TTL]
        /\ index' = index
    BY <1>5 DEF Extend
  <2>3. Live(t) /\ t \notin revived /\ sess'[t].user = sess[t].user /\ sess'[t].left <= TTL
    <3>1. CASE req[q].token = t
      <4>1. Live(t) /\ t \notin revived
        BY <1>5, <3>1 DEF Extend
      <4>2. sess[t].user = u
        BY <2>1, <3>1, <4>1 DEF OwnersInv
      <4> QED BY <1>1, <2>2, <3>1, <4>1, <4>2, SessionsAssumption
    <3>2. CASE req[q].token # t
      <4>1. sess'[t] = sess[t]
        BY <1>1, <2>2, <3>2
      <4>2. Live(t) /\ t \notin revived
        BY <1>5, <4>1 DEF Extend, Live
      <4> QED BY <1>2, <4>1, <4>2, SessionsAssumption
    <3> QED BY <3>1, <3>2
  <2>4. Listed(t, sess[t].user) /\ sess[t].user \in Users
    BY <1>2, <2>3
  <2>5. CASE sess[t].user = u
    BY <1>1, <1>2, <2>1, <2>2, <2>3, <2>4, <2>5, SessionsAssumption DEF Listed
  <2>6. CASE sess[t].user # u
    <3>1. sess'[t] = sess[t]
      <4>1. req[q].token # t
        BY <2>1, <2>3, <2>6 DEF OwnersInv
      <4> QED BY <1>1, <2>2, <4>1
    <3> QED BY <1>1, <2>1, <2>2, <2>3, <2>4, <2>6, <3>1 DEF Listed
  <2> QED BY <2>5, <2>6
<1>6. ASSUME NEW q \in Requests, Logout(q)
      PROVE  t \in index'[sess'[t].user] /\ indexLeft'[sess'[t].user] >= sess'[t].left
  <2> DEFINE u == req[q].user
  <2>1. u \in Users /\ req[q].token \in Tokens
    BY <1>6 DEF TypeInv, ReqsOK, ReqOK, Logout, OnToken, SessionsTypeOK
  <2>2. /\ sess' = [sess EXCEPT ![req[q].token] = NoSession]
        /\ index' = [index EXCEPT ![u] = @ \ {req[q].token}]
        /\ indexLeft' = [indexLeft EXCEPT ![u] =
             IF index[u] \subseteq {req[q].token} THEN 0 ELSE @]
        /\ revived' = revived
    BY <1>6 DEF Logout, Unlist
  <2>3. req[q].token # t
    BY <1>1, <2>2 DEF NoSession
  <2>4. sess'[t] = sess[t] /\ Live(t) /\ t \notin revived
    BY <1>1, <2>2, <2>3 DEF Live
  <2>5. Listed(t, sess[t].user) /\ sess[t].user \in Users
    BY <1>2, <2>4
  <2> QED BY <1>1, <2>1, <2>2, <2>3, <2>4, <2>5 DEF Listed
<1>7. ASSUME NEW q \in Requests, NEW s \in Tokens, CreateSession(q, s)
      PROVE  t \in index'[sess'[t].user] /\ indexLeft'[sess'[t].user] >= sess'[t].left
  <2> DEFINE u == req[q].user
  <2>1. u \in Users
    BY <1>7 DEF TypeInv, ReqsOK, ReqOK, CreateSession
  <2>2. /\ sess' = [sess EXCEPT ![s] = [user |-> u, left |-> TTL]]
        /\ index' = [index EXCEPT ![u] = @ \cup {s}]
        /\ indexLeft' = [indexLeft EXCEPT ![u] = TTL]
        /\ revived' = revived
    BY <1>7 DEF CreateSession
  <2>3. CASE s = t
    BY <1>1, <2>1, <2>2, <2>3, SessionsAssumption
  <2>4. CASE s # t
    <3>1. sess'[t] = sess[t] /\ Live(t) /\ t \notin revived
      BY <1>1, <2>2, <2>4 DEF Live
    <3>2. Listed(t, sess[t].user) /\ sess[t].user \in Users /\ sess[t].left <= TTL
      BY <1>2, <3>1, SessionsAssumption
    <3> QED BY <1>1, <2>1, <2>2, <3>1, <3>2, SessionsAssumption DEF Listed
  <2> QED BY <2>3, <2>4
<1> QED
  BY <1>3, <1>4, <1>5, <1>6, <1>7, StoreSteps

\* The index of a user lists every session of theirs that no request wrote back
\* after its key had gone, and outlives them: Create and Touch set both lives to
\* the same value, in an order that never leaves the index behind, and Delete
\* takes only its own token off the list.
THEOREM IndexAlwaysSuffices == Spec => []IndexSuffices
<1>1. Init => OwnersInv
  BY DEF Init, SessionsInit, OwnersInv, Idle, OnToken
<1>2. Init => IndexSuffices
  BY DEF Init, SessionsInit, IndexSuffices, Live, NoSession
<1> QED
  BY <1>1, <1>2, OwnersInvNext, IndexNext, TypeInvariant, PTL DEF Spec
=============================================================================
