------------------------- MODULE AccountAccessTypes --------------------------
(***************************************************************************)
(* The types of AccountAccess, proved for any accounts, tokens, requests,  *)
(* passkeys and ceremonies, and any mix of routes.                         *)
(*                                                                         *)
(* TypeInv says what a request holds at each of its steps;                 *)
(* AccountAccessProofs builds on it.                                       *)
(***************************************************************************)
EXTENDS AccountAccess, TLAPS

-----------------------------------------------------------------------------
(***************************************************************************)
(* Types.                                                                  *)
(***************************************************************************)

\* The calls that requireAuth lets through.
Routed == {[op |-> op] : op \in {"me", "set password"} \cup PasskeyCalls} \cup Patches

Carrying    == {"touch", "extend", "flag"}
OnToken     == {"touch", "extend", "logout"}
Patching    == {"patch user", "set admin", "set status"}
Remembering == {"record", "reset", "verify"}

ReqRows ==
  [pc : Steps, user : Users \cup {None}, token : Tokens \cup {None}, isAdmin : BOOLEAN,
   call : Calls \cup {None}, read : Credentials \cup Nat \cup {None}]

\* What a request r holds, when the tokens T have been issued.
ReqOK(r, T) ==
  /\ r \in ReqRows
  /\ r.token \in T \cup {None}
  /\ r.pc \notin {"idle", "assertion"} => r.user \in Users
  /\ r.pc \in OnToken => r.token \in T
  /\ r.pc \in Carrying => r.call \in Routed
  /\ r.pc \in Patching => r.call \in Patches
  /\ r.pc = "verify" => r.call \in [op : {"passkey"}, key : Keys] /\ r.read \in 0..MaxSignCount
  /\ r.pc \in {"record", "reset"} => r.read \in Credentials /\ r.read.locked # "ahead"
  /\ r.pc = "record" => r.read.failed < MaxCount
  /\ r.pc \notin Remembering => r.read = None

ReqsOK ==
  /\ req \in [Requests -> ReqRows]
  /\ \A q \in Requests : ReqOK(req[q], issued)

TypeInv ==
  /\ SessionsTypeOK /\ LocalTypeOK /\ PasskeysTypeOK /\ AdministratorsTypeOK
  /\ ReqsOK

LEMMA TypeInvImplies == TypeInv => TypeOK
<1> SUFFICES ASSUME TypeInv PROVE RequestsTypeOK
  BY DEF TypeInv, TypeOK
<1> SUFFICES ASSUME NEW q \in Requests
             PROVE  /\ req[q].pc \in Steps
                    /\ req[q].user \in Users \cup {None} /\ req[q].token \in issued \cup {None}
                    /\ req[q].isAdmin \in BOOLEAN
                    /\ req[q].call \in Calls \cup {None}
                    /\ req[q].pc \in {"record", "reset"} => req[q].read \in Credentials
                    /\ req[q].pc = "verify" => req[q].read \in 0..MaxSignCount
                    /\ req[q].pc \notin Remembering => req[q].read = None
  BY DEF RequestsTypeOK, Remembering
<1> QED
  BY DEF TypeInv, ReqsOK, ReqOK, ReqRows

\* One request changes and no token is taken back.
LEMMA ReqsKeep ==
  ASSUME ReqsOK, NEW q \in Requests, NEW r, req' = [req EXCEPT ![q] = r],
         issued \subseteq issued', ReqOK(r, issued')
  PROVE  ReqsOK'
<1>1. r \in ReqRows
  BY DEF ReqOK
<1>2. req' \in [Requests -> ReqRows]
  BY <1>1 DEF ReqsOK
<1>3. ASSUME NEW p \in Requests PROVE ReqOK(req'[p], issued')
  <2>1. CASE p = q
    BY <2>1 DEF ReqsOK
  <2>2. CASE p # q
    <3>1. req'[p] = req[p]
      BY <2>2 DEF ReqsOK
    <3> QED BY <3>1 DEF ReqsOK, ReqOK
  <2> QED BY <2>1, <2>2
<1> QED
  BY <1>2, <1>3 DEF ReqsOK

\* A request that is over.
LEMMA IdleOK == ASSUME NEW T PROVE ReqOK(Idle, T)
  BY DEF ReqOK, ReqRows, Idle, Steps, OnToken, Carrying, Patching, Remembering

LEMMA DoneKeeps ==
  ASSUME ReqsOK, NEW q \in Requests, Done(q), issued \subseteq issued'
  PROVE  ReqsOK'
  BY IdleOK, ReqsKeep DEF Done

\* A request that arrives behind requireAuth.
LEMMA ArrivalOK ==
  ASSUME NEW T, NEW t \in T, t \in Tokens, NEW u \in Users, NEW call \in Routed
  PROVE  ReqOK([Idle EXCEPT !.pc = "touch", !.user = u, !.token = t, !.call = call], T)
<1>1. call \in Calls
  BY DEF Routed, Calls
<1> QED
  BY <1>1 DEF ReqOK, ReqRows, Idle, Steps, OnToken, Carrying, Patching, Remembering


\* A request that goes on: what it holds fits its next step.
LEMMA GotoKeeps ==
  ASSUME ReqsOK, NEW q \in Requests, NEW pc, Goto(q, pc), UNCHANGED issued,
         pc \in Steps, pc \notin {"idle", "assertion", "logout"} \cup Remembering,
         req[q].pc \notin {"idle", "assertion"} \cup Remembering,
         pc \in OnToken => req[q].pc \in OnToken,
         pc \in Carrying => req[q].pc \in Carrying,
         pc \in Patching => req[q].call \in Patches
  PROVE  ReqsOK'
<1> DEFINE r == [req[q] EXCEPT !.pc = pc]
<1>1. req' = [req EXCEPT ![q] = r]
  BY DEF Goto
<1>2. ReqOK(req[q], issued)
  BY DEF ReqsOK
<1>3. ReqOK(r, issued)
  BY <1>2 DEF ReqOK, ReqRows, Remembering, Carrying, Patching, OnToken
<1> QED
  BY <1>1, <1>3, ReqsKeep

-----------------------------------------------------------------------------
(***************************************************************************)
(* Types: the steps of the sessions.                                       *)
(***************************************************************************)

\* A session is not the absence of one.
LEMMA SessionRow ==
  ASSUME TypeInv, NEW u \in Users
  PROVE  [user |-> u, left |-> TTL] \in SessionRows
BY SessionsAssumption DEF SessionRows

LEMMA SignInKeeps ==
  ASSUME TypeInv, NEW q \in Requests, NEW u \in Users, SignIn(q, u)
  PROVE  SessionsTypeOK' /\ ReqsOK'
<1> DEFINE r == [Idle EXCEPT !.pc = "session", !.user = u]
<1>1. ReqOK(r, issued)
  BY DEF ReqOK, ReqRows, Idle, Steps, OnToken, Carrying, Patching, Remembering
<1>2. ReqsOK'
  BY <1>1, ReqsKeep DEF TypeInv, SignIn, Accept, store
<1> QED
  BY <1>2 DEF TypeInv, SignIn, store, SessionsTypeOK, Live

LEMMA CreateSessionKeeps ==
  ASSUME TypeInv, NEW q \in Requests, NEW t \in Tokens, CreateSession(q, t)
  PROVE  SessionsTypeOK' /\ ReqsOK'
<1> DEFINE u == req[q].user
<1>1. u \in Users
  BY DEF TypeInv, ReqsOK, ReqOK, CreateSession
<1>2. [user |-> u, left |-> TTL] \in SessionRows
  BY <1>1, SessionRow
<1>3. sess' \in [Tokens -> SessionRows \cup {NoSession}]
  BY <1>2 DEF TypeInv, SessionsTypeOK, CreateSession
<1>4. index' \in [Users -> SUBSET issued']
  BY <1>1 DEF TypeInv, SessionsTypeOK, CreateSession
<1>5. indexLeft' \in [Users -> 0..TTL]
  BY <1>1, SessionsAssumption DEF TypeInv, SessionsTypeOK, CreateSession
<1>6. \A v \in Users : index'[v] = {} <=> indexLeft'[v] = 0
  BY <1>1, SessionsAssumption DEF TypeInv, SessionsTypeOK, CreateSession
<1>7. \A s \in Tokens : Live(s)' => s \in issued'
  BY DEF TypeInv, SessionsTypeOK, CreateSession, Live
<1>8. ReqsOK'
  BY DoneKeeps DEF TypeInv, CreateSession
<1> QED
  BY <1>3, <1>4, <1>5, <1>6, <1>7, <1>8 DEF TypeInv, SessionsTypeOK, CreateSession

LEMMA AuthenticateKeeps ==
  ASSUME TypeInv, NEW q \in Requests, NEW t \in Tokens, NEW call \in Routed,
         Authenticate(q, t, call)
  PROVE  SessionsTypeOK' /\ ReqsOK'
<1>1. PICK s \in Get(t) :
        Accept(q, [Idle EXCEPT !.pc = "touch", !.user = s.user, !.token = t, !.call = call])
  BY DEF Authenticate
<1>2. Live(t) /\ s = sess[t]
  BY <1>1 DEF Get
<1>3. t \in issued /\ s.user \in Users
  BY <1>2 DEF TypeInv, SessionsTypeOK, Live, NoSession, SessionRows
<1>4. ReqsOK'
  BY <1>1, <1>3, ArrivalOK, ReqsKeep DEF TypeInv, Authenticate, Accept, store
<1> QED
  BY <1>4 DEF TypeInv, Authenticate, store, SessionsTypeOK, Live

LEMMA TouchKeeps ==
  ASSUME TypeInv, NEW q \in Requests, Touch(q)
  PROVE  SessionsTypeOK' /\ ReqsOK'
<1>1. ReqsOK'
  <2>1. ASSUME NEW pc \in {"extend", "flag"}, Goto(q, pc) PROVE ReqsOK'
    BY <2>1, GotoKeeps DEF TypeInv, Touch, store, Steps, Remembering, OnToken, Carrying, Patching
  <2> QED BY <2>1 DEF Touch
<1> QED
  BY <1>1 DEF TypeInv, Touch, store, SessionsTypeOK, Live

LEMMA ExtendKeeps ==
  ASSUME TypeInv, NEW q \in Requests, Extend(q)
  PROVE  SessionsTypeOK' /\ ReqsOK'
<1> DEFINE u == req[q].user
           t == req[q].token
<1>1. u \in Users /\ t \in issued /\ t \in Tokens
  BY DEF TypeInv, ReqsOK, ReqOK, Extend, OnToken, SessionsTypeOK
<1>2. [user |-> u, left |-> TTL] \in SessionRows
  BY <1>1, SessionRow
<1>3. sess' \in [Tokens -> SessionRows \cup {NoSession}]
  BY <1>2 DEF TypeInv, SessionsTypeOK, Extend
<1>4. indexLeft' = [indexLeft EXCEPT ![u] = IF index[u] = {} THEN 0 ELSE TTL]
  BY DEF Extend
<1>5. /\ indexLeft' \in [Users -> 0..TTL]
      /\ \A v \in Users : index'[v] = {} <=> indexLeft'[v] = 0
  BY <1>1, <1>4, SessionsAssumption DEF TypeInv, SessionsTypeOK, Extend
<1>6. \A s \in Tokens : Live(s)' => s \in issued'
  BY <1>1 DEF TypeInv, SessionsTypeOK, Extend, Live
<1>7. ReqsOK'
  BY GotoKeeps DEF TypeInv, Extend, Steps, Remembering, OnToken, Carrying, Patching
<1> QED
  BY <1>1, <1>3, <1>5, <1>6, <1>7 DEF TypeInv, SessionsTypeOK, Extend

\* A call is a step, all but the login with a passkey.
LEMMA StepOps ==
  ASSUME NEW op \in {c.op : c \in Calls}, op # "passkey" PROVE op \in Steps
<1> DEFINE ops == {c.op : c \in Calls}
<1>1. op \in ops \ {"passkey"}
  OBVIOUS
<1> HIDE DEF ops
<1>2. \A x \in ops \ {"passkey"} : x \in
        {"idle", "session", "touch", "extend", "flag", "logout", "record", "reset",
         "insert passkey", "assertion", "verify", "set admin", "set status"}
          \cup (ops \ {"passkey"})
  OBVIOUS
<1> QED BY <1>1, <1>2 DEF Steps, ops

\* What requireAuth lets through is a step of its own.
LEMMA RoutedOps ==
  ASSUME NEW call \in Routed
  PROVE  /\ call.op \in Steps
         /\ call.op \notin {"idle", "assertion", "logout", "set admin"} \cup Remembering \cup OnToken \cup Carrying
         /\ call.op \in Patching => call \in Patches
<1>1. CASE call \in Patches
  <2>1. call.op = "patch user"
    <3>1. \E u \in Users, a \in {"grant", "revoke", Keep}, s \in {"active", "suspended", Keep} :
            call = Patch(u, a, s)
      BY <1>1 DEF Patches
    <3>2. PICK u, a, s : call = Patch(u, a, s)
      BY <3>1
    <3>3. Patch(u, a, s).op = "patch user"
      BY DEF Patch
    <3> QED BY <3>2, <3>3
  <2>2. call \in Calls
    BY <1>1 DEF Calls
  <2>3. call.op \in {c.op : c \in Calls}
    BY <2>2
  <2>4. call.op \in Steps
    <3> DEFINE op == call.op
    <3>1. op \in {c.op : c \in Calls} /\ op # "passkey"
      BY <2>1, <2>3
    <3> HIDE DEF op
    <3>2. op \in Steps
      BY <3>1, StepOps
    <3> QED BY <3>2 DEF op
  <2> QED BY <1>1, <2>1, <2>4 DEF Remembering, OnToken, Carrying
<1>2. CASE call \in {[op |-> op] : op \in {"me", "set password"} \cup PasskeyCalls}
  <2>1. call \in Calls
    BY <1>2 DEF Calls
  <2>2. call.op \in {"me", "set password"} \cup PasskeyCalls
    <3>1. \E op \in {"me", "set password"} \cup PasskeyCalls : call = [op |-> op]
      BY <1>2
    <3>2. PICK op \in {"me", "set password"} \cup PasskeyCalls : call = [op |-> op]
      BY <3>1
    <3> QED BY <3>2
  <2>3. call.op # "passkey"
    BY <2>2 DEF PasskeyCalls
  <2>4. call.op \in {c.op : c \in Calls}
    BY <2>1
  <2>5. call.op \in Steps
    <3> DEFINE op == call.op
    <3>1. op \in {c.op : c \in Calls} /\ op # "passkey"
      BY <2>3, <2>4
    <3> HIDE DEF op
    <3>2. op \in Steps
      BY <3>1, StepOps
    <3> QED BY <3>2 DEF op
  <2> QED BY <2>2, <2>5 DEF PasskeyCalls, Remembering, OnToken, Carrying, Patching
<1> QED BY <1>1, <1>2 DEF Routed

LEMMA ReadFlagKeeps ==
  ASSUME TypeInv, NEW q \in Requests, ReadFlag(q)
  PROVE  SessionsTypeOK' /\ ReqsOK'
<1> DEFINE op == req[q].call.op
           r == [req[q] EXCEPT !.pc = op, !.isAdmin = (req[q].user \in admins)]
<1>1. ReqOK(req[q], issued) /\ req[q].call \in Routed
  BY DEF TypeInv, ReqsOK, ReqOK, ReadFlag, Carrying
<1>2. /\ op \in Steps /\ op \notin {"idle", "assertion", "logout"} \cup Remembering \cup OnToken \cup Carrying
      /\ op \in Patching => req[q].call \in Patches
  BY <1>1, RoutedOps
<1>3. req[q].pc = "flag"
  BY DEF ReadFlag
<1>4. r \in ReqRows
  <2> DEFINE flag == req[q].user \in admins
  <2>1. flag \in BOOLEAN
    OBVIOUS
  <2> HIDE DEF flag
  <2>2. req[q] \in ReqRows
    BY <1>1 DEF ReqOK
  <2>3. [req[q] EXCEPT !.pc = op, !.isAdmin = flag] \in ReqRows
    BY <1>2, <2>1, <2>2 DEF ReqRows
  <2> QED BY <2>3 DEF flag
<1>5. /\ r.pc = op /\ r.user = req[q].user /\ r.token = req[q].token
      /\ r.call = req[q].call /\ r.read = req[q].read
  BY <1>1 DEF ReqOK, ReqRows
<1>6. ReqOK(r, issued)
  BY <1>1, <1>2, <1>3, <1>4, <1>5 DEF ReqOK, Remembering, OnToken, Carrying
<1>7. ReqsOK'
  BY <1>6, ReqsKeep DEF TypeInv, ReadFlag, store
<1> QED
  BY <1>7 DEF TypeInv, ReadFlag, store, SessionsTypeOK, Live

LEMMA EndKeeps ==
  ASSUME TypeInv, NEW q \in Requests, Respond(q) \/ Abort(q)
  PROVE  SessionsTypeOK' /\ ReqsOK'
<1>1. ReqsOK'
  BY DoneKeeps DEF TypeInv, Respond, Abort, store
<1> QED
  BY <1>1 DEF TypeInv, Respond, Abort, store, SessionsTypeOK, Live

LEMMA BeginLogoutKeeps ==
  ASSUME TypeInv, NEW q \in Requests, NEW t \in Tokens, BeginLogout(q, t)
  PROVE  SessionsTypeOK' /\ ReqsOK'
<1>1. PICK s \in Get(t) :
        Accept(q, [Idle EXCEPT !.pc = "logout", !.user = s.user, !.token = t])
  BY DEF BeginLogout
<1>2. Live(t) /\ s = sess[t]
  BY <1>1 DEF Get
<1>3. t \in issued /\ s.user \in Users
  BY <1>2 DEF TypeInv, SessionsTypeOK, Live, NoSession, SessionRows
<1>4. ReqOK([Idle EXCEPT !.pc = "logout", !.user = s.user, !.token = t], issued)
  BY <1>3 DEF ReqOK, ReqRows, Idle, Steps, OnToken, Carrying, Patching, Remembering
<1>5. ReqsOK'
  BY <1>1, <1>4, ReqsKeep DEF TypeInv, BeginLogout, Accept, store
<1> QED
  BY <1>5 DEF TypeInv, BeginLogout, store, SessionsTypeOK, Live

LEMMA LogoutKeeps ==
  ASSUME TypeInv, NEW q \in Requests, Logout(q)
  PROVE  SessionsTypeOK' /\ ReqsOK'
<1> DEFINE u == req[q].user
           t == req[q].token
<1>1. u \in Users /\ t \in issued /\ t \in Tokens
  BY DEF TypeInv, ReqsOK, ReqOK, Logout, OnToken, SessionsTypeOK
<1>2. sess' = [sess EXCEPT ![t] = NoSession] /\ Unlist(u, t)
  BY DEF Logout
<1>3. /\ index' \in [Users -> SUBSET issued'] /\ indexLeft' \in [Users -> 0..TTL]
      /\ \A v \in Users : index'[v] = {} <=> indexLeft'[v] = 0
  BY <1>1, <1>2, SessionsAssumption DEF TypeInv, SessionsTypeOK, Logout, Unlist
<1>4. \A s \in Tokens : Live(s)' => s \in issued'
  BY <1>1, <1>2 DEF TypeInv, SessionsTypeOK, Logout, Live, NoSession
<1>5. ReqsOK'
  BY DoneKeeps DEF TypeInv, Logout
<1> QED
  BY <1>1, <1>2, <1>3, <1>4, <1>5 DEF TypeInv, SessionsTypeOK, Logout

LEMMA TickKeeps ==
  ASSUME TypeInv, Tick
  PROVE  SessionsTypeOK' /\ ReqsOK'
<1>1. ASSUME NEW t \in Tokens
      PROVE  /\ sess'[t] \in SessionRows \cup {NoSession}
             /\ Live(t)' => Live(t)
  <2>1. CASE sess[t].left <= 1
    BY <2>1 DEF Tick, Live, NoSession
  <2>2. CASE ~(sess[t].left <= 1)
    <3>1. sess[t] \in SessionRows
      BY <2>2 DEF TypeInv, SessionsTypeOK, NoSession
    <3>2. sess'[t] = [sess[t] EXCEPT !.left = @ - 1]
      BY <2>2 DEF Tick
    <3> QED BY <2>2, <3>1, <3>2, SessionsAssumption DEF SessionRows, Live
  <2> QED BY <2>1, <2>2
<1>2. sess' \in [Tokens -> SessionRows \cup {NoSession}]
  BY <1>1 DEF Tick
<1>3. /\ index' \in [Users -> SUBSET issued'] /\ indexLeft' \in [Users -> 0..TTL]
      /\ \A v \in Users : index'[v] = {} <=> indexLeft'[v] = 0
  BY SessionsAssumption DEF TypeInv, SessionsTypeOK, Tick
<1>4. ReqsOK'
  BY DEF TypeInv, ReqsOK, ReqOK, Tick
<1> QED
  BY <1>1, <1>2, <1>3, <1>4 DEF TypeInv, SessionsTypeOK, Tick

-----------------------------------------------------------------------------
(***************************************************************************)
(* Types: the steps of logins with a password.                             *)
(***************************************************************************)

\* A handler that leaves the sessions alone.
LEMMA StoreKeeps ==
  ASSUME SessionsTypeOK, UNCHANGED <<store, admins, gone, revived>>
  PROVE  SessionsTypeOK'
BY DEF store, SessionsTypeOK, Live

\* A login that was right goes on to its session.
LEMMA ToSessionKeeps ==
  ASSUME ReqsOK, NEW q \in Requests, req[q].pc \in {"reset", "verify"}, UNCHANGED issued,
         req' = [req EXCEPT ![q].pc = "session", ![q].read = None]
  PROVE  ReqsOK'
<1> DEFINE r == [req[q] EXCEPT !.pc = "session", !.read = None]
<1>1. ReqOK(req[q], issued)
  BY DEF ReqsOK
<1>2. ReqOK(r, issued)
  BY <1>1 DEF ReqOK, ReqRows, Steps, Remembering, Carrying, Patching, OnToken
<1>3. req' = [req EXCEPT ![q] = r]
  OBVIOUS
<1> QED
  BY <1>2, <1>3, ReqsKeep

LEMMA LoginKeeps ==
  ASSUME TypeInv, NEW q \in Requests, NEW u \in Users, NEW right \in BOOLEAN, Login(q, u, right)
  PROVE  SessionsTypeOK' /\ ReqsOK' /\ LocalTypeOK'
<1>1. creds[u] \in Credentials /\ creds[u].locked # "ahead" /\ creds[u].failed < MaxCount
  BY DEF TypeInv, LocalTypeOK, Login
<1>2. ReqOK([Idle EXCEPT !.pc = "session", !.user = u], issued)
  BY DEF ReqOK, ReqRows, Idle, Steps, OnToken, Carrying, Patching, Remembering
<1>3. ASSUME NEW pc \in {"record", "reset"}
      PROVE  ReqOK([Idle EXCEPT !.pc = pc, !.user = u, !.read = creds[u]], issued)
  BY <1>1, <1>3 DEF ReqOK, ReqRows, Idle, Steps, OnToken, Carrying, Patching, Remembering
<1>4. ReqOK(Compared(u, right), issued)
  BY <1>2, <1>3 DEF Compared
<1>5. ReqsOK'
  BY <1>4, ReqsKeep DEF TypeInv, Login, Accept, store
<1> QED
  BY <1>5, StoreKeeps DEF TypeInv, Login, local, LocalTypeOK

LEMMA RecordFailedAttemptKeeps ==
  ASSUME TypeInv, NEW q \in Requests, RecordFailedAttempt(q)
  PROVE  SessionsTypeOK' /\ ReqsOK' /\ LocalTypeOK'
<1> DEFINE u == req[q].user
           c == Attempts(req[q].read)
<1>1. u \in Users /\ req[q].read \in Credentials /\ req[q].read.failed < MaxCount
  BY DEF TypeInv, ReqsOK, ReqOK, RecordFailedAttempt
<1>2. c \in Credentials /\ (c.failed >= MaxFailed <=> c.locked # "null")
  BY <1>1, LocalLoginAssumption DEF Attempts, Credential, Credentials
<1> HIDE DEF c
<1>3. creds' = [creds EXCEPT ![u] = c]
  BY DEF RecordFailedAttempt, c
<1>4. wrong' \in [Users -> 0..MaxFailed]
  BY <1>1, LocalLoginAssumption DEF TypeInv, LocalTypeOK, RecordFailedAttempt
<1>5. LocalTypeOK'
  BY <1>1, <1>2, <1>3, <1>4 DEF TypeInv, LocalTypeOK
<1>6. ReqsOK'
  BY DoneKeeps DEF TypeInv, RecordFailedAttempt, store
<1> QED
  BY <1>5, <1>6, StoreKeeps DEF TypeInv, RecordFailedAttempt

\* An account without failures.
LEMMA FreshKeeps ==
  ASSUME LocalTypeOK, NEW u \in Users, creds' = [creds EXCEPT ![u] = Fresh], Forgive(u)
  PROVE  LocalTypeOK'
<1>1. Fresh \in Credentials /\ ~(Fresh.failed >= MaxFailed) /\ Fresh.locked = "null"
  BY LocalLoginAssumption DEF Fresh, Credential, Credentials
<1>2. 0 \in 0..MaxFailed
  BY LocalLoginAssumption
<1>3. wrong' \in [Users -> 0..MaxFailed]
  BY <1>2 DEF LocalTypeOK, Forgive
<1> QED
  BY <1>1, <1>3 DEF LocalTypeOK

LEMMA ResetFailedAttemptsKeeps ==
  ASSUME TypeInv, NEW q \in Requests, ResetFailedAttempts(q)
  PROVE  SessionsTypeOK' /\ ReqsOK' /\ LocalTypeOK'
<1>1. req[q].user \in Users
  BY DEF TypeInv, ReqsOK, ReqOK, ResetFailedAttempts
<1>2. LocalTypeOK'
  BY <1>1, FreshKeeps DEF TypeInv, ResetFailedAttempts
<1>3. ReqsOK'
  BY ToSessionKeeps DEF TypeInv, ResetFailedAttempts, store
<1> QED
  BY <1>2, <1>3, StoreKeeps DEF TypeInv, ResetFailedAttempts

LEMMA SetPasswordKeeps ==
  ASSUME TypeInv, NEW q \in Requests, SetPassword(q)
  PROVE  SessionsTypeOK' /\ ReqsOK' /\ LocalTypeOK'
<1>1. req[q].user \in Users
  BY DEF TypeInv, ReqsOK, ReqOK, SetPassword
<1>2. LocalTypeOK'
  BY <1>1, FreshKeeps DEF TypeInv, SetPassword
<1>3. ReqsOK'
  BY DoneKeeps DEF TypeInv, SetPassword, store
<1> QED
  BY <1>2, <1>3, StoreKeeps DEF TypeInv, SetPassword

LEMMA LockRunsOutKeeps ==
  ASSUME TypeInv, NEW u \in Users, LockRunsOut(u)
  PROVE  SessionsTypeOK' /\ ReqsOK' /\ LocalTypeOK'
<1>1. creds[u] \in Credentials /\ creds[u].locked = "ahead" /\ creds[u].failed >= MaxFailed
  BY DEF TypeInv, LocalTypeOK, LockRunsOut
<1> DEFINE c == [creds[u] EXCEPT !.locked = "past"]
<1>2. c \in Credentials /\ c.failed >= MaxFailed /\ c.locked # "null"
  BY <1>1 DEF Credentials
<1> HIDE DEF c
<1>3. creds' = [creds EXCEPT ![u] = c] /\ UNCHANGED wrong
  BY DEF LockRunsOut, c
<1>4. LocalTypeOK'
  BY <1>2, <1>3 DEF TypeInv, LocalTypeOK
<1>5. SessionsTypeOK' /\ ReqsOK'
  BY StoreKeeps DEF TypeInv, LockRunsOut, sessions, store, ReqsOK, ReqOK
<1> QED
  BY <1>4, <1>5

-----------------------------------------------------------------------------
(***************************************************************************)
(* Types: the steps of passkeys.                                           *)
(***************************************************************************)

LEMMA BeginRegistrationKeeps ==
  ASSUME TypeInv, NEW q \in Requests, NEW c \in Ceremonies, BeginRegistration(q, c)
  PROVE  SessionsTypeOK' /\ ReqsOK' /\ PasskeysTypeOK'
<1>1. req[q].user \in Users
  BY DEF TypeInv, ReqsOK, ReqOK, BeginRegistration
<1>2. PasskeysTypeOK'
  BY <1>1 DEF TypeInv, PasskeysTypeOK, BeginRegistration, StoreSession
<1>3. ReqsOK'
  BY DoneKeeps DEF TypeInv, BeginRegistration, store
<1> QED
  BY <1>2, <1>3, StoreKeeps DEF TypeInv, BeginRegistration

LEMMA ConsumeSessionKeeps ==
  ASSUME PasskeysTypeOK, NEW c \in Ceremonies, ConsumeSession(c), UNCHANGED <<passkeys, made>>
  PROVE  PasskeysTypeOK'
BY DEF PasskeysTypeOK, ConsumeSession

LEMMA ConsumeRegistrationKeeps ==
  ASSUME TypeInv, NEW q \in Requests, NEW c \in Ceremonies, ConsumeRegistration(q, c)
  PROVE  SessionsTypeOK' /\ ReqsOK' /\ PasskeysTypeOK'
<1>1. PasskeysTypeOK'
  BY ConsumeSessionKeeps DEF TypeInv, ConsumeRegistration
<1>2. CASE Done(q)
  BY <1>1, <1>2, DoneKeeps, StoreKeeps DEF TypeInv, ConsumeRegistration, store
<1>3. CASE Goto(q, "insert passkey")
  <2>1. ReqsOK'
    BY <1>3, GotoKeeps
    DEF TypeInv, ConsumeRegistration, store, Steps, Remembering, OnToken, Carrying, Patching
  <2> QED BY <1>1, <2>1, StoreKeeps DEF TypeInv, ConsumeRegistration
<1> QED
  BY <1>2, <1>3 DEF ConsumeRegistration

LEMMA InsertPasskeyKeeps ==
  ASSUME TypeInv, NEW q \in Requests, NEW k \in Keys, NEW n \in 0..MaxSignCount,
         InsertPasskey(q, k, n)
  PROVE  SessionsTypeOK' /\ ReqsOK' /\ PasskeysTypeOK'
<1>1. req[q].user \in Users
  BY DEF TypeInv, ReqsOK, ReqOK, InsertPasskey
<1>2. [user |-> req[q].user, count |-> n] \in PasskeyRows
  BY <1>1 DEF PasskeyRows
<1>3. PasskeysTypeOK'
  BY <1>2 DEF TypeInv, PasskeysTypeOK, InsertPasskey
<1>4. ReqsOK'
  BY DoneKeeps DEF TypeInv, InsertPasskey, store
<1> QED
  BY <1>3, <1>4, StoreKeeps DEF TypeInv, InsertPasskey

LEMMA BeginPasskeyLoginKeeps ==
  ASSUME TypeInv, NEW c \in Ceremonies, BeginPasskeyLogin(c)
  PROVE  SessionsTypeOK' /\ ReqsOK' /\ PasskeysTypeOK'
<1>1. PasskeysTypeOK'
  BY DEF TypeInv, PasskeysTypeOK, BeginPasskeyLogin, StoreSession
<1>2. SessionsTypeOK' /\ ReqsOK'
  BY StoreKeeps DEF TypeInv, BeginPasskeyLogin, sessions, store, ReqsOK, ReqOK
<1> QED
  BY <1>1, <1>2

LEMMA FinishPasskeyLoginKeeps ==
  ASSUME TypeInv, NEW q \in Requests, NEW c \in Ceremonies, FinishPasskeyLogin(q, c)
  PROVE  SessionsTypeOK' /\ ReqsOK' /\ PasskeysTypeOK'
<1>1. PasskeysTypeOK'
  BY ConsumeSessionKeeps DEF TypeInv, FinishPasskeyLogin
<1>2. ReqOK([Idle EXCEPT !.pc = "assertion"], issued)
  BY DEF ReqOK, ReqRows, Idle, Steps, OnToken, Carrying, Patching, Remembering
<1>3. CASE Accept(q, [Idle EXCEPT !.pc = "assertion"])
  BY <1>2, <1>3, ReqsKeep, <1>1, StoreKeeps DEF TypeInv, FinishPasskeyLogin, Accept, store
<1>4. CASE UNCHANGED req
  BY <1>1, <1>4, StoreKeeps DEF TypeInv, FinishPasskeyLogin, ReqsOK, ReqOK, store
<1> QED
  BY <1>3, <1>4 DEF FinishPasskeyLogin

LEMMA LoadPasskeysKeeps ==
  ASSUME TypeInv, NEW q \in Requests, NEW k \in Keys, LoadPasskeys(q, k)
  PROVE  SessionsTypeOK' /\ ReqsOK' /\ PasskeysTypeOK'
<1> DEFINE r == [req[q] EXCEPT !.pc = "verify", !.user = passkeys[k].user,
                               !.call = [op |-> "passkey", key |-> k], !.read = passkeys[k].count]
<1>1. passkeys[k] \in PasskeyRows
  BY DEF TypeInv, PasskeysTypeOK, LoadPasskeys
<1>2. passkeys[k].user \in Users /\ passkeys[k].count \in 0..MaxSignCount
  BY <1>1 DEF PasskeyRows
<1>3. [op |-> "passkey", key |-> k] \in [op : {"passkey"}, key : Keys]
  OBVIOUS
<1>4. [op |-> "passkey", key |-> k] \in Calls
  BY <1>3 DEF Calls
<1>5. ReqOK(req[q], issued)
  BY DEF TypeInv, ReqsOK
<1>6. passkeys[k].count \in Nat
  BY <1>2, PasskeysAssumption
<1>7. ReqOK(r, issued)
  BY <1>2, <1>3, <1>4, <1>5, <1>6
  DEF ReqOK, ReqRows, Steps, OnToken, Carrying, Patching, Remembering
<1>8. ReqsOK'
  BY <1>7, ReqsKeep DEF TypeInv, LoadPasskeys, store
<1> QED
  BY <1>8, StoreKeeps DEF TypeInv, LoadPasskeys, webauthn, PasskeysTypeOK

LEMMA ApplyLoginResultKeeps ==
  ASSUME TypeInv, NEW q \in Requests, NEW n \in 0..MaxSignCount, ApplyLoginResult(q, n)
  PROVE  SessionsTypeOK' /\ ReqsOK' /\ PasskeysTypeOK'
<1> DEFINE k == req[q].call.key
<1>1. k \in Keys
  BY DEF TypeInv, ReqsOK, ReqOK, ApplyLoginResult
<1>2. PasskeysTypeOK'
  <2>1. CASE passkeys[k] = NoPasskey
    BY <2>1 DEF TypeInv, PasskeysTypeOK, ApplyLoginResult
  <2>2. CASE passkeys[k] # NoPasskey
    <3>1. [passkeys[k] EXCEPT !.count = n] \in PasskeyRows
      BY <1>1, <2>2 DEF TypeInv, PasskeysTypeOK, PasskeyRows
    <3> QED BY <1>1, <2>2, <3>1 DEF TypeInv, PasskeysTypeOK, ApplyLoginResult
  <2> QED BY <2>1, <2>2
<1>3. ReqsOK'
  BY ToSessionKeeps DEF TypeInv, ApplyLoginResult, store
<1> QED
  BY <1>2, <1>3, StoreKeeps DEF TypeInv, ApplyLoginResult

LEMMA DeletePasskeyKeeps ==
  ASSUME TypeInv, NEW q \in Requests, NEW k \in Keys, DeletePasskey(q, k)
  PROVE  SessionsTypeOK' /\ ReqsOK' /\ PasskeysTypeOK'
<1>1. PasskeysTypeOK'
  BY DEF TypeInv, PasskeysTypeOK, DeletePasskey
<1>2. ReqsOK'
  BY DoneKeeps DEF TypeInv, DeletePasskey, store
<1> QED
  BY <1>1, <1>2, StoreKeeps DEF TypeInv, DeletePasskey

-----------------------------------------------------------------------------
(***************************************************************************)
(* Types: the steps of administrators.                                     *)
(***************************************************************************)

LEMMA Target == ASSUME NEW p \in Patches PROVE p.whom \in Users
<1>1. \E u \in Users, a \in {"grant", "revoke", Keep}, s \in {"active", "suspended", Keep} :
        p = Patch(u, a, s)
  BY DEF Patches
<1>2. PICK u \in Users, a \in {"grant", "revoke", Keep}, s \in {"active", "suspended", Keep} :
        p = Patch(u, a, s)
  BY <1>1
<1>3. Patch(u, a, s).whom = u
  BY DEF Patch
<1> QED
  BY <1>2, <1>3

LEMMA RequireSystemAdminKeeps ==
  ASSUME TypeInv, NEW q \in Requests, RequireSystemAdmin(q)
  PROVE  SessionsTypeOK' /\ ReqsOK' /\ AdministratorsTypeOK'
<1>1. req[q].call \in Patches
  BY DEF TypeInv, ReqsOK, ReqOK, RequireSystemAdmin, Patching
<1>2. ReqsOK'
  <2>1. ASSUME NEW pc \in {"set status", "set admin"}, Goto(q, pc) PROVE ReqsOK'
    BY <1>1, <2>1, GotoKeeps
    DEF TypeInv, RequireSystemAdmin, store, Steps, Remembering, OnToken, Carrying, Patching
  <2> QED BY <2>1 DEF RequireSystemAdmin
<1> QED
  BY <1>2, StoreKeeps DEF TypeInv, RequireSystemAdmin, administration, AdministratorsTypeOK

LEMMA SetSystemAdminKeeps ==
  ASSUME TypeInv, NEW q \in Requests, SetSystemAdmin(q)
  PROVE  SessionsTypeOK' /\ ReqsOK' /\ AdministratorsTypeOK'
<1>1. req[q].call \in Patches
  BY DEF TypeInv, ReqsOK, ReqOK, SetSystemAdmin, Patching
<1>2. ReqsOK'
  <2>1. CASE Done(q)
    BY <2>1, DoneKeeps DEF TypeInv, SetSystemAdmin, store
  <2>2. CASE Goto(q, "set status")
    BY <1>1, <2>2, GotoKeeps
    DEF TypeInv, SetSystemAdmin, store, Steps, Remembering, OnToken, Carrying, Patching
  <2> QED BY <2>1, <2>2 DEF SetSystemAdmin
<1>3. admins' \subseteq Users
  BY <1>1, Target DEF TypeInv, SessionsTypeOK, SetSystemAdmin
<1>4. SessionsTypeOK'
  BY <1>3 DEF TypeInv, SetSystemAdmin, store, SessionsTypeOK, Live
<1>5. crossed' \in BOOLEAN
  BY DEF TypeInv, SetSystemAdmin, AdministratorsTypeOK, Acting
<1> QED
  BY <1>2, <1>4, <1>5 DEF TypeInv, SetSystemAdmin, AdministratorsTypeOK

LEMMA SetUserStatusKeeps ==
  ASSUME TypeInv, NEW q \in Requests, SetUserStatus(q)
  PROVE  SessionsTypeOK' /\ ReqsOK' /\ AdministratorsTypeOK'
<1>1. req[q].call \in Patches
  BY DEF TypeInv, ReqsOK, ReqOK, SetUserStatus, Patching
<1>2. suspended' \subseteq Users
  BY <1>1, Target DEF TypeInv, AdministratorsTypeOK, SetUserStatus
<1>3. crossed' = crossed
  BY DEF SetUserStatus
<1>4. ReqsOK'
  BY DoneKeeps DEF TypeInv, SetUserStatus, store
<1> QED
  BY <1>2, <1>3, <1>4, StoreKeeps DEF TypeInv, SetUserStatus, AdministratorsTypeOK

-----------------------------------------------------------------------------
(***************************************************************************)
(* Type correctness.                                                       *)
(***************************************************************************)

LEMMA TypeInvInit == Init => TypeInv
<1> SUFFICES ASSUME Init PROVE TypeInv
  OBVIOUS
<1>1. SessionsTypeOK
  <2>1. admins \subseteq Users
    BY DEF Init, AdministratorsInit
  <2> QED
    BY <2>1, SessionsAssumption DEF Init, SessionsInit, SessionsTypeOK, Live, NoSession
<1>2. LocalTypeOK
  <2>1. Fresh \in Credentials /\ ~(Fresh.failed >= MaxFailed) /\ Fresh.locked = "null"
    BY LocalLoginAssumption DEF Fresh, Credential, Credentials
  <2> QED BY <2>1, LocalLoginAssumption DEF Init, LocalInit, LocalTypeOK
<1>3. PasskeysTypeOK
  BY DEF Init, PasskeysInit, PasskeysTypeOK
<1>4. AdministratorsTypeOK
  BY DEF Init, AdministratorsInit, AdministratorsTypeOK
<1>5. ReqsOK
  <2>1. Idle \in ReqRows
    BY DEF ReqRows, Idle, Steps
  <2> QED BY <2>1, IdleOK DEF Init, SessionsInit, ReqsOK
<1> QED
  BY <1>1, <1>2, <1>3, <1>4, <1>5 DEF TypeInv

\* What a step of one module leaves of the others' types.
LEMMA OthersKeep ==
  ASSUME TypeInv
  PROVE  /\ UNCHANGED local => LocalTypeOK'
         /\ UNCHANGED webauthn => PasskeysTypeOK'
         /\ UNCHANGED administration => AdministratorsTypeOK'
BY DEF TypeInv, local, LocalTypeOK, webauthn, PasskeysTypeOK, administration, AdministratorsTypeOK

\* What a request that arrives carries.
LEMMA Arriving ==
  /\ [op |-> "me"] \in Routed
  /\ [op |-> "set password"] \in Routed
  /\ \A op \in PasskeyCalls : [op |-> op] \in Routed
  /\ Patches \subseteq Routed
<1>1. ASSUME NEW op \in {"me", "set password"} \cup PasskeyCalls PROVE [op |-> op] \in Routed
  BY <1>1 DEF Routed
<1> QED
  BY <1>1 DEF Routed

LEMMA SessionsStep ==
  ASSUME TypeInv,
         SessionsNext \/ Tick \/ \E q \in Requests : SessionArrives(q)
  PROVE  SessionsTypeOK' /\ ReqsOK'
<1>1. ASSUME NEW q \in Requests, NEW t \in Tokens,
             Authenticate(q, t, [op |-> "me"]) \/ BeginLogout(q, t) \/ CreateSession(q, t)
      PROVE  SessionsTypeOK' /\ ReqsOK'
  BY <1>1, AuthenticateKeeps, Arriving, BeginLogoutKeeps, CreateSessionKeeps
<1>2. ASSUME NEW q \in Requests, NEW u \in Users, SignIn(q, u)
      PROVE  SessionsTypeOK' /\ ReqsOK'
  BY <1>2, SignInKeeps
<1>3. ASSUME NEW q \in Requests,
             Touch(q) \/ Extend(q) \/ ReadFlag(q) \/ Respond(q) \/ Logout(q) \/ Abort(q)
      PROVE  SessionsTypeOK' /\ ReqsOK'
  BY <1>3, TouchKeeps, ExtendKeeps, ReadFlagKeeps, EndKeeps, LogoutKeeps
<1> QED
  BY <1>1, <1>2, <1>3, TickKeeps DEF SessionsNext, SessionArrives

LEMMA LocalStep ==
  ASSUME TypeInv, LocalNext \/ \E q \in Requests : LocalArrives(q)
  PROVE  SessionsTypeOK' /\ ReqsOK' /\ LocalTypeOK'
<1>1. ASSUME NEW q \in Requests, NEW t \in Tokens,
             Authenticate(q, t, [op |-> "set password"]), UNCHANGED local
      PROVE  SessionsTypeOK' /\ ReqsOK' /\ LocalTypeOK'
  BY <1>1, AuthenticateKeeps, Arriving, OthersKeep
<1>2. ASSUME NEW q \in Requests,
             RecordFailedAttempt(q) \/ ResetFailedAttempts(q) \/ SetPassword(q)
      PROVE  SessionsTypeOK' /\ ReqsOK' /\ LocalTypeOK'
  BY <1>2, RecordFailedAttemptKeeps, ResetFailedAttemptsKeeps, SetPasswordKeeps
<1> QED
  BY <1>1, <1>2, LoginKeeps, LockRunsOutKeeps DEF LocalNext, LocalArrives

LEMMA PasskeysStep ==
  ASSUME TypeInv, PasskeysNext \/ \E q \in Requests : PasskeyArrives(q)
  PROVE  SessionsTypeOK' /\ ReqsOK' /\ PasskeysTypeOK'
<1>1. ASSUME NEW q \in Requests, NEW t \in Tokens, NEW op \in PasskeyCalls,
             Authenticate(q, t, [op |-> op]), UNCHANGED webauthn
      PROVE  SessionsTypeOK' /\ ReqsOK' /\ PasskeysTypeOK'
  <2>1. [op |-> op] \in Routed
    BY Arriving
  <2> QED BY <1>1, <2>1, AuthenticateKeeps, OthersKeep
<1>2. ASSUME NEW c \in Ceremonies, NEW q \in Requests,
             \/ BeginPasskeyLogin(c) \/ FinishPasskeyLogin(q, c)
             \/ BeginRegistration(q, c) \/ ConsumeRegistration(q, c)
      PROVE  SessionsTypeOK' /\ ReqsOK' /\ PasskeysTypeOK'
  BY <1>2, BeginPasskeyLoginKeeps, FinishPasskeyLoginKeeps, BeginRegistrationKeeps,
     ConsumeRegistrationKeeps
<1>3. ASSUME NEW q \in Requests, NEW k \in Keys, NEW n \in 0..MaxSignCount,
             InsertPasskey(q, k, n) \/ ApplyLoginResult(q, n)
      PROVE  SessionsTypeOK' /\ ReqsOK' /\ PasskeysTypeOK'
  BY <1>3, InsertPasskeyKeeps, ApplyLoginResultKeeps
<1>4. ASSUME NEW q \in Requests, NEW k \in Keys, LoadPasskeys(q, k) \/ DeletePasskey(q, k)
      PROVE  SessionsTypeOK' /\ ReqsOK' /\ PasskeysTypeOK'
  BY <1>4, LoadPasskeysKeeps, DeletePasskeyKeeps
<1> QED
  BY <1>1, <1>2, <1>3, <1>4, BeginPasskeyLoginKeeps, ApplyLoginResultKeeps
  DEF PasskeysNext, PasskeyArrives

LEMMA AdministratorsStep ==
  ASSUME TypeInv, AdministratorsNext \/ \E q \in Requests : AdministratorsArrive(q)
  PROVE  SessionsTypeOK' /\ ReqsOK' /\ AdministratorsTypeOK'
<1>1. ASSUME NEW q \in Requests, NEW t \in Tokens, NEW p \in Patches,
             Authenticate(q, t, p), UNCHANGED administration
      PROVE  SessionsTypeOK' /\ ReqsOK' /\ AdministratorsTypeOK'
  <2>1. p \in Routed
    BY Arriving
  <2> QED BY <1>1, <2>1, AuthenticateKeeps, OthersKeep
<1>2. ASSUME NEW q \in Requests,
             RequireSystemAdmin(q) \/ SetSystemAdmin(q) \/ SetUserStatus(q)
      PROVE  SessionsTypeOK' /\ ReqsOK' /\ AdministratorsTypeOK'
  BY <1>2, RequireSystemAdminKeeps, SetSystemAdminKeeps, SetUserStatusKeeps
<1> QED
  BY <1>1, <1>2 DEF AdministratorsNext, AdministratorsArrive

\* Every step is one of a module, and leaves the rest alone.
LEMMA Modules ==
  ASSUME Next
  PROVE  \/ /\ SessionsNext \/ Tick \/ \E q \in Requests : SessionArrives(q)
            /\ UNCHANGED <<local, webauthn, administration>>
         \/ /\ LocalNext \/ \E q \in Requests : LocalArrives(q)
            /\ UNCHANGED <<webauthn, administration>>
         \/ /\ PasskeysNext \/ \E q \in Requests : PasskeyArrives(q)
            /\ UNCHANGED <<local, administration>>
         \/ /\ AdministratorsNext \/ \E q \in Requests : AdministratorsArrive(q)
            /\ UNCHANGED <<local, webauthn>>
BY DEF Next, Arrives, others, byPassword, byPasskey, byAdmin

LEMMA TypeInvNext == TypeInv /\ [Next]_vars => TypeInv'
<1> SUFFICES ASSUME TypeInv, [Next]_vars PROVE TypeInv'
  OBVIOUS
<1>1. CASE Next
  BY <1>1, Modules, OthersKeep, SessionsStep, LocalStep, PasskeysStep, AdministratorsStep
  DEF TypeInv
<1>2. CASE UNCHANGED vars
  <2>1. SessionsTypeOK' /\ ReqsOK'
    <3>1. UNCHANGED <<store, admins, gone, revived>> /\ UNCHANGED <<req, issued>>
      BY <1>2 DEF vars, sessions, store
    <3> QED BY <3>1, StoreKeeps DEF TypeInv, ReqsOK, ReqOK
  <2> QED BY <1>2, <2>1, OthersKeep DEF TypeInv, vars
<1> QED
  BY <1>1, <1>2

THEOREM TypeInvariant == Spec => []TypeInv
BY TypeInvInit, TypeInvNext, PTL DEF Spec

\* Sessions, credentials, passkeys, ceremonies and accounts are always of the
\* shapes that their stores promise: a live session has been handed out, a
\* credential with MaxFailed failures has a lock set, a passkey that is stored
\* has been registered, and a request holds what its next step needs.
THEOREM TypeCorrect == Spec => []TypeOK
BY TypeInvariant, TypeInvImplies, PTL
=============================================================================
