------------------------------ MODULE Sessions ------------------------------
(***************************************************************************)
(* Sessions in Redis and the middleware in front of every authenticated    *)
(* handler: internal/auth's RedisSessionStore, requireAuth and logout.      *)
(*                                                                         *)
(* Each session is a key that expires; an index set per user, with a life  *)
(* of its own, lists the keys so that all of a user's sessions can be      *)
(* found.  Redis expires keys in steps of the clock, in which lives are    *)
(* counted.  No handler calls DeleteAllForUser, so it is not an action.    *)
(*                                                                         *)
(* A request that is let through carries the call it makes; the modules    *)
(* LocalLogin, Passkeys and Administrators say what the calls do.          *)
(***************************************************************************)
EXTENDS Naturals, FiniteSets

CONSTANTS
  Users,     \* accounts
  Tokens,    \* session tokens; each is issued once
  Requests,  \* request goroutines of cmd/api
  TTL,       \* the life of a session, in steps of the clock
  None       \* nothing

ASSUME SessionsAssumption == TTL \in Nat \ {0} /\ None \notin Users \cup Tokens

VARIABLES
  sess,      \* session:<hash>: whose it is and how long it lives
  index,     \* user_sessions:<user>
  indexLeft, \* how long that key lives
  issued,    \* the tokens handed out
  admins,    \* the accounts with is_system_admin
  req,       \* what each request is doing
  gone,      \* history: tokens logged out with nobody about to write them back
  revived    \* history: tokens whose key was written back after it was gone

store    == <<sess, index, indexLeft, issued>>
sessions == <<store, admins, req, gone, revived>>

NoSession == [user |-> None, left |-> 0]

Idle == [pc |-> "idle", user |-> None, token |-> None, isAdmin |-> FALSE, call |-> None,
         read |-> None]

SessionsInit ==
  /\ sess = [t \in Tokens |-> NoSession]
  /\ index = [u \in Users |-> {}]
  /\ indexLeft = [u \in Users |-> 0]
  /\ issued = {}
  /\ req = [q \in Requests |-> Idle]
  /\ gone = {}
  /\ revived = {}

Goto(q, pc) == req' = [req EXCEPT ![q].pc = pc]

Done(q) == req' = [req EXCEPT ![q] = Idle]

Accept(q, r) == req[q] = Idle /\ req' = [req EXCEPT ![q] = r]

Live(t) == sess[t].left > 0

\* RedisSessionStore.get.
Get(t) == IF Live(t) THEN {sess[t]} ELSE {}

-----------------------------------------------------------------------------
\* A single sign-on that succeeded: module SingleSignOn says when.
SignIn(q, u) ==
  /\ Accept(q, [Idle EXCEPT !.pc = "session", !.user = u])
  /\ UNCHANGED <<store, admins, gone, revived>>

\* RedisSessionStore.Create, at the end of every login: one transaction.
CreateSession(q, t) ==
  /\ req[q].pc = "session" /\ t \notin issued
  /\ LET u == req[q].user IN
     /\ sess' = [sess EXCEPT ![t] = [user |-> u, left |-> TTL]]
     /\ index' = [index EXCEPT ![u] = @ \cup {t}]
     /\ indexLeft' = [indexLeft EXCEPT ![u] = TTL]
  /\ issued' = issued \cup {t}
  /\ Done(q)
  /\ UNCHANGED <<admins, gone, revived>>

\* requireAuth: RedisSessionStore.Find.
Authenticate(q, t, call) ==
  /\ \E s \in Get(t) :
       Accept(q, [Idle EXCEPT !.pc = "touch", !.user = s.user, !.token = t, !.call = call])
  /\ UNCHANGED <<store, admins, gone, revived>>

\* Mutant: a session that is gone is written back like any other.
TouchReadsNothing(q) ==
  /\ req[q].pc = "touch"
  /\ Goto(q, "extend")
  /\ UNCHANGED <<store, admins, gone, revived>>

\* Touch reads the record again.  requireAuth goes on when Touch fails, as it
\* does when the record is gone.
Touch(q) ==
  /\ req[q].pc = "touch"
  /\ \/ Get(req[q].token) # {} /\ Goto(q, "extend")
     \/ Goto(q, "flag")
  /\ UNCHANGED <<store, admins, gone, revived>>

\* Mutant: only the session's own key is extended.
ExtendSessionOnly(q) ==
  /\ req[q].pc = "extend"
  /\ sess' = [sess EXCEPT ![req[q].token] = [user |-> req[q].user, left |-> TTL]]
  /\ revived' = IF Live(req[q].token) THEN revived ELSE revived \cup {req[q].token}
  /\ Goto(q, "flag")
  /\ UNCHANGED <<index, indexLeft, issued, admins, gone>>

\* Touch writes the record it read, whether the key is still there or not;
\* EXPIRE does nothing to an index that is not there.
Extend(q) ==
  /\ req[q].pc = "extend"
  /\ LET u == req[q].user
         t == req[q].token IN
     /\ sess' = [sess EXCEPT ![t] = [user |-> u, left |-> TTL]]
     /\ indexLeft' = [indexLeft EXCEPT ![u] = IF index[u] = {} THEN 0 ELSE TTL]
     /\ revived' = IF Live(t) THEN revived ELSE revived \cup {t}
  /\ Goto(q, "flag")
  /\ UNCHANGED <<index, issued, admins, gone>>

\* IsSystemAdmin: the handler runs with the flag as it is now.
ReadFlag(q) ==
  /\ req[q].pc = "flag"
  /\ req' = [req EXCEPT ![q].pc = req[q].call.op, ![q].isAdmin = (req[q].user \in admins)]
  /\ UNCHANGED <<store, admins, gone, revived>>

\* A handler that changes nothing, such as handleMe.
Respond(q) ==
  /\ req[q].pc = "me"
  /\ Done(q)
  /\ UNCHANGED <<store, admins, gone, revived>>

\* handleLogout: Delete reads the record for its user.
BeginLogout(q, t) ==
  /\ \E s \in Get(t) :
       Accept(q, [Idle EXCEPT !.pc = "logout", !.user = s.user, !.token = t])
  /\ UNCHANGED <<store, admins, gone, revived>>

\* Somebody has read the record of t and is about to write it back.
Extending(t) == \E q \in Requests : req[q].pc = "extend" /\ req[q].token = t

\* The set u is left with: Redis removes an empty one.
Unlist(u, t) ==
  /\ index' = [index EXCEPT ![u] = @ \ {t}]
  /\ indexLeft' = [indexLeft EXCEPT ![u] = IF index[u] \subseteq {t} THEN 0 ELSE @]

\* Delete's transaction.
Logout(q) ==
  /\ req[q].pc = "logout"
  /\ LET t == req[q].token IN
     /\ sess' = [sess EXCEPT ![t] = NoSession]
     /\ Unlist(req[q].user, t)
     /\ gone' = IF Extending(t) THEN gone ELSE gone \cup {t}
  /\ Done(q)
  /\ UNCHANGED <<issued, admins, revived>>

\* The clock moves on.
Tick ==
  /\ \E t \in Tokens : Live(t)
  /\ sess' = [t \in Tokens |->
       IF sess[t].left <= 1 THEN NoSession ELSE [sess[t] EXCEPT !.left = @ - 1]]
  /\ indexLeft' = [u \in Users |-> IF indexLeft[u] <= 1 THEN 0 ELSE indexLeft[u] - 1]
  /\ index' = [u \in Users |-> IF indexLeft[u] <= 1 THEN {} ELSE index[u]]
  /\ UNCHANGED <<issued, admins, req, gone, revived>>

\* A statement fails, the client goes away or the process dies.
Abort(q) ==
  /\ req[q] # Idle
  /\ Done(q)
  /\ UNCHANGED <<store, admins, gone, revived>>

SessionArrives(q) ==
  \E t \in Tokens : Authenticate(q, t, [op |-> "me"]) \/ BeginLogout(q, t)

SessionsNext ==
  \E q \in Requests :
    \/ \E u \in Users : SignIn(q, u)
    \/ \E t \in Tokens : CreateSession(q, t)
    \/ Touch(q) \/ Extend(q) \/ ReadFlag(q) \/ Respond(q) \/ Logout(q) \/ Abort(q)

-----------------------------------------------------------------------------
(* Properties.                                                             *)

SessionRows == [user : Users, left : 1..TTL]

SessionsTypeOK ==
  /\ sess \in [Tokens -> SessionRows \cup {NoSession}]
  /\ index \in [Users -> SUBSET issued]
  /\ indexLeft \in [Users -> 0..TTL]
  /\ \A u \in Users : index[u] = {} <=> indexLeft[u] = 0
  /\ issued \subseteq Tokens
  /\ \A t \in Tokens : Live(t) => t \in issued
  /\ admins \subseteq Users
  /\ gone \cup revived \subseteq issued

\* The index is enough to find every session of a user, and outlives them:
\* what DeleteAllForUser relies on.  The one exception is a session that a
\* request wrote back after its key had gone.
IndexSuffices ==
  \A t \in Tokens : Live(t) /\ t \notin revived =>
    t \in index[sess[t].user] /\ indexLeft[sess[t].user] >= sess[t].left

\* A logout is final, unless a request had read the session before it and was
\* about to extend it.
LogoutHolds == \A t \in gone : ~Live(t)
=============================================================================
