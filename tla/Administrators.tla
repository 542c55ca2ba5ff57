--------------------------- MODULE Administrators ---------------------------
(***************************************************************************)
(* System administrators and the status of accounts: handlePatchUser of    *)
(* cmd/api and the statements it makes.  The handler acts for the subject  *)
(* that requireAuth resolved, whatever has become of it since.  No code in *)
(* this repository refuses a suspended account, so a status has no effect  *)
(* beyond being stored.                                                    *)
(***************************************************************************)
EXTENDS Sessions

VARIABLES
  suspended,  \* the accounts with that status
  crossed     \* history: an administrator was demoted while a request of theirs
              \* had the flag already and was yet to change somebody's

administration == <<suspended, crossed>>

\* A deployment starts with an administrator.
AdministratorsInit ==
  /\ admins \in (SUBSET Users) \ {{}}
  /\ suspended = {}
  /\ crossed = FALSE

Keep == "keep"

Patch(whom, admin, status) ==
  [op |-> "patch user", whom |-> whom, admin |-> admin, status |-> status]

\* One that asks for nothing changes nothing.
Patches ==
  {Patch(u, a, s) : u \in Users, a \in {"grant", "revoke", Keep}, s \in {"active", "suspended", Keep}}
    \ {Patch(u, Keep, Keep) : u \in Users}

-----------------------------------------------------------------------------
\* Mutant: the route is not behind requireSystemAdmin.
RequireNobody(q) ==
  /\ req[q].pc = "patch user"
  /\ Goto(q, IF req[q].call.admin = Keep THEN "set status" ELSE "set admin")
  /\ UNCHANGED <<store, admins, gone, revived, administration>>

\* requireSystemAdmin, and FindAdminUserByID of the target.
RequireSystemAdmin(q) ==
  /\ req[q].pc = "patch user" /\ req[q].isAdmin
  /\ Goto(q, IF req[q].call.admin = Keep THEN "set status" ELSE "set admin")
  /\ UNCHANGED <<store, admins, gone, revived, administration>>

\* "cannot revoke your own system_admin status".
MayDemote(q) == req[q].call.whom # req[q].user \/ req[q].call.admin = "grant"

\* "cannot suspend your own account".
MaySuspend(q) == req[q].call.whom # req[q].user \/ req[q].call.status # "suspended"

\* Another request than q acts for u, who was an administrator when requireAuth
\* read the flag.
Acting(q, u) ==
  \E p \in Requests \ {q} :
    req[p].pc \in {"patch user", "set admin"} /\ req[p].isAdmin /\ req[p].user = u

SetSystemAdmin(q) ==
  /\ req[q].pc = "set admin" /\ MayDemote(q)
  /\ admins' = IF req[q].call.admin = "grant" THEN admins \cup {req[q].call.whom}
               ELSE admins \ {req[q].call.whom}
  /\ crossed' = (crossed \/ (req[q].call.admin # "grant" /\ Acting(q, req[q].call.whom)))
  /\ IF req[q].call.status = Keep THEN Done(q) ELSE Goto(q, "set status")
  /\ UNCHANGED <<store, gone, revived, suspended>>

SetUserStatus(q) ==
  /\ req[q].pc = "set status" /\ req[q].call.status # Keep /\ MaySuspend(q)
  /\ suspended' = IF req[q].call.status = "suspended" THEN suspended \cup {req[q].call.whom}
                  ELSE suspended \ {req[q].call.whom}
  /\ Done(q)
  /\ UNCHANGED <<store, admins, gone, revived, crossed>>

AdministratorsArrive(q) ==
  \E t \in Tokens, p \in Patches : Authenticate(q, t, p) /\ UNCHANGED administration

AdministratorsNext ==
  \E q \in Requests : RequireSystemAdmin(q) \/ SetSystemAdmin(q) \/ SetUserStatus(q)

-----------------------------------------------------------------------------
(* Properties.                                                             *)

AdministratorsTypeOK == suspended \subseteq Users /\ crossed \in BOOLEAN

\* handlePatchUser's comment: the refusal to act on one's own account keeps
\* somebody who can administer the system.  It does in every run, sequential or
\* not, in which no administrator is demoted between requireAuth's reading of
\* their flag and their own change: the flag of each request is what the last
\* change made it, so whoever demotes is one of those who stay.  Two who demote
\* each other at once are that exception, and leave nobody.  A suspended
\* administrator is still one.
SomebodyIsLeft == ~crossed => admins # {}
=============================================================================
