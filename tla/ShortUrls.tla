----------------------------- MODULE ShortUrls -----------------------------
(***************************************************************************)
(* Short URLs and who may do what with them: the handlers of cmd/api over  *)
(* internal/shorturl, internal/permission and their stores, and the        *)
(* one-time import of cmd/migrate-yourls, all against the same tables.     *)
(*                                                                         *)
(* A handler resolves the subject's access once (resolveAccess) and acts   *)
(* on it in later statements, so every handler below is a first step that  *)
(* reads the grant and then one step per statement.  A request may end     *)
(* between two of them: a failed statement, a cancelled context or the     *)
(* death of the process.                                                   *)
(*                                                                         *)
(* One domain is modelled, so that a short URL is its short_code.  Its     *)
(* editable fields are abstracted to the user who wrote them last.  Handlers*)
(* that only read (get, list, statistics) change none of these tables.     *)
(***************************************************************************)
EXTENDS Naturals, FiniteSets

CONSTANTS
  Users,      \* accounts
  Invitees,   \* those that owners invite
  System,     \* the migration's system user
  Codes,      \* short codes
  Reserved,   \* the codes IsReservedShortCode rejects
  Rows,       \* the keywords of the YOURLS export
  ImportOwner,\* the owner of each of them: owners.csv, or the system user
  Total,      \* the cumulative clicks of an imported row
  Requests,   \* request goroutines of cmd/api
  Attempts,   \* maxRandomCodeAttempts
  None,       \* no user, no code, no role
  MaxRuns,    \* bound: starts of the migration
  MaxClicks   \* bound: clicks recorded while the model runs

ASSUME ShortUrlsAssumption ==
  /\ Invitees \subseteq Users /\ System \in Users
  /\ Reserved \cup Rows \subseteq Codes
  /\ ImportOwner \in [Rows -> Users]
  /\ None \notin Users \cup Codes \cup {"owner", "editor", "viewer"}
  /\ {Total, MaxRuns, MaxClicks} \subseteq Nat
  /\ Attempts \in Nat \ {0}

VARIABLES
  url,       \* the short_urls row of each code, or NoUrl
  grants,    \* url_permissions: each user's role on each code, or None
  daily,     \* click_stats_daily of the code for the day of the migration
  req,       \* what each request is doing
  mig,       \* the migration process
  regrant,   \* history: the codes whose owner has been granted a role anew
  entitled,  \* history: who may edit each code, or could when an edit of theirs
             \* that is still under way was accepted
  runs,      \* starts of the migration so far
  clicks     \* clicks recorded so far

tables == <<url, grants, daily>>
vars   == <<tables, req, mig, regrant, entitled, runs, clicks>>

Roles == {"owner", "editor", "viewer"}

NoUrl == [status |-> "none", by |-> None, source |-> "none", text |-> None]

Exists(c) == url[c] # NoUrl

Idle == [pc |-> "idle", user |-> None, code |-> None, whom |-> None,
         role |-> None, tries |-> 0]

\* The handler writes its response and ends.
Done(q) == req' = [req EXCEPT ![q] = Idle]

\* The migration outside a run; present are the codes a run found when it
\* started.
Off == [pc |-> "off", code |-> None, todo |-> {}, present |-> {}]

Init ==
  /\ url = [c \in Codes |-> NoUrl]
  /\ grants = [c \in Codes |-> [u \in Users |-> None]]
  /\ daily = [c \in Codes |-> 0]
  /\ req = [q \in Requests |-> Idle]
  /\ mig = Off
  /\ regrant = {}
  /\ entitled = [c \in Codes |-> {}]
  /\ runs = 0
  /\ clicks = 0

-----------------------------------------------------------------------------
(* internal/permission: Resolve, accessForRole and WouldOrphanOwnership.   *)

\* Mutant: a viewer is let through as well.
CanEditOrView(u, c) == grants[c][u] \in Roles

CanEdit(u, c) == grants[c][u] \in {"owner", "editor"}

\* CanManagePermissions and CanDelete.
IsOwner(u, c) == grants[c][u] = "owner"

Owners(c) == {u \in Users : IsOwner(u, c)}

\* Mutant: the owner count is compared with zero.
WouldOrphanAtZero(role, n) == role = "owner" /\ n = 0

WouldOrphanOwnership(role, n) == role = "owner" /\ n <= 1

-----------------------------------------------------------------------------
(* internal/shorturl: Create.                                              *)

\* Mutant: the grant is committed without the row.
InsertGrantOnly(c, u) ==
  /\ ~Exists(c)
  /\ grants' = [grants EXCEPT ![c][u] = "owner"]
  /\ UNCHANGED url

\* CreateShortURL's transaction: the row and its owner's grant.
Insert(c, u) ==
  /\ ~Exists(c)
  /\ url' = [url EXCEPT ![c] =
       [status |-> "active", by |-> u, source |-> "native", text |-> u]]
  /\ grants' = [grants EXCEPT ![c][u] = "owner"]

\* Create with a custom alias: normalizeAlias rejects the reserved ones, a
\* taken one is a conflict.
CreateAlias(u, c) ==
  /\ c \notin Reserved
  /\ Insert(c, u)
  /\ UNCHANGED <<daily, req, mig, regrant, runs, clicks>>

\* Create without an alias: ShortCodeSettings is read, then codes are tried.
BeginCreate(q, u) ==
  /\ req[q] = Idle
  /\ req' = [req EXCEPT ![q] = [Idle EXCEPT !.pc = "create", !.user = u]]
  /\ UNCHANGED <<tables, mig, regrant, runs, clicks>>

\* Mutant: only aliases are checked against the reserved codes.
TryAnyCode(q, c) ==
  /\ req[q].pc = "create"
  /\ Insert(c, req[q].user)
  /\ req' = [req EXCEPT ![q] = Idle]
  /\ UNCHANGED <<daily, mig, regrant, runs, clicks>>

\* One attempt with a random code: a reserved code and a collision both use
\* the attempt up, and Attempts of them make Create give up.
TryCode(q, c) ==
  /\ req[q].pc = "create"
  /\ \/ /\ c \notin Reserved
        /\ Insert(c, req[q].user)
        /\ Done(q)
     \/ /\ c \in Reserved \/ Exists(c)
        /\ IF req[q].tries + 1 < Attempts THEN req' = [req EXCEPT ![q].tries = @ + 1]
           ELSE Done(q)
        /\ UNCHANGED <<url, grants>>
  /\ UNCHANGED <<daily, mig, regrant, runs, clicks>>

-----------------------------------------------------------------------------
(* The handlers on one short URL.                                          *)

\* The handler goes on with what resolveAccess told it.
Accept(q, pc, u, c, whom, role) ==
  /\ req[q] = Idle
  /\ req' = [req EXCEPT ![q] =
       [Idle EXCEPT !.pc = pc, !.user = u, !.code = c, !.whom = whom, !.role = role]]
  /\ UNCHANGED <<tables, mig, regrant, runs, clicks>>

BeginEdit(q, u, c) == CanEdit(u, c) /\ Accept(q, "edit", u, c, None, None)

BeginDisable(q, u, c) == IsOwner(u, c) /\ Accept(q, "disable", u, c, None, None)

\* Mutant: any role is accepted.
BeginGrantAnyRole(q, u, c, whom) ==
  IsOwner(u, c) /\ \E role \in Roles : Accept(q, "grant", u, c, whom, role)

\* handleGrantURLPermission: only editor and viewer can be granted.
BeginGrant(q, u, c, whom) ==
  IsOwner(u, c) /\ \E role \in {"editor", "viewer"} : Accept(q, "grant", u, c, whom, role)

BeginRevoke(q, u, c, whom) == IsOwner(u, c) /\ Accept(q, "find", u, c, whom, None)

\* The request ends before its next statement takes effect.
Abort(q) ==
  /\ req[q] # Idle
  /\ Done(q)
  /\ UNCHANGED <<tables, mig, regrant, runs, clicks>>

\* Mutant: the whole row is written back, as it was active.
EditRow(q) ==
  /\ req[q].pc = "edit"
  /\ url' = [url EXCEPT ![req[q].code].text = req[q].user,
                        ![req[q].code].status = "active"]
  /\ Done(q)
  /\ UNCHANGED <<grants, daily, mig, regrant, runs, clicks>>

\* UpdateFields replaces the editable fields; it leaves status alone.
Edit(q) ==
  /\ req[q].pc = "edit"
  /\ url' = [url EXCEPT ![req[q].code].text = req[q].user]
  /\ Done(q)
  /\ UNCHANGED <<grants, daily, mig, regrant, runs, clicks>>

\* SetStatus.
Disable(q) ==
  /\ req[q].pc = "disable"
  /\ url' = [url EXCEPT ![req[q].code].status = "disabled"]
  /\ Done(q)
  /\ UNCHANGED <<grants, daily, mig, regrant, runs, clicks>>

\* The upsert of handleGrantURLPermission, whoever the invitee is.
Grant(q) ==
  LET r == req[q] IN
  /\ r.pc = "grant"
  /\ grants' = [grants EXCEPT ![r.code][r.whom] = r.role]
  /\ regrant' = IF grants[r.code][r.whom] = "owner" THEN regrant \cup {r.code} ELSE regrant
  /\ Done(q)
  /\ UNCHANGED <<url, daily, mig, runs, clicks>>

\* handleRevokeURLPermission reads the target's role ...
FindTarget(q) ==
  LET role == grants[req[q].code][req[q].whom] IN
  /\ req[q].pc = "find"
  /\ IF role = None THEN Done(q)
     ELSE req' = [req EXCEPT ![q].pc = "count", ![q].role = role]
  /\ UNCHANGED <<tables, mig, regrant, runs, clicks>>

\* ... then counts the owners and refuses to remove the last one ...
CheckOrphan(q) ==
  /\ req[q].pc = "count"
  /\ IF WouldOrphanOwnership(req[q].role, Cardinality(Owners(req[q].code))) THEN Done(q)
     ELSE req' = [req EXCEPT ![q].pc = "delete"]
  /\ UNCHANGED <<tables, mig, regrant, runs, clicks>>

\* ... and then deletes whatever grant the target has by now.
Revoke(q) ==
  /\ req[q].pc = "delete"
  /\ grants' = [grants EXCEPT ![req[q].code][req[q].whom] = None]
  /\ Done(q)
  /\ UNCHANGED <<url, daily, mig, regrant, runs, clicks>>

-----------------------------------------------------------------------------
(* cmd/migrate-yourls: runMigration, statement by statement.               *)

StartRun ==
  /\ mig.pc = "off" /\ runs < MaxRuns
  /\ runs' = runs + 1
  /\ mig' = [Off EXCEPT !.pc = "next", !.todo = Rows,
                        !.present = {c \in Codes : Exists(c)}]
  /\ UNCHANGED <<tables, req, regrant, clicks>>

NextRow == mig' = [mig EXCEPT !.pc = "next", !.code = None]

\* Mutant: an existing short_code is taken over instead of skipped.
ImportRowOver(c) ==
  /\ mig.pc = "next" /\ c \in mig.todo
  /\ url' = [url EXCEPT ![c] =
       [status |-> "active", by |-> System, source |-> "yourls", text |-> System]]
  /\ mig' = [mig EXCEPT !.todo = @ \ {c}, !.pc = "owner", !.code = c]
  /\ UNCHANGED <<grants, daily, req, regrant, runs, clicks>>

\* One row: a reserved keyword and an existing short_code are skipped;
\* InsertMigratedShortURL succeeds, fails, or its reply is lost.
ImportRow(c) ==
  /\ mig.pc = "next" /\ c \in mig.todo
  /\ \/ /\ c \notin Reserved /\ ~Exists(c)
        /\ url' = [url EXCEPT ![c] =
             [status |-> "active", by |-> System, source |-> "yourls", text |-> System]]
        /\ \/ mig' = [mig EXCEPT !.todo = @ \ {c}, !.pc = "owner", !.code = c]
           \/ mig' = [mig EXCEPT !.todo = @ \ {c}]
     \/ /\ mig' = [mig EXCEPT !.todo = @ \ {c}]
        /\ UNCHANGED url
  /\ UNCHANGED <<grants, daily, req, regrant, runs, clicks>>

\* GrantOwner is a plain INSERT; when it fails the row is given up.
GrantOwner ==
  LET owner == ImportOwner[mig.code] IN
  /\ mig.pc = "owner"
  /\ \/ /\ grants[mig.code][owner] = None
        /\ grants' = [grants EXCEPT ![mig.code][owner] = "owner"]
        /\ mig' = [mig EXCEPT !.pc = "stats"] \/ NextRow
     \/ /\ NextRow
        /\ UNCHANGED grants
  /\ UNCHANGED <<url, daily, req, regrant, runs, clicks>>

\* SetClickStatsTotal overwrites the day's count; its failure is only logged.
SetClickStatsTotal ==
  /\ mig.pc = "stats"
  /\ NextRow
  /\ \/ Total > 0 /\ daily' = [daily EXCEPT ![mig.code] = Total]
     \/ UNCHANGED daily
  /\ UNCHANGED <<url, grants, req, regrant, runs, clicks>>

\* The rows are used up, or the process dies at any place.
EndRun ==
  /\ mig.pc # "off"
  /\ mig' = Off
  /\ UNCHANGED <<tables, req, regrant, runs, clicks>>

\* The worker adds a click to the day's count (UpsertDailyCount); queued
\* clicks arrive whatever the status of the short URL is by then.
Click(c) ==
  /\ Exists(c) /\ clicks < MaxClicks
  /\ clicks' = clicks + 1
  /\ daily' = [daily EXCEPT ![c] = @ + 1]
  /\ UNCHANGED <<url, grants, req, mig, regrant, runs>>

-----------------------------------------------------------------------------
Arrive(q) ==
  \E u \in Users :
    \/ BeginCreate(q, u)
    \/ \E c \in Codes :
         \/ BeginEdit(q, u, c) \/ BeginDisable(q, u, c)
         \/ \E whom \in Invitees : BeginGrant(q, u, c, whom)
         \/ \E whom \in Users : BeginRevoke(q, u, c, whom)

Continue(q) ==
  \/ \E c \in Codes : TryCode(q, c)
  \/ Edit(q) \/ Disable(q) \/ Grant(q)
  \/ FindTarget(q) \/ CheckOrphan(q) \/ Revoke(q)
  \/ Abort(q)

Migrate ==
  \/ StartRun \/ GrantOwner \/ SetClickStatsTotal \/ EndRun
  \/ \E c \in Rows : ImportRow(c)

Act ==
  \/ \E u \in Users, c \in Codes : CreateAlias(u, c)
  \/ \E q \in Requests : Arrive(q) \/ Continue(q)
  \/ Migrate
  \/ \E c \in Codes : Click(c)

\* History: an edit is under way, and whom the table of grants lets edit.
Editing(u, c) ==
  \E q \in Requests : req[q].pc = "edit" /\ req[q].user = u /\ req[q].code = c

Editors(c) == {u \in Users : grants[c][u] \in {"owner", "editor"}}

\* Somebody whose grant is taken away or lowered stays entitled for the edits
\* that were accepted before that, and no longer.
Remember ==
  entitled' = [c \in Codes |-> Editors(c)' \cup {u \in entitled[c] : Editing(u, c)'}]

Next == Act /\ Remember

Spec == Init /\ [][Next]_vars

-----------------------------------------------------------------------------
(* Properties.                                                             *)

Places ==
  {"idle", "create", "edit", "disable", "grant", "find", "count", "delete"}

UrlRows ==
  [status : {"active", "disabled"}, by : Users, source : {"native", "yourls"}, text : Users]

Handlers ==
  [pc : Places, user : Users \cup {None}, code : Codes \cup {None},
   whom : Users \cup {None}, role : Roles \cup {None}, tries : 0..Attempts]

Positions ==
  [pc : {"off", "next", "owner", "stats"}, code : Codes \cup {None},
   todo : SUBSET Rows, present : SUBSET Codes]

\* The program's own variables, and only a code that exists has grants.
StateOK ==
  /\ url \in [Codes -> UrlRows \cup {NoUrl}]
  /\ grants \in [Codes -> [Users -> Roles \cup {None}]]
  /\ \A c \in Codes : ~Exists(c) => \A u \in Users : grants[c][u] = None
  /\ daily \in [Codes -> Nat]
  /\ req \in [Requests -> Handlers]
  /\ mig \in Positions
  /\ regrant \subseteq Codes
  /\ runs \in 0..MaxRuns
  /\ clicks \in 0..MaxClicks

\* Every variable has its type.
TypeOK == StateOK /\ entitled \in [Codes -> SUBSET Users]

\* Who a short URL belongs to: its creator, or the owner its import names.
FirstOwner(c) == IF url[c].source = "yourls" THEN ImportOwner[c] ELSE url[c].by

\* Nobody but the creator, or the owner the import names, is ever an owner:
\* co-ownership is not grantable, a code that exists is never taken over by a
\* colliding create or import, and no race of them adds a second owner.
SoleOwner == \A c \in Codes : Owners(c) \subseteq {FirstOwner(c)}

\* The codes that the reverse proxy routes elsewhere are never handed out, by
\* alias, at random or by the import.
ReservedUnused == \A c \in Reserved : ~Exists(c)

\* A short URL created through the API keeps its owner whatever revokes and
\* invitations race, except when its owner is invited to it: the statements
\* of the revoke handler cannot remove the last owner between them.
OwnerKept ==
  \A c \in Codes :
    Exists(c) /\ url[c].source = "native" /\ c \notin regrant =>
      Owners(c) = {url[c].by}

\* The fields of a short URL are overwritten only by somebody with a grant to
\* edit this one, as it is now or as it was when an edit of theirs that is still
\* under way was accepted: a grant that is revoked or lowered to viewer is good
\* for the edits accepted before that and for no later one, however the
\* statements of invitations, revokes and edits interleave.
WrittenByGrantee ==
  [][\A c \in Codes :
       Exists(c) /\ url'[c].text # url[c].text => url'[c].text \in entitled[c]]_vars

\* A disabled short URL stays disabled, also when an edit that was accepted
\* before the disable is carried out after it.
DisabledForGood ==
  [][\A c \in Codes : url[c].status = "disabled" => url'[c].status = "disabled"]_vars

\* A run of the migration leaves everything alone that was there when it
\* started, whether an earlier run or a user made it: row, grants and counts.
RerunIsSafe ==
  [][mig' # mig =>
       \A c \in mig.present :
         url'[c] = url[c] /\ grants'[c] = grants[c] /\ daily'[c] = daily[c]]_vars

\* What the comments on handleRevokeURLPermission and Store.CreateShortURL
\* say: a short URL never ends up without an owner.
HasOwner ==
  \A c \in Codes : Exists(c) /\ url[c].source = "native" => Owners(c) # {}
=============================================================================
