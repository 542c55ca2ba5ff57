-------------------------- MODULE ShortUrlsProofs --------------------------
(***************************************************************************)
(* Theorems about ShortUrls, for any users, codes, requests and rows.      *)
(*                                                                         *)
(* The invariants are proved in layers.  TypeInv says which codes and users*)
(* a handler under way can hold; on top of it come the owners, those who   *)
(* may edit, and the codes a run of the migration may touch.               *)
(***************************************************************************)
EXTENDS ShortUrls, FiniteSetTheorems, TLAPS

-----------------------------------------------------------------------------
(***************************************************************************)
(* Types.                                                                  *)
(***************************************************************************)

\* The places where a handler holds a code, and where it holds a target too.
OnCode == {"edit", "disable", "grant", "find", "count", "delete"}
OnWhom == {"grant", "find", "count", "delete"}

\* What request q holds: a handler under way was accepted on a short URL that
\* exists, and short URLs are never deleted.
HeldOK(q) ==
  /\ req[q].pc = "create" => req[q].user \in Users
  /\ req[q].pc \in OnCode =>
       req[q].user \in Users /\ req[q].code \in Codes /\ Exists(req[q].code)
  /\ req[q].pc \in OnWhom => req[q].whom \in Users
  /\ req[q].pc = "grant" => req[q].role \in {"editor", "viewer"} /\ req[q].whom \in Invitees

ReqOK == \A q \in Requests : HeldOK(q)

\* Between the statements of one row the migration holds a row it inserted.
MigOK ==
  mig.pc \in {"owner", "stats"} =>
    mig.code \in Rows /\ Exists(mig.code) /\ url[mig.code].source = "yourls"

TypeInv == StateOK /\ ReqOK /\ MigOK

\* What the statements of creates, edits and disables do to the rows: codes
\* that exist keep their creator and their source.
RowsKept ==
  \A c \in Codes :
    Exists(c) => Exists(c)' /\ url'[c].by = url[c].by /\ url'[c].source = url[c].source

\* The row that Insert or the migration writes is a row.
LEMMA NewRow ==
  ASSUME NEW u \in Users, NEW s \in {"native", "yourls"}
  PROVE  /\ [status |-> "active", by |-> u, source |-> s, text |-> u] \in UrlRows
         /\ [status |-> "active", by |-> u, source |-> s, text |-> u] # NoUrl
<1> DEFINE r == [status |-> "active", by |-> u, source |-> s, text |-> u]
<1>1. r \in UrlRows
  BY DEF UrlRows
<1>2. r.status # NoUrl.status
  BY DEF NoUrl
<1>3. r # NoUrl
  BY <1>2
<1>4. QED
  BY <1>1, <1>3

\* A row is not the absence of one.
LEMMA RowIsNotNoUrl ==
  ASSUME NEW r \in UrlRows
  PROVE  r # NoUrl
<1>1. r.status \in {"active", "disabled"}
  BY DEF UrlRows
<1>2. NoUrl.status = "none"
  BY DEF NoUrl
<1>3. QED
  BY <1>1, <1>2

\* Only a code without a row is inserted, and it gets a native row and its
\* owner's grant.
LEMMA InsertEffect ==
  ASSUME StateOK, NEW c \in Codes, NEW u \in Users, Insert(c, u)
  PROVE  /\ url' \in [Codes -> UrlRows \cup {NoUrl}]
         /\ grants' \in [Codes -> [Users -> Roles \cup {None}]]
         /\ \A d \in Codes : ~Exists(d)' => \A v \in Users : grants'[d][v] = None
         /\ RowsKept
         /\ Exists(c)'
<1> DEFINE r == [status |-> "active", by |-> u, source |-> "native", text |-> u]
<1>1. r \in UrlRows /\ r # NoUrl
  BY NewRow
<1>2. \A d \in Codes : url'[d] = IF d = c THEN r ELSE url[d]
  BY DEF StateOK, Insert
<1>3. \A d \in Codes : grants'[d] = IF d = c THEN [grants[c] EXCEPT ![u] = "owner"] ELSE grants[d]
  BY DEF StateOK, Insert
<1>4. url' \in [Codes -> UrlRows \cup {NoUrl}]
  BY <1>1 DEF StateOK, Insert
<1>5. grants' \in [Codes -> [Users -> Roles \cup {None}]]
  BY DEF StateOK, Insert, Roles
<1>6. \A d \in Codes : ~Exists(d)' => d # c /\ ~Exists(d)
  BY <1>1, <1>2 DEF Exists
<1>7. \A d \in Codes : ~Exists(d)' => \A v \in Users : grants'[d][v] = None
  BY <1>3, <1>6 DEF StateOK
<1>8. RowsKept
  BY <1>2, ~Exists(c) DEF RowsKept, Exists, Insert
<1>9. QED
  BY <1>1, <1>2, <1>4, <1>5, <1>7, <1>8 DEF Exists

\* A handler that moves on is a handler.
LEMMA HandlerUpdate ==
  ASSUME NEW h \in Handlers, NEW pc \in Places, NEW role \in Roles \cup {None},
         NEW n \in 0..Attempts
  PROVE  /\ [h EXCEPT !.pc = pc] \in Handlers
         /\ [h EXCEPT !.pc = pc, !.role = role] \in Handlers
         /\ [h EXCEPT !.tries = n] \in Handlers
<1>1. [h EXCEPT !.pc = pc] \in Handlers
  BY DEF Handlers
<1>2. [h EXCEPT !.pc = pc, !.role = role] \in Handlers
  BY DEF Handlers
<1>3. [h EXCEPT !.tries = n] \in Handlers
  BY DEF Handlers
<1>4. QED
  BY <1>1, <1>2, <1>3

\* What the statements of the migration do to its position.
LEMMA PositionUpdate ==
  ASSUME NEW m \in Positions, NEW c \in Codes
  PROVE  /\ [m EXCEPT !.pc = "next", !.code = None] \in Positions
         /\ [m EXCEPT !.pc = "stats"] \in Positions
         /\ [m EXCEPT !.todo = @ \ {c}] \in Positions
         /\ [m EXCEPT !.todo = @ \ {c}, !.pc = "owner", !.code = c] \in Positions
         /\ [m EXCEPT !.pc = "next", !.code = None].present = m.present
         /\ [m EXCEPT !.pc = "stats"].present = m.present
         /\ [m EXCEPT !.todo = @ \ {c}].present = m.present
         /\ [m EXCEPT !.todo = @ \ {c}, !.pc = "owner", !.code = c].present = m.present
<1>1. [m EXCEPT !.pc = "next", !.code = None] \in Positions
  BY DEF Positions
<1>2. [m EXCEPT !.pc = "stats"] \in Positions
  BY DEF Positions
<1>3. [m EXCEPT !.todo = @ \ {c}] \in Positions
  BY DEF Positions
<1>4. [m EXCEPT !.todo = @ \ {c}, !.pc = "owner", !.code = c] \in Positions
  BY DEF Positions
<1>5. /\ [m EXCEPT !.pc = "next", !.code = None].present = m.present
      /\ [m EXCEPT !.pc = "stats"].present = m.present
      /\ [m EXCEPT !.todo = @ \ {c}].present = m.present
      /\ [m EXCEPT !.todo = @ \ {c}, !.pc = "owner", !.code = c].present = m.present
  BY DEF Positions
<1>6. QED
  BY <1>1, <1>2, <1>3, <1>4, <1>5

\* A handler that ends leaves its slot idle and the others alone.
LEMMA DoneEffect ==
  ASSUME StateOK, NEW q \in Requests, Done(q)
  PROVE  /\ \A p \in Requests : req'[p] = IF p = q THEN Idle ELSE req[p]
         /\ req' \in [Requests -> Handlers]
<1>1. \A p \in Requests : req'[p] = IF p = q THEN Idle ELSE req[p]
  BY DEF StateOK, Done
<1>2. Idle \in Handlers
  BY ShortUrlsAssumption DEF Handlers, Idle, Places
<1>3. QED
  BY <1>1, <1>2 DEF StateOK, Done

\* Ending a handler and keeping the rows keeps what handlers hold.
LEMMA ReqFrame ==
  ASSUME TypeInv, RowsKept,
         \A p \in Requests : req'[p] = req[p] \/ req'[p] = Idle
  PROVE  ReqOK'
<1> SUFFICES ASSUME NEW p \in Requests PROVE HeldOK(p)'
  BY DEF ReqOK
<1>1. CASE req'[p] = Idle
  BY <1>1 DEF HeldOK, Idle, OnCode, OnWhom
<1>2. CASE req'[p] = req[p]
  BY <1>2 DEF TypeInv, ReqOK, HeldOK, RowsKept
<1>3. QED
  BY <1>1, <1>2

\* The migration's row stays its own while rows are kept.
LEMMA MigFrame ==
  ASSUME TypeInv, RowsKept, mig' = mig
  PROVE  MigOK'
BY ShortUrlsAssumption DEF TypeInv, MigOK, RowsKept

\* Who holds a role on a short URL holds it on one that exists.
LEMMA RoleExists ==
  ASSUME StateOK, NEW c \in Codes, NEW u \in Users, grants[c][u] # None
  PROVE  Exists(c)
BY DEF StateOK

\* A handler is accepted on a short URL that exists.
LEMMA AcceptType ==
  ASSUME TypeInv, NEW q \in Requests, NEW pc \in OnCode, NEW u \in Users,
         NEW c \in Codes, Exists(c), NEW whom \in Users \cup {None},
         NEW role \in Roles \cup {None},
         pc \in OnWhom => whom \in Users,
         pc = "grant" => role \in {"editor", "viewer"} /\ whom \in Invitees,
         Accept(q, pc, u, c, whom, role)
  PROVE  TypeInv'
<1> DEFINE r == [Idle EXCEPT !.pc = pc, !.user = u, !.code = c, !.whom = whom, !.role = role]
<1>0. /\ r.pc = pc /\ r.user = u /\ r.code = c /\ r.whom = whom /\ r.role = role
      /\ r \in Handlers
  <2>1. Idle \in Handlers
    BY ShortUrlsAssumption DEF Handlers, Idle, Places
  <2>2. pc \in Places
    BY DEF OnCode, Places
  <2>3. QED
    BY <2>1, <2>2 DEF Idle, Handlers
<1>1. \A p \in Requests : req'[p] = IF p = q THEN r ELSE req[p]
  BY DEF TypeInv, StateOK, Accept
<1> HIDE DEF r
<1>3. StateOK'
  BY <1>0, <1>1 DEF TypeInv, StateOK, Accept, tables, Exists
<1>4. ReqOK'
  <2> SUFFICES ASSUME NEW p \in Requests PROVE HeldOK(p)'
    BY DEF ReqOK
  <2>1. CASE p = q
    BY <1>0, <1>1, <2>1 DEF HeldOK, Exists, Accept, tables
  <2>2. CASE p # q
    BY <1>1, <2>2 DEF TypeInv, ReqOK, HeldOK, Exists, Accept, tables
  <2>3. QED
    BY <2>1, <2>2
<1>5. MigOK'
  BY DEF TypeInv, MigOK, Accept, tables, Exists
<1>6. QED
  BY <1>3, <1>4, <1>5 DEF TypeInv

\* Setting one field of the row of a code that exists.
LEMMA FieldEffect ==
  ASSUME StateOK, NEW c \in Codes, Exists(c), NEW r \in UrlRows,
         r.by = url[c].by, r.source = url[c].source,
         url' = [url EXCEPT ![c] = r]
  PROVE  /\ url' \in [Codes -> UrlRows \cup {NoUrl}]
         /\ \A d \in Codes : Exists(d)' <=> Exists(d)
         /\ RowsKept
<1>1. r # NoUrl
  BY RowIsNotNoUrl
<1>2. \A d \in Codes : url'[d] = IF d = c THEN r ELSE url[d]
  BY DEF StateOK
<1>3. url' \in [Codes -> UrlRows \cup {NoUrl}]
  BY DEF StateOK
<1>4. \A d \in Codes : Exists(d)' <=> Exists(d)
  BY <1>1, <1>2 DEF Exists
<1>5. QED
  BY <1>2, <1>3, <1>4 DEF RowsKept

\* Edit and Disable set one field of the request's row.
LEMMA EditEffect ==
  ASSUME TypeInv, NEW q \in Requests, Edit(q) \/ Disable(q)
  PROVE  /\ url' \in [Codes -> UrlRows \cup {NoUrl}]
         /\ \A d \in Codes : Exists(d)' <=> Exists(d)
         /\ RowsKept
         /\ Done(q)
<1> DEFINE c == req[q].code
<1>1. c \in Codes /\ Exists(c) /\ req[q].user \in Users
  BY DEF TypeInv, ReqOK, HeldOK, OnCode, Edit, Disable
<1>2. url[c] \in UrlRows
  BY <1>1 DEF TypeInv, StateOK, Exists
<1>3. CASE Edit(q)
  <2> DEFINE r == [url[c] EXCEPT !.text = req[q].user]
  <2>1. r \in UrlRows /\ r.by = url[c].by /\ r.source = url[c].source
    BY <1>1, <1>2 DEF UrlRows
  <2>2. url' = [url EXCEPT ![c] = r]
    BY <1>3 DEF Edit
  <2>3. Done(q)
    BY <1>3 DEF Edit
  <2>4. QED
    BY <1>1, <2>1, <2>2, <2>3, FieldEffect DEF TypeInv
<1>4. CASE Disable(q)
  <2> DEFINE r == [url[c] EXCEPT !.status = "disabled"]
  <2>1. r \in UrlRows /\ r.by = url[c].by /\ r.source = url[c].source
    BY <1>2 DEF UrlRows
  <2>2. url' = [url EXCEPT ![c] = r]
    BY <1>4 DEF Disable
  <2>3. Done(q)
    BY <1>4 DEF Disable
  <2>4. QED
    BY <1>1, <2>1, <2>2, <2>3, FieldEffect DEF TypeInv
<1>5. QED
  BY <1>3, <1>4

\* The creates keep the type invariant.
LEMMA CreateType ==
  ASSUME TypeInv,
         \/ \E u \in Users, c \in Codes : CreateAlias(u, c)
         \/ \E q \in Requests, u \in Users : BeginCreate(q, u)
         \/ \E q \in Requests, c \in Codes : TryCode(q, c)
  PROVE  TypeInv'
<1>1. ASSUME NEW u \in Users, NEW c \in Codes, CreateAlias(u, c) PROVE TypeInv'
  <2>1. Insert(c, u)
    BY <1>1 DEF CreateAlias
  <2>2. RowsKept /\ StateOK'
    BY <1>1, <2>1, InsertEffect DEF CreateAlias, TypeInv, StateOK
  <2>3. ReqOK' /\ MigOK'
    BY <1>1, <2>2, ReqFrame, MigFrame DEF CreateAlias
  <2>4. QED
    BY <2>2, <2>3 DEF TypeInv
<1>2. ASSUME NEW q \in Requests, NEW u \in Users, BeginCreate(q, u) PROVE TypeInv'
  <2> DEFINE r == [Idle EXCEPT !.pc = "create", !.user = u]
  <2>1. r.pc = "create" /\ r.user = u
    BY DEF Idle
  <2>2. Idle \in Handlers
    BY ShortUrlsAssumption DEF Handlers, Idle, Places
  <2>3. r \in Handlers
    BY <2>2 DEF Handlers, Places
  <2>4. \A p \in Requests : req'[p] = IF p = q THEN r ELSE req[p]
    BY <1>2 DEF TypeInv, StateOK, BeginCreate
  <2> HIDE DEF r
  <2>5. StateOK'
    BY <1>2, <2>3 DEF r, TypeInv, StateOK, BeginCreate, tables, Exists
  <2>6. HeldOK(q)'
    BY <2>1, <2>4 DEF HeldOK, OnCode, OnWhom
  <2>7. ASSUME NEW p \in Requests, p # q PROVE HeldOK(p)'
    BY <1>2, <2>4, <2>7 DEF TypeInv, ReqOK, HeldOK, Exists, BeginCreate, tables
  <2>8. ReqOK'
    BY <2>6, <2>7 DEF ReqOK
  <2>9. MigOK'
    BY <1>2 DEF TypeInv, MigOK, BeginCreate, tables, Exists
  <2>10. QED
    BY <2>5, <2>8, <2>9 DEF TypeInv
<1>3. ASSUME NEW q \in Requests, NEW c \in Codes, TryCode(q, c) PROVE TypeInv'
  <2>1. req[q].user \in Users
    BY <1>3 DEF TypeInv, ReqOK, HeldOK, TryCode
  <2>2. UNCHANGED <<daily, mig, regrant, runs, clicks>>
    BY <1>3 DEF TryCode
  <2>3. CASE Insert(c, req[q].user) /\ Done(q)
    <3>1. /\ \A p \in Requests : req'[p] = IF p = q THEN Idle ELSE req[p]
          /\ RowsKept /\ StateOK'
      BY <2>1, <2>2, <2>3, InsertEffect, DoneEffect DEF TypeInv, StateOK
    <3>2. ReqOK' /\ MigOK'
      BY <2>2, <3>1, ReqFrame, MigFrame
    <3>3. QED
      BY <3>1, <3>2 DEF TypeInv
  <2>4. CASE Done(q) /\ UNCHANGED <<url, grants>>
    <3>1. /\ \A p \in Requests : req'[p] = IF p = q THEN Idle ELSE req[p]
          /\ StateOK'
      BY <2>2, <2>4, DoneEffect DEF TypeInv, StateOK, Exists
    <3>2. RowsKept
      BY <2>4 DEF RowsKept, Exists
    <3>3. ReqOK' /\ MigOK'
      BY <2>2, <3>1, <3>2, ReqFrame, MigFrame
    <3>4. QED
      BY <3>1, <3>3 DEF TypeInv
  <2>5. CASE /\ req[q].tries + 1 < Attempts
             /\ req' = [req EXCEPT ![q].tries = @ + 1]
             /\ UNCHANGED <<url, grants>>
    <3> DEFINE r == [req[q] EXCEPT !.tries = req[q].tries + 1]
    <3>1. req[q] \in Handlers /\ req[q].tries + 1 \in 0..Attempts
      BY <2>5, ShortUrlsAssumption DEF TypeInv, StateOK, Handlers
    <3>2. r \in Handlers
      <4>1. "create" \in Places /\ None \in Roles \cup {None}
        BY DEF Places
      <4>2. QED
        BY <3>1, <4>1, HandlerUpdate
    <3>3. r.pc = "create" /\ r.user = req[q].user
      BY <1>3 DEF TypeInv, StateOK, TryCode
    <3>4. \A p \in Requests : req'[p] = IF p = q THEN r ELSE req[p]
      BY <2>5 DEF TypeInv, StateOK
    <3>5. StateOK'
      BY <2>2, <2>5, <3>2 DEF TypeInv, StateOK, Exists
    <3> HIDE DEF r
    <3>6. HeldOK(q)'
      BY <2>1, <3>3, <3>4 DEF HeldOK, OnCode, OnWhom
    <3>7. ASSUME NEW p \in Requests, p # q PROVE HeldOK(p)'
      BY <2>5, <3>4, <3>7 DEF TypeInv, ReqOK, HeldOK, Exists
    <3>8. ReqOK'
      BY <3>6, <3>7 DEF ReqOK
    <3>9. MigOK'
      BY <2>2, <2>5 DEF TypeInv, MigOK, Exists
    <3>10. QED
      BY <3>5, <3>8, <3>9 DEF TypeInv
  <2>6. QED
    BY <1>3, <2>3, <2>4, <2>5 DEF TryCode, Done
<1>4. QED
  BY <1>1, <1>2, <1>3

\* A role held by a user who may edit or owns is a role.
LEMMA RightsExist ==
  ASSUME TypeInv, NEW u \in Users, NEW c \in Codes, CanEdit(u, c) \/ IsOwner(u, c)
  PROVE  Exists(c)
BY RoleExists, ShortUrlsAssumption DEF TypeInv, CanEdit, IsOwner

\* The handlers' first steps keep the type invariant.
LEMMA ArriveType ==
  ASSUME TypeInv, NEW q \in Requests, Arrive(q)
  PROVE  TypeInv'
<1> PICK u \in Users :
      \/ BeginCreate(q, u)
      \/ \E c \in Codes :
           \/ BeginEdit(q, u, c) \/ BeginDisable(q, u, c)
           \/ \E whom \in Invitees : BeginGrant(q, u, c, whom)
           \/ \E whom \in Users : BeginRevoke(q, u, c, whom)
  BY DEF Arrive
<1>1. CASE BeginCreate(q, u)
  BY <1>1, CreateType
<1>2. ASSUME NEW c \in Codes, BeginEdit(q, u, c) PROVE TypeInv'
  BY <1>2, RightsExist, AcceptType DEF BeginEdit, OnCode, OnWhom
<1>3. ASSUME NEW c \in Codes, BeginDisable(q, u, c) PROVE TypeInv'
  BY <1>3, RightsExist, AcceptType DEF BeginDisable, OnCode, OnWhom
<1>4. ASSUME NEW c \in Codes, NEW whom \in Invitees, BeginGrant(q, u, c, whom) PROVE TypeInv'
  BY <1>4, RightsExist, AcceptType, ShortUrlsAssumption DEF BeginGrant, OnCode, OnWhom, Roles
<1>5. ASSUME NEW c \in Codes, NEW whom \in Users, BeginRevoke(q, u, c, whom) PROVE TypeInv'
  BY <1>5, RightsExist, AcceptType DEF BeginRevoke, OnCode, OnWhom
<1>6. QED
  BY <1>1, <1>2, <1>3, <1>4, <1>5

\* A step that leaves the rows alone keeps them.
LEMMA SameRows ==
  ASSUME url' = url
  PROVE  RowsKept /\ \A c \in Codes : Exists(c)' <=> Exists(c)
BY DEF RowsKept, Exists

\* The later statements of the handlers keep the type invariant.
LEMMA ContinueType ==
  ASSUME TypeInv, NEW q \in Requests, Continue(q)
  PROVE  TypeInv'
<1> USE DEF TypeInv
<1>1. ASSUME NEW c \in Codes, TryCode(q, c) PROVE TypeInv'
  BY <1>1, CreateType
<1>2. CASE Edit(q) \/ Disable(q)
  <2>1. UNCHANGED <<grants, daily, mig, regrant, runs, clicks>>
    BY <1>2 DEF Edit, Disable
  <2>2. StateOK'
    BY <1>2, <2>1, EditEffect, DoneEffect DEF StateOK
  <2>3. ReqOK' /\ MigOK'
    BY <1>2, <2>1, EditEffect, DoneEffect, ReqFrame, MigFrame
  <2>4. QED
    BY <2>2, <2>3
<1>3. CASE Grant(q)
  <2>1. req[q].code \in Codes /\ Exists(req[q].code) /\ req[q].whom \in Users
    BY <1>3 DEF Grant, ReqOK, HeldOK, OnCode, OnWhom
  <2>2. grants' \in [Codes -> [Users -> Roles \cup {None}]]
    BY <1>3, <2>1 DEF Grant, StateOK, ReqOK, HeldOK, Roles
  <2>3. \A c \in Codes : ~Exists(c) => grants'[c] = grants[c]
    BY <1>3, <2>1 DEF Grant, StateOK
  <2>4. RowsKept /\ \A c \in Codes : Exists(c)' <=> Exists(c)
    BY <1>3, SameRows DEF Grant
  <2>5. regrant' \subseteq Codes
    BY <1>3, <2>1 DEF Grant, StateOK
  <2>6. Done(q) /\ UNCHANGED <<url, daily, mig, runs, clicks>>
    BY <1>3 DEF Grant
  <2>7. StateOK'
    BY <2>2, <2>3, <2>4, <2>5, <2>6, DoneEffect DEF StateOK
  <2>8. ReqOK' /\ MigOK'
    BY <2>4, <2>6, DoneEffect, ReqFrame, MigFrame
  <2>9. QED
    BY <2>7, <2>8
<1>4. CASE Revoke(q)
  <2>1. req[q].code \in Codes /\ req[q].whom \in Users
    BY <1>4 DEF Revoke, ReqOK, HeldOK, OnCode, OnWhom
  <2>2. grants' \in [Codes -> [Users -> Roles \cup {None}]]
    BY <1>4, <2>1 DEF Revoke, StateOK
  <2>3. \A c \in Codes, u \in Users : grants[c][u] = None => grants'[c][u] = None
    BY <1>4, <2>1 DEF Revoke, StateOK
  <2>4. RowsKept /\ \A c \in Codes : Exists(c)' <=> Exists(c)
    BY <1>4, SameRows DEF Revoke
  <2>5. Done(q) /\ UNCHANGED <<url, daily, mig, regrant, runs, clicks>>
    BY <1>4 DEF Revoke
  <2>6. StateOK'
    BY <2>2, <2>3, <2>4, <2>5, DoneEffect DEF StateOK
  <2>7. ReqOK' /\ MigOK'
    BY <2>4, <2>5, DoneEffect, ReqFrame, MigFrame
  <2>8. QED
    BY <2>6, <2>7
<1>5. CASE Done(q) /\ UNCHANGED <<tables, mig, regrant, runs, clicks>>
  <2>1. RowsKept /\ \A c \in Codes : Exists(c)' <=> Exists(c)
    BY <1>5, SameRows DEF tables
  <2>2. StateOK'
    BY <1>5, <2>1, DoneEffect DEF StateOK, tables
  <2>3. ReqOK' /\ MigOK'
    BY <1>5, <2>1, DoneEffect, ReqFrame, MigFrame
  <2>4. QED
    BY <2>2, <2>3
<1>6. CASE /\ req[q].pc = "find"
           /\ req' = [req EXCEPT ![q].pc = "count", ![q].role = grants[req[q].code][req[q].whom]]
           /\ UNCHANGED <<tables, mig, regrant, runs, clicks>>
  <2>1. req[q].code \in Codes /\ req[q].whom \in Users
    BY <1>6 DEF ReqOK, HeldOK, OnCode, OnWhom
  <2>2. grants[req[q].code][req[q].whom] \in Roles \cup {None}
    BY <2>1 DEF StateOK
  <2> DEFINE r == [req[q] EXCEPT !.pc = "count", !.role = grants[req[q].code][req[q].whom]]
  <2>3. r \in Handlers
    <3>1. req[q] \in Handlers /\ "count" \in Places /\ req[q].tries \in 0..Attempts
      BY DEF StateOK, Places, Handlers
    <3>2. QED
      BY <2>2, <3>1, HandlerUpdate
  <2>4. req' = [req EXCEPT ![q] = r]
    BY <1>6
  <2>5. StateOK'
    BY <1>6, <2>3, <2>4 DEF StateOK, tables, Exists
  <2>6. /\ req'[q].pc = "count" /\ req'[q].user = req[q].user
        /\ req'[q].code = req[q].code /\ req'[q].whom = req[q].whom
        /\ \A p \in Requests : p # q => req'[p] = req[p]
    BY <1>6 DEF StateOK
  <2>7. ReqOK'
    <3>1. HeldOK(q)'
      BY <1>6, <2>6 DEF ReqOK, HeldOK, OnCode, OnWhom, Exists, tables
    <3>2. ASSUME NEW p \in Requests, p # q PROVE HeldOK(p)'
      BY <1>6, <2>6, <3>2 DEF ReqOK, HeldOK, Exists, tables
    <3>3. QED
      BY <3>1, <3>2 DEF ReqOK
  <2>8. MigOK'
    BY <1>6 DEF MigOK, Exists, tables
  <2>9. QED
    BY <2>5, <2>7, <2>8
<1>7. CASE /\ req[q].pc = "count"
           /\ req' = [req EXCEPT ![q].pc = "delete"]
           /\ UNCHANGED <<tables, mig, regrant, runs, clicks>>
  <2> DEFINE r == [req[q] EXCEPT !.pc = "delete"]
  <2>1. r \in Handlers
    <3>1. /\ req[q] \in Handlers /\ "delete" \in Places
          /\ req[q].role \in Roles \cup {None} /\ req[q].tries \in 0..Attempts
      BY DEF StateOK, Places, Handlers
    <3>2. QED
      BY <3>1, HandlerUpdate
  <2>2. req' = [req EXCEPT ![q] = r]
    BY <1>7
  <2>3. StateOK'
    BY <1>7, <2>1, <2>2 DEF StateOK, tables, Exists
  <2>4. /\ req'[q].pc = "delete" /\ req'[q].user = req[q].user
        /\ req'[q].code = req[q].code /\ req'[q].whom = req[q].whom
        /\ \A p \in Requests : p # q => req'[p] = req[p]
    BY <1>7 DEF StateOK
  <2>5. ReqOK'
    <3>1. HeldOK(q)'
      BY <1>7, <2>4 DEF ReqOK, HeldOK, OnCode, OnWhom, Exists, tables
    <3>2. ASSUME NEW p \in Requests, p # q PROVE HeldOK(p)'
      BY <1>7, <2>4, <3>2 DEF ReqOK, HeldOK, Exists, tables
    <3>3. QED
      BY <3>1, <3>2 DEF ReqOK
  <2>6. MigOK'
    BY <1>7 DEF MigOK, Exists, tables
  <2>7. QED
    BY <2>3, <2>5, <2>6
<1>8. CASE FindTarget(q)
  BY <1>5, <1>6, <1>8 DEF FindTarget
<1>9. CASE CheckOrphan(q)
  BY <1>5, <1>7, <1>9 DEF CheckOrphan
<1>10. CASE Abort(q)
  BY <1>5, <1>10 DEF Abort
<1>11. QED
  BY <1>1, <1>2, <1>3, <1>4, <1>8, <1>9, <1>10 DEF Continue

\* The migration writes a row only for a code without one.
LEMMA ImportEffect ==
  ASSUME StateOK, NEW c \in Codes, ~Exists(c),
         url' = [url EXCEPT ![c] =
           [status |-> "active", by |-> System, source |-> "yourls", text |-> System]]
  PROVE  /\ url' \in [Codes -> UrlRows \cup {NoUrl}]
         /\ \A d \in Codes : ~Exists(d)' => ~Exists(d)
         /\ RowsKept
         /\ Exists(c)' /\ url'[c].source = "yourls"
<1> DEFINE r == [status |-> "active", by |-> System, source |-> "yourls", text |-> System]
<1>1. r \in UrlRows /\ r # NoUrl
  BY NewRow, ShortUrlsAssumption
<1>2. \A d \in Codes : url'[d] = IF d = c THEN r ELSE url[d]
  BY DEF StateOK
<1>3. url' \in [Codes -> UrlRows \cup {NoUrl}]
  BY <1>1 DEF StateOK
<1>4. QED
  BY <1>1, <1>2, <1>3 DEF RowsKept, Exists

\* The statements of the migration keep the type invariant.
LEMMA MigrateType ==
  ASSUME TypeInv, Migrate
  PROVE  TypeInv'
<1> USE DEF TypeInv
<1>1. CASE StartRun
  <2>1. [Off EXCEPT !.pc = "next", !.todo = Rows, !.present = {c \in Codes : Exists(c)}]
          \in Positions
    BY ShortUrlsAssumption DEF Positions, Off
  <2>2. mig' \in Positions /\ mig'.pc = "next"
    BY <1>1, <2>1 DEF StartRun, Off
  <2>3. runs' \in 0..MaxRuns
    BY <1>1, ShortUrlsAssumption DEF StartRun, StateOK
  <2>4. StateOK'
    BY <1>1, <2>2, <2>3 DEF StartRun, StateOK, tables, Exists
  <2>5. ReqOK'
    BY <1>1, SameRows, ReqFrame DEF StartRun, tables
  <2>6. QED
    BY <2>2, <2>4, <2>5 DEF MigOK
<1>2. CASE GrantOwner
  <2>1. mig.code \in Rows /\ mig.code \in Codes /\ Exists(mig.code)
        /\ url[mig.code].source = "yourls" /\ ImportOwner[mig.code] \in Users
    BY <1>2, ShortUrlsAssumption DEF GrantOwner, MigOK
  <2>2. mig' \in Positions /\ mig'.pc \in {"next", "stats"}
        /\ (mig'.pc = "stats" => mig'.code = mig.code)
    BY <1>2, <2>1 DEF GrantOwner, NextRow, StateOK, Positions
  <2>3. grants' \in [Codes -> [Users -> Roles \cup {None}]]
    <3>1. [grants EXCEPT ![mig.code][ImportOwner[mig.code]] = "owner"]
            \in [Codes -> [Users -> Roles \cup {None}]]
      BY <2>1 DEF StateOK, Roles
    <3>2. \/ grants' = [grants EXCEPT ![mig.code][ImportOwner[mig.code]] = "owner"]
          \/ grants' = grants
      BY <1>2 DEF GrantOwner
    <3>3. QED
      BY <3>1, <3>2 DEF StateOK
  <2>4. \A c \in Codes : ~Exists(c) => grants'[c] = grants[c]
    BY <1>2, <2>1 DEF GrantOwner, StateOK
  <2>5. UNCHANGED <<url, daily, req, regrant, runs, clicks>>
    BY <1>2 DEF GrantOwner
  <2>6. StateOK'
    BY <2>2, <2>3, <2>4, <2>5 DEF StateOK, Exists
  <2>7. ReqOK'
    BY <2>5, SameRows, ReqFrame
  <2>8. MigOK'
    BY <2>1, <2>2, <2>5 DEF MigOK, Exists
  <2>9. QED
    BY <2>6, <2>7, <2>8
<1>3. CASE SetClickStatsTotal
  <2>1. mig.code \in Codes
    BY <1>3, ShortUrlsAssumption DEF SetClickStatsTotal, MigOK
  <2>2. mig' \in Positions /\ mig'.pc = "next"
    BY <1>3 DEF SetClickStatsTotal, NextRow, StateOK, Positions
  <2>3. daily' \in [Codes -> Nat]
    BY <1>3, <2>1, ShortUrlsAssumption DEF SetClickStatsTotal, StateOK
  <2>4. UNCHANGED <<url, grants, req, regrant, runs, clicks>>
    BY <1>3 DEF SetClickStatsTotal
  <2>5. StateOK'
    BY <2>2, <2>3, <2>4 DEF StateOK, Exists
  <2>6. ReqOK'
    BY <2>4, SameRows, ReqFrame
  <2>7. QED
    BY <2>2, <2>5, <2>6 DEF MigOK
<1>4. CASE EndRun
  <2>1. mig' \in Positions /\ mig'.pc = "off"
    BY <1>4, ShortUrlsAssumption DEF EndRun, Positions, Off
  <2>2. StateOK'
    BY <1>4, <2>1 DEF EndRun, StateOK, tables, Exists
  <2>3. ReqOK'
    BY <1>4, SameRows, ReqFrame DEF EndRun, tables
  <2>4. QED
    BY <2>1, <2>2, <2>3 DEF MigOK
<1>5. ASSUME NEW c \in Rows, ImportRow(c) PROVE TypeInv'
  <2>1. c \in Codes
    BY ShortUrlsAssumption
  <2>2. UNCHANGED <<grants, daily, req, regrant, runs, clicks>>
    BY <1>5 DEF ImportRow
  <2>3. mig' \in Positions /\ mig'.pc \in {"next", "owner"}
    <3>1. mig' \in Positions
      <4>1. mig \in Positions
        BY DEF StateOK
      <4>2. \/ mig' = [mig EXCEPT !.todo = @ \ {c}]
            \/ mig' = [mig EXCEPT !.todo = @ \ {c}, !.pc = "owner", !.code = c]
        BY <1>5 DEF ImportRow
      <4>3. QED
        BY <2>1, <4>1, <4>2, PositionUpdate
    <3>2. mig'.pc \in {"next", "owner"}
      BY <1>5 DEF ImportRow, StateOK, Positions
    <3>3. QED
      BY <3>1, <3>2
  <2>4. CASE url' = url /\ mig'.pc = "next"
    <3>1. StateOK'
      BY <2>2, <2>3, <2>4 DEF StateOK, Exists
    <3>2. ReqOK'
      BY <2>2, <2>4, SameRows, ReqFrame
    <3>3. QED
      BY <2>4, <3>1, <3>2 DEF MigOK
  <2>5. CASE /\ ~Exists(c)
             /\ url' = [url EXCEPT ![c] =
                  [status |-> "active", by |-> System, source |-> "yourls", text |-> System]]
             /\ mig'.pc = "owner" => mig'.code = c
    <3>1. /\ url' \in [Codes -> UrlRows \cup {NoUrl}]
          /\ \A d \in Codes : ~Exists(d)' => ~Exists(d)
          /\ RowsKept
          /\ Exists(c)' /\ url'[c].source = "yourls"
      BY <2>1, <2>5, ImportEffect
    <3>2. StateOK'
      BY <2>2, <2>3, <3>1 DEF StateOK
    <3>3. ReqOK'
      BY <2>2, <3>1, ReqFrame
    <3>4. MigOK'
      BY <2>3, <2>5, <3>1 DEF MigOK
    <3>5. QED
      BY <3>2, <3>3, <3>4
  <2>6. QED
    BY <1>5, <2>4, <2>5 DEF ImportRow, StateOK, Positions
<1>6. QED
  BY <1>1, <1>2, <1>3, <1>4, <1>5 DEF Migrate

\* Every step keeps the type invariant.
LEMMA TypeStep == TypeInv /\ [Next]_vars => TypeInv'
<1> SUFFICES ASSUME TypeInv, [Next]_vars PROVE TypeInv'
  OBVIOUS
<1>1. ASSUME NEW u \in Users, NEW c \in Codes, CreateAlias(u, c) PROVE TypeInv'
  BY <1>1, CreateType
<1>2. ASSUME NEW q \in Requests, Arrive(q) \/ Continue(q) PROVE TypeInv'
  BY <1>2, ArriveType, ContinueType
<1>3. CASE Migrate
  BY <1>3, MigrateType
<1>4. ASSUME NEW c \in Codes, Click(c) PROVE TypeInv'
  <2>1. StateOK'
    BY <1>4, ShortUrlsAssumption DEF Click, TypeInv, StateOK, Exists
  <2>2. ReqOK' /\ MigOK'
    BY <1>4, SameRows, ReqFrame, MigFrame DEF Click
  <2>3. QED
    BY <2>1, <2>2 DEF TypeInv
<1>5. CASE UNCHANGED vars
  BY <1>5 DEF vars, tables, TypeInv, StateOK, ReqOK, HeldOK, MigOK, Exists
<1>6. QED
  BY <1>1, <1>2, <1>3, <1>4, <1>5 DEF Next, Act

\* The type invariant holds before anything has happened.
LEMMA InitTypeInv == Init => TypeInv
<1> SUFFICES ASSUME Init PROVE TypeInv
  OBVIOUS
<1>1. \A q \in Requests : req[q] = Idle
  BY DEF Init
<1>2. Idle \in Handlers
  BY ShortUrlsAssumption DEF Handlers, Idle, Places
<1>3. mig \in Positions
  BY DEF Init, Positions, Off
<1>4. StateOK
  BY <1>2, <1>3, ShortUrlsAssumption DEF Init, StateOK
<1>5. ReqOK
  BY <1>1 DEF ReqOK, HeldOK, Idle, OnCode, OnWhom
<1>6. MigOK
  BY DEF Init, Off, MigOK
<1>7. QED
  BY <1>4, <1>5, <1>6 DEF TypeInv

\* Rows, grants and what the handlers and the migration hold are well formed
\* in every reachable state: only a short URL that exists has grants, and a
\* handler never works on one that does not.
THEOREM TypeCorrect == Spec => []TypeOK
<1> DEFINE EntitledOK == entitled \in [Codes -> SUBSET Users]
<1>1. Init => EntitledOK
  BY DEF Init
<1>2. EntitledOK /\ [Next]_vars => EntitledOK'
  <2>1. ASSUME EntitledOK, Remember PROVE EntitledOK'
    <3>1. \A c \in Codes : Editors(c)' \subseteq Users
      BY DEF Editors
    <3>2. QED
      BY <2>1, <3>1 DEF Remember
  <2>2. QED
    BY <2>1 DEF Next, vars
<1>3. TypeInv /\ EntitledOK => TypeOK
  BY DEF TypeInv, TypeOK
<1>4. QED
  BY <1>1, <1>2, <1>3, InitTypeInv, TypeStep, PTL DEF Spec

-----------------------------------------------------------------------------
(***************************************************************************)
(* What one step does to one code: to its row, its grants and its place in *)
(* the history of owners who were granted a role anew.                     *)
(***************************************************************************)

Same(c) == url'[c] = url[c] /\ grants'[c] = grants[c] /\ (c \in regrant' <=> c \in regrant)

Created(c) ==
  /\ ~Exists(c) /\ c \notin Reserved
  /\ \E u \in Users :
       /\ url'[c] = [status |-> "active", by |-> u, source |-> "native", text |-> u]
       /\ grants'[c] = [grants[c] EXCEPT ![u] = "owner"]
  /\ regrant' = regrant

Imported(c) ==
  /\ ~Exists(c) /\ c \notin Reserved /\ c \in Rows
  /\ url'[c] = [status |-> "active", by |-> System, source |-> "yourls", text |-> System]
  /\ grants'[c] = grants[c] /\ regrant' = regrant

Edited(c) ==
  /\ \E q \in Requests :
       /\ req[q].pc = "edit" /\ req[q].code = c
       /\ url'[c] = [url[c] EXCEPT !.text = req[q].user]
  /\ grants'[c] = grants[c] /\ regrant' = regrant

Disabled(c) ==
  /\ Exists(c)
  /\ url'[c] = [url[c] EXCEPT !.status = "disabled"]
  /\ grants'[c] = grants[c] /\ regrant' = regrant

Granted(c) ==
  /\ url'[c] = url[c]
  /\ \E q \in Requests :
       /\ req[q].pc = "grant" /\ req[q].code = c
       /\ grants'[c] = [grants[c] EXCEPT ![req[q].whom] = req[q].role]
       /\ c \in regrant' <=> (c \in regrant \/ grants[c][req[q].whom] = "owner")

Revoked(c) ==
  /\ url'[c] = url[c]
  /\ \E q \in Requests :
       /\ req[q].pc = "delete" /\ req[q].code = c
       /\ grants'[c] = [grants[c] EXCEPT ![req[q].whom] = None]
  /\ regrant' = regrant

Owned(c) ==
  /\ url'[c] = url[c] /\ Exists(c) /\ url[c].source = "yourls" /\ c \in Rows
  /\ grants'[c] = [grants[c] EXCEPT ![ImportOwner[c]] = "owner"]
  /\ regrant' = regrant

CodeStep(c) ==
  \/ Same(c) \/ Created(c) \/ Imported(c) \/ Edited(c) \/ Disabled(c)
  \/ Granted(c) \/ Revoked(c) \/ Owned(c)

\* A create inserts its code and leaves the others alone.
LEMMA InsertStep ==
  ASSUME StateOK, NEW c \in Codes, NEW u \in Users, c \notin Reserved, Insert(c, u),
         regrant' = regrant, NEW d \in Codes
  PROVE  CodeStep(d)
<1>1. CASE d = c
  BY <1>1 DEF StateOK, Insert, CodeStep, Created
<1>2. CASE d # c
  BY <1>2 DEF StateOK, Insert, CodeStep, Same
<1>3. QED
  BY <1>1, <1>2

\* Every step does to every code one of the eight things above.
LEMMA StepEffect ==
  ASSUME TypeInv, [Next]_vars, NEW d \in Codes
  PROVE  CodeStep(d)
<1> USE DEF TypeInv
<1>1. ASSUME UNCHANGED <<url, grants, regrant>> PROVE CodeStep(d)
  BY <1>1 DEF CodeStep, Same
<1>2. ASSUME NEW u \in Users, NEW c \in Codes, CreateAlias(u, c) PROVE CodeStep(d)
  BY <1>2, InsertStep DEF CreateAlias
<1>3. ASSUME NEW q \in Requests, Arrive(q) PROVE CodeStep(d)
  BY <1>1, <1>3 DEF Arrive, BeginCreate, BeginEdit, BeginDisable, BeginGrant, BeginRevoke,
                    Accept, tables
<1>4. ASSUME NEW q \in Requests, Continue(q) PROVE CodeStep(d)
  <2>1. ASSUME NEW c \in Codes, TryCode(q, c) PROVE CodeStep(d)
    <3>1. req[q].user \in Users
      BY <2>1 DEF TryCode, ReqOK, HeldOK
    <3>2. \/ c \notin Reserved /\ Insert(c, req[q].user) /\ regrant' = regrant
          \/ UNCHANGED <<url, grants, regrant>>
      BY <2>1 DEF TryCode
    <3>3. QED
      BY <1>1, <3>1, <3>2, InsertStep
  <2>2. CASE Edit(q)
    BY <2>2 DEF Edit, StateOK, CodeStep, Same, Edited
  <2>3. CASE Disable(q)
    <3>1. Exists(req[q].code)
      BY <2>3 DEF Disable, ReqOK, HeldOK, OnCode
    <3>2. QED
      BY <2>3, <3>1 DEF Disable, StateOK, CodeStep, Same, Disabled
  <2>4. CASE Grant(q)
    <3>1. CASE d = req[q].code
      BY <2>4, <3>1 DEF Grant, StateOK, CodeStep, Granted
    <3>2. CASE d # req[q].code
      BY <2>4, <3>2 DEF Grant, StateOK, CodeStep, Same
    <3>3. QED
      BY <3>1, <3>2
  <2>5. CASE Revoke(q)
    <3>1. CASE d = req[q].code
      BY <2>5, <3>1 DEF Revoke, StateOK, CodeStep, Revoked
    <3>2. CASE d # req[q].code
      BY <2>5, <3>2 DEF Revoke, StateOK, CodeStep, Same
    <3>3. QED
      BY <3>1, <3>2
  <2>6. CASE FindTarget(q) \/ CheckOrphan(q) \/ Abort(q)
    BY <1>1, <2>6 DEF FindTarget, CheckOrphan, Abort, tables
  <2>7. QED
    BY <1>4, <2>1, <2>2, <2>3, <2>4, <2>5, <2>6 DEF Continue
<1>5. CASE Migrate
  <2>1. ASSUME NEW c \in Rows, ImportRow(c) PROVE CodeStep(d)
    <3>1. c \in Codes
      BY ShortUrlsAssumption
    <3>2. CASE UNCHANGED <<url, grants, regrant>>
      BY <1>1, <3>2
    <3>3. CASE /\ c \notin Reserved /\ ~Exists(c)
               /\ url' = [url EXCEPT ![c] =
                    [status |-> "active", by |-> System, source |-> "yourls", text |-> System]]
               /\ UNCHANGED <<grants, regrant>>
      <4>1. CASE d = c
        BY <3>1, <3>3, <4>1 DEF StateOK, CodeStep, Imported
      <4>2. CASE d # c
        BY <3>1, <3>3, <4>2 DEF StateOK, CodeStep, Same
      <4>3. QED
        BY <4>1, <4>2
    <3>4. QED
      BY <2>1, <3>2, <3>3 DEF ImportRow
  <2>2. CASE GrantOwner
    <3>1. /\ mig.code \in Rows /\ mig.code \in Codes /\ Exists(mig.code)
          /\ url[mig.code].source = "yourls" /\ ImportOwner[mig.code] \in Users
      BY <2>2, ShortUrlsAssumption DEF GrantOwner, MigOK
    <3>2. CASE UNCHANGED grants
      BY <1>1, <2>2, <3>2 DEF GrantOwner
    <3>3. CASE grants' = [grants EXCEPT ![mig.code][ImportOwner[mig.code]] = "owner"]
      <4>1. CASE d = mig.code
        BY <2>2, <3>1, <3>3, <4>1 DEF GrantOwner, StateOK, CodeStep, Owned
      <4>2. CASE d # mig.code
        BY <2>2, <3>1, <3>3, <4>2 DEF GrantOwner, StateOK, CodeStep, Same
      <4>3. QED
        BY <4>1, <4>2
    <3>4. QED
      BY <2>2, <3>2, <3>3 DEF GrantOwner
  <2>3. CASE StartRun \/ SetClickStatsTotal \/ EndRun
    BY <1>1, <2>3 DEF StartRun, SetClickStatsTotal, EndRun, tables
  <2>4. QED
    BY <1>5, <2>1, <2>2, <2>3 DEF Migrate
<1>6. ASSUME NEW c \in Codes, Click(c) PROVE CodeStep(d)
  BY <1>1, <1>6 DEF Click
<1>7. CASE UNCHANGED vars
  BY <1>1, <1>7 DEF vars, tables
<1>8. QED
  BY <1>2, <1>3, <1>4, <1>5, <1>6, <1>7 DEF Next, Act

\* A short URL is never deleted, and keeps its creator and its source.
LEMMA RowsStay ==
  ASSUME TypeInv, [Next]_vars
  PROVE  RowsKept
<1> SUFFICES ASSUME NEW c \in Codes, Exists(c)
             PROVE  Exists(c)' /\ url'[c].by = url[c].by /\ url'[c].source = url[c].source
  BY DEF RowsKept
<1>1. url[c] \in UrlRows
  BY DEF TypeInv, StateOK, Exists
<1>2. \/ url'[c] = url[c]
      \/ \E u : url'[c] = [url[c] EXCEPT !.text = u]
      \/ url'[c] = [url[c] EXCEPT !.status = "disabled"]
  BY StepEffect DEF CodeStep, Same, Created, Imported, Edited, Disabled, Granted, Revoked, Owned
<1>3. \A u : [url[c] EXCEPT !.text = u].status = url[c].status
  BY <1>1 DEF UrlRows
<1>4. /\ \A u : [url[c] EXCEPT !.text = u] # NoUrl
      /\ [url[c] EXCEPT !.status = "disabled"] # NoUrl
  BY <1>1, <1>3 DEF UrlRows, NoUrl
<1>5. QED
  BY <1>1, <1>2, <1>4 DEF Exists, UrlRows

-----------------------------------------------------------------------------
(***************************************************************************)
(* Reserved codes, disabled short URLs and owners.                         *)
(***************************************************************************)

\* No create, no random code and no imported row ever takes a reserved code.
THEOREM ReservedStayUnused == Spec => []ReservedUnused
<1>1. Init => ReservedUnused
  BY ShortUrlsAssumption DEF Init, ReservedUnused, Exists
<1>2. TypeInv /\ ReservedUnused /\ [Next]_vars => ReservedUnused'
  <2> SUFFICES ASSUME TypeInv, ReservedUnused, [Next]_vars, NEW c \in Reserved
               PROVE  ~Exists(c)'
    BY DEF ReservedUnused
  <2>1. c \in Codes /\ ~Exists(c)
    BY ShortUrlsAssumption DEF ReservedUnused
  <2>2. \A q \in Requests : req[q].pc \in OnCode => req[q].code # c
    BY <2>1 DEF TypeInv, ReqOK, HeldOK
  <2>3. url'[c] = url[c]
    BY <2>1, <2>2, StepEffect
       DEF CodeStep, Same, Created, Imported, Edited, Disabled, Granted, Revoked, Owned, OnCode
  <2>4. QED
    BY <2>1, <2>3 DEF Exists
<1>3. QED
  BY <1>1, <1>2, InitTypeInv, TypeStep, PTL DEF Spec

\* A disable is final, however late an edit that was accepted before it is
\* carried out: UpdateFields does not write the status.
THEOREM DisablesAreFinal == Spec => DisabledForGood
<1>1. TypeInv /\ [Next]_vars
        => [\A c \in Codes : url[c].status = "disabled" => url'[c].status = "disabled"]_vars
  <2> SUFFICES ASSUME TypeInv, [Next]_vars, NEW c \in Codes, url[c].status = "disabled"
               PROVE  url'[c].status = "disabled"
    OBVIOUS
  <2>1. Exists(c) /\ url[c] \in UrlRows
    BY DEF TypeInv, StateOK, Exists, NoUrl
  <2>2. \/ url'[c] = url[c]
        \/ \E u : url'[c] = [url[c] EXCEPT !.text = u]
        \/ url'[c] = [url[c] EXCEPT !.status = "disabled"]
    BY <2>1, StepEffect
       DEF CodeStep, Same, Created, Imported, Edited, Disabled, Granted, Revoked, Owned
  <2>3. QED
    BY <2>1, <2>2 DEF UrlRows
<1>2. QED
  BY <1>1, InitTypeInv, TypeStep, PTL DEF Spec, DisabledForGood

\* Who a short URL belongs to never changes.
LEMMA FirstOwnerStays ==
  ASSUME TypeInv, [Next]_vars, NEW c \in Codes, Exists(c)
  PROVE  FirstOwner(c)' = FirstOwner(c)
BY RowsStay DEF RowsKept, FirstOwner

\* Only the creator, or the owner an import names, is ever an owner: whatever
\* creates, imports, invitations and revokes race.
THEOREM OneOwner == Spec => []SoleOwner
<1>1. Init => SoleOwner
  BY ShortUrlsAssumption DEF Init, SoleOwner, Owners, IsOwner
<1>2. TypeInv /\ SoleOwner /\ [Next]_vars => SoleOwner'
  <2> SUFFICES ASSUME TypeInv, SoleOwner, [Next]_vars, NEW c \in Codes,
                      NEW u \in Users, grants'[c][u] = "owner"
               PROVE  u = FirstOwner(c)'
    BY DEF SoleOwner, Owners, IsOwner
  <2>1. grants[c] \in [Users -> Roles \cup {None}]
    BY DEF TypeInv, StateOK
  <2>2. CASE ~Exists(c)
    <3>1. \A v \in Users : grants[c][v] = None
      BY <2>2 DEF TypeInv, StateOK
    <3>2. \A q \in Requests : req[q].pc \in OnCode => req[q].code # c
      BY <2>2 DEF TypeInv, ReqOK, HeldOK
    <3>3. grants'[c] # grants[c]
      BY <3>1, ShortUrlsAssumption
    <3>4. Created(c)
      BY <2>2, <3>2, <3>3, StepEffect
         DEF CodeStep, Same, Imported, Edited, Disabled, Granted, Revoked, Owned, OnCode
    <3>5. PICK v \in Users :
            /\ url'[c] = [status |-> "active", by |-> v, source |-> "native", text |-> v]
            /\ grants'[c] = [grants[c] EXCEPT ![v] = "owner"]
      BY <3>4 DEF Created
    <3>6. u = v
      BY <2>1, <3>1, <3>5, ShortUrlsAssumption
    <3>7. QED
      BY <3>5, <3>6 DEF FirstOwner
  <2>3. CASE Exists(c)
    <3>1. FirstOwner(c)' = FirstOwner(c)
      BY <2>3, FirstOwnerStays
    <3>2. CASE grants[c][u] = "owner"
      BY <3>1, <3>2 DEF SoleOwner, Owners, IsOwner
    <3>3. CASE grants[c][u] # "owner"
      <4>1. ~Granted(c)
        BY <2>1, <3>3 DEF Granted, TypeInv, ReqOK, HeldOK
      <4>2. ~Revoked(c)
        BY <2>1, <3>3, ShortUrlsAssumption DEF Revoked
      <4>3. Owned(c)
        BY <2>3, <3>3, <4>1, <4>2, StepEffect
           DEF CodeStep, Same, Created, Imported, Edited, Disabled
      <4>4. u = ImportOwner[c] /\ url[c].source = "yourls"
        BY <2>1, <3>3, <4>3 DEF Owned
      <4>5. QED
        BY <3>1, <4>4 DEF FirstOwner
    <3>4. QED
      BY <3>2, <3>3
  <2>4. QED
    BY <2>2, <2>3
<1>3. QED
  BY <1>1, <1>2, InitTypeInv, TypeStep, PTL DEF Spec

-----------------------------------------------------------------------------
(***************************************************************************)
(* The last owner cannot be removed.                                       *)
(***************************************************************************)

grantVars == <<url, grants, regrant>>

\* What one step does to request q, as far as edits and revokes go.
Accepted(q) ==
  /\ req'[q].pc = "edit"
  /\ req'[q].user \in Users /\ req'[q].code \in Codes
  /\ CanEdit(req'[q].user, req'[q].code)
  /\ UNCHANGED grantVars

Found(q) ==
  /\ req[q].pc = "find" /\ req'[q].pc = "count"
  /\ req'[q].code = req[q].code /\ req'[q].whom = req[q].whom
  /\ req'[q].role = grants[req[q].code][req[q].whom]
  /\ UNCHANGED grantVars

Counted(q) ==
  /\ req[q].pc = "count" /\ req'[q].pc = "delete"
  /\ req'[q].code = req[q].code /\ req'[q].whom = req[q].whom
  /\ ~WouldOrphanOwnership(req[q].role, Cardinality(Owners(req[q].code)))
  /\ UNCHANGED grantVars

ReqStep(q) ==
  \/ req'[q] = req[q]
  \/ req'[q].pc \notin {"edit", "count", "delete"}
  \/ Accepted(q) \/ Found(q) \/ Counted(q)

\* Accept makes request q what it was accepted for.
LEMMA AcceptStep ==
  ASSUME StateOK, NEW q \in Requests, NEW p \in Requests, NEW pc, NEW u, NEW c, NEW whom, NEW role,
         Accept(q, pc, u, c, whom, role)
  PROVE  \/ req'[p] = req[p]
         \/ /\ req'[p].pc = pc /\ req'[p].user = u /\ req'[p].code = c
            /\ UNCHANGED grantVars
<1> DEFINE r == [Idle EXCEPT !.pc = pc, !.user = u, !.code = c, !.whom = whom, !.role = role]
<1>1. r.pc = pc /\ r.user = u /\ r.code = c
  BY DEF Idle
<1>2. req'[p] = IF p = q THEN r ELSE req[p]
  BY DEF StateOK, Accept
<1> HIDE DEF r
<1>3. QED
  BY <1>1, <1>2 DEF Accept, tables, grantVars

\* Ending, failing to find and every step of another request.
LEMMA DoneStep ==
  ASSUME StateOK, NEW q \in Requests, NEW p \in Requests, Done(q)
  PROVE  ReqStep(p)
BY DoneEffect DEF ReqStep, Idle

\* Every step does to every request one of the things above.
LEMMA ReqEffect ==
  ASSUME TypeInv, [Next]_vars, NEW p \in Requests
  PROVE  ReqStep(p)
<1> USE DEF TypeInv
<1>1. ASSUME UNCHANGED req PROVE ReqStep(p)
  BY <1>1 DEF ReqStep
<1>2. ASSUME NEW q \in Requests, Arrive(q) PROVE ReqStep(p)
  <2> PICK u \in Users :
        \/ BeginCreate(q, u)
        \/ \E c \in Codes :
             \/ BeginEdit(q, u, c) \/ BeginDisable(q, u, c)
             \/ \E whom \in Invitees : BeginGrant(q, u, c, whom)
             \/ \E whom \in Users : BeginRevoke(q, u, c, whom)
    BY <1>2 DEF Arrive
  <2>1. CASE BeginCreate(q, u)
    <3> DEFINE r == [Idle EXCEPT !.pc = "create", !.user = u]
    <3>1. r.pc = "create"
      BY DEF Idle
    <3>2. req'[p] = IF p = q THEN r ELSE req[p]
      BY <2>1 DEF StateOK, BeginCreate
    <3> HIDE DEF r
    <3>3. QED
      BY <3>1, <3>2 DEF ReqStep
  <2>2. ASSUME NEW c \in Codes, BeginEdit(q, u, c) PROVE ReqStep(p)
    <3>1. CanEdit(u, c) /\ Accept(q, "edit", u, c, None, None)
      BY <2>2 DEF BeginEdit
    <3>2. \/ req'[p] = req[p]
          \/ req'[p].pc = "edit" /\ req'[p].user = u /\ req'[p].code = c /\ UNCHANGED grantVars
      BY <3>1, AcceptStep
    <3>3. QED
      BY <3>1, <3>2 DEF ReqStep, Accepted
  <2>3. ASSUME NEW c \in Codes, BeginDisable(q, u, c) PROVE ReqStep(p)
    <3>1. Accept(q, "disable", u, c, None, None)
      BY <2>3 DEF BeginDisable
    <3>2. req'[p] = req[p] \/ req'[p].pc = "disable"
      BY <3>1, AcceptStep
    <3>3. QED
      BY <3>2 DEF ReqStep
  <2>4. ASSUME NEW c \in Codes, NEW whom \in Invitees, BeginGrant(q, u, c, whom) PROVE ReqStep(p)
    <3>1. PICK role \in {"editor", "viewer"} : Accept(q, "grant", u, c, whom, role)
      BY <2>4 DEF BeginGrant
    <3>2. req'[p] = req[p] \/ req'[p].pc = "grant"
      BY <3>1, AcceptStep
    <3>3. QED
      BY <3>2 DEF ReqStep
  <2>5. ASSUME NEW c \in Codes, NEW whom \in Users, BeginRevoke(q, u, c, whom) PROVE ReqStep(p)
    <3>1. Accept(q, "find", u, c, whom, None)
      BY <2>5 DEF BeginRevoke
    <3>2. req'[p] = req[p] \/ req'[p].pc = "find"
      BY <3>1, AcceptStep
    <3>3. QED
      BY <3>2 DEF ReqStep
  <2>6. QED
    BY <2>1, <2>2, <2>3, <2>4, <2>5
<1>3. ASSUME NEW q \in Requests, Continue(q) PROVE ReqStep(p)
  <2>1. CASE Done(q)
    BY <2>1, DoneStep
  <2>2. CASE req[q].pc = "create" /\ req' = [req EXCEPT ![q].tries = @ + 1]
    BY <2>2 DEF StateOK, ReqStep
  <2>3. CASE /\ req[q].pc = "find" /\ UNCHANGED tables /\ UNCHANGED regrant
             /\ req' = [req EXCEPT ![q].pc = "count",
                                   ![q].role = grants[req[q].code][req[q].whom]]
    BY <2>3 DEF StateOK, ReqStep, Found, tables, grantVars
  <2>4. CASE /\ req[q].pc = "count" /\ UNCHANGED tables /\ UNCHANGED regrant
             /\ ~WouldOrphanOwnership(req[q].role, Cardinality(Owners(req[q].code)))
             /\ req' = [req EXCEPT ![q].pc = "delete"]
    BY <2>4 DEF StateOK, ReqStep, Counted, tables, grantVars
  <2>5. ASSUME NEW c \in Codes, TryCode(q, c) PROVE ReqStep(p)
    BY <2>1, <2>2, <2>5 DEF TryCode
  <2>6. CASE Edit(q) \/ Disable(q) \/ Grant(q) \/ Revoke(q) \/ Abort(q)
    BY <2>1, <2>6 DEF Edit, Disable, Grant, Revoke, Abort
  <2>7. CASE FindTarget(q)
    BY <2>1, <2>3, <2>7 DEF FindTarget
  <2>8. CASE CheckOrphan(q)
    BY <2>1, <2>4, <2>8 DEF CheckOrphan
  <2>9. QED
    BY <1>3, <2>5, <2>6, <2>7, <2>8 DEF Continue
<1>4. ASSUME NEW u \in Users, NEW c \in Codes, CreateAlias(u, c) PROVE ReqStep(p)
  BY <1>1, <1>4 DEF CreateAlias
<1>5. CASE Migrate
  BY <1>1, <1>5 DEF Migrate, StartRun, GrantOwner, SetClickStatsTotal, EndRun, ImportRow
<1>6. ASSUME NEW c \in Codes, Click(c) PROVE ReqStep(p)
  BY <1>1, <1>6 DEF Click
<1>7. CASE UNCHANGED vars
  BY <1>1, <1>7 DEF vars
<1>8. QED
  BY <1>2, <1>3, <1>4, <1>5, <1>6, <1>7 DEF Next, Act

\* The short URLs that OwnerKept speaks of.
Kept(c) == Exists(c) /\ url[c].source = "native" /\ c \notin regrant

\* A revoke that has read its target's role either read it from the owner's
\* grant, or is not about the owner; one that has counted is not about the owner.
SparesOwner(q) ==
  /\ req[q].pc = "count" /\ Kept(req[q].code) /\ req[q].whom = url[req[q].code].by
       => req[q].role = "owner"
  /\ req[q].pc = "delete" /\ Kept(req[q].code) => req[q].whom # url[req[q].code].by

OwnerInv == OwnerKept /\ \A q \in Requests : SparesOwner(q)

\* A short URL that exists does not come back under OwnerKept, and keeps its creator.
LEMMA KeptBefore ==
  ASSUME TypeInv, [Next]_vars, NEW c \in Codes, Exists(c), Kept(c)'
  PROVE  Kept(c) /\ url'[c].by = url[c].by
<1>1. url'[c].by = url[c].by /\ url'[c].source = url[c].source
  BY RowsStay DEF RowsKept
<1>2. c \in regrant => c \in regrant'
  BY StepEffect
     DEF CodeStep, Same, Created, Imported, Edited, Disabled, Granted, Revoked, Owned
<1>3. QED
  BY <1>1, <1>2 DEF Kept

\* A created short URL has its creator as its only owner, and no step takes
\* the creator's grant away.
LEMMA OwnerStep ==
  ASSUME TypeInv, OwnerInv, [Next]_vars, NEW c \in Codes, Kept(c)'
  PROVE  \A u \in Users : grants'[c][u] = "owner" <=> u = url'[c].by
<1>1. grants[c] \in [Users -> Roles \cup {None}]
  BY DEF TypeInv, StateOK
<1>2. CASE ~Exists(c)
  <2>1. \A v \in Users : grants[c][v] = None
    BY <1>2 DEF TypeInv, StateOK
  <2>2. \A q \in Requests : req[q].pc \in OnCode => req[q].code # c
    BY <1>2 DEF TypeInv, ReqOK, HeldOK
  <2>3. url'[c] # url[c] /\ url'[c].source = "native"
    BY <1>2 DEF Kept, Exists
  <2>4. Created(c)
    <3>1. ~Imported(c)
      BY <2>3 DEF Imported
    <3>2. ~Edited(c) /\ ~Disabled(c)
      BY <1>2, <2>2 DEF Edited, Disabled, OnCode
    <3>3. ~Same(c) /\ ~Granted(c) /\ ~Revoked(c) /\ ~Owned(c)
      BY <2>3 DEF Same, Granted, Revoked, Owned
    <3>4. QED
      BY <3>1, <3>2, <3>3, StepEffect DEF CodeStep
  <2>5. PICK v \in Users :
          /\ url'[c] = [status |-> "active", by |-> v, source |-> "native", text |-> v]
          /\ grants'[c] = [grants[c] EXCEPT ![v] = "owner"]
    BY <2>4 DEF Created
  <2>6. url'[c].by = v
    BY <2>5
  <2>7. QED
    BY <1>1, <2>1, <2>5, <2>6, ShortUrlsAssumption
<1>3. CASE Exists(c)
  <2>1. Kept(c) /\ url'[c].by = url[c].by
    BY <1>3, KeptBefore
  <2>2. \A u \in Users : grants[c][u] = "owner" <=> u = url[c].by
    BY <2>1 DEF Kept, OwnerInv, OwnerKept, Owners, IsOwner
  <2>3. CASE grants'[c] = grants[c]
    BY <2>1, <2>2, <2>3
  <2>4. CASE Granted(c)
    <3>1. PICK q \in Requests :
            /\ req[q].pc = "grant" /\ req[q].code = c
            /\ grants'[c] = [grants[c] EXCEPT ![req[q].whom] = req[q].role]
            /\ c \in regrant' <=> (c \in regrant \/ grants[c][req[q].whom] = "owner")
      BY <2>4 DEF Granted
    <3>2. grants[c][req[q].whom] # "owner"
      BY <3>1 DEF Kept
    <3>3. req[q].role # "owner" /\ req[q].whom \in Users
      BY <3>1 DEF TypeInv, ReqOK, HeldOK, OnWhom
    <3>4. QED
      BY <1>1, <2>1, <2>2, <3>1, <3>2, <3>3
  <2>5. CASE Revoked(c)
    <3>1. PICK q \in Requests :
            /\ req[q].pc = "delete" /\ req[q].code = c
            /\ grants'[c] = [grants[c] EXCEPT ![req[q].whom] = None]
      BY <2>5 DEF Revoked
    <3>2. req[q].whom # url[c].by /\ req[q].whom \in Users
      BY <2>1, <3>1 DEF OwnerInv, SparesOwner, TypeInv, ReqOK, HeldOK, OnWhom
    <3>3. QED
      BY <1>1, <2>1, <2>2, <3>1, <3>2, ShortUrlsAssumption
  <2>6. QED
    BY <1>3, <2>1, <2>3, <2>4, <2>5, StepEffect
       DEF CodeStep, Same, Created, Imported, Edited, Disabled, Owned, Kept
<1>4. QED
  BY <1>2, <1>3

\* No step of a revoke, and nobody else's step, lets a revoke reach the owner.
LEMMA SparesStep ==
  ASSUME TypeInv, OwnerInv, [Next]_vars, NEW q \in Requests
  PROVE  SparesOwner(q)'
<1>1. req[q].pc \in {"find", "count", "delete"} =>
        req[q].code \in Codes /\ Exists(req[q].code) /\ req[q].whom \in Users
  BY DEF TypeInv, ReqOK, HeldOK, OnCode, OnWhom
<1>2. CASE req'[q] = req[q]
  <2>1. ASSUME req[q].pc \in {"count", "delete"}, Kept(req[q].code)'
        PROVE  Kept(req[q].code) /\ url'[req[q].code].by = url[req[q].code].by
    BY <1>1, <1>2, <2>1, KeptBefore DEF Kept, Exists
  <2>2. QED
    BY <1>2, <2>1 DEF OwnerInv, SparesOwner, Kept, Exists
<1>3. CASE req'[q].pc \notin {"edit", "count", "delete"}
  BY <1>3 DEF SparesOwner
<1>4. CASE Accepted(q)
  BY <1>4 DEF Accepted, SparesOwner
<1>5. CASE Found(q)
  <2>1. Kept(req[q].code) /\ req[q].whom = url[req[q].code].by => req'[q].role = "owner"
    BY <1>1, <1>5 DEF Found, OwnerInv, OwnerKept, Owners, IsOwner, Kept
  <2>2. QED
    BY <1>5, <2>1 DEF Found, SparesOwner, Kept, Exists, grantVars
<1>6. CASE Counted(q)
  <2>1. ASSUME Kept(req[q].code), req[q].whom = url[req[q].code].by PROVE FALSE
    <3>1. req[q].role = "owner"
      BY <1>6, <2>1 DEF Counted, OwnerInv, SparesOwner
    <3>2. Owners(req[q].code) = {url[req[q].code].by}
      BY <1>1, <1>6, <2>1 DEF Counted, OwnerInv, OwnerKept, Kept
    <3>3. Cardinality(Owners(req[q].code)) = 1
      BY <3>2, FS_Singleton
    <3>4. QED
      BY <1>6, <3>1, <3>3 DEF Counted, WouldOrphanOwnership
  <2>2. QED
    BY <1>6, <2>1 DEF Counted, SparesOwner, Kept, Exists, grantVars
<1>7. QED
  BY <1>2, <1>3, <1>4, <1>5, <1>6, ReqEffect DEF ReqStep

\* A short URL created through the API keeps its owner, whatever revokes,
\* invitations and failures race, unless that owner is invited to it: the
\* separate statements of the revoke handler cannot remove the last owner.
THEOREM LastOwnerStays == Spec => []OwnerKept
<1>1. Init => OwnerInv
  BY DEF Init, OwnerInv, OwnerKept, SparesOwner, Exists, Idle
<1>2. TypeInv /\ OwnerInv /\ [Next]_vars => OwnerInv'
  <2> SUFFICES ASSUME TypeInv, OwnerInv, [Next]_vars PROVE OwnerInv'
    OBVIOUS
  <2>1. ASSUME NEW c \in Codes, Kept(c)' PROVE Owners(c)' = {url'[c].by}
    <3>1. \A u \in Users : grants'[c][u] = "owner" <=> u = url'[c].by
      BY <2>1, OwnerStep
    <3>2. url' \in [Codes -> UrlRows \cup {NoUrl}]
      BY TypeStep DEF TypeInv, StateOK
    <3>3. url'[c].by \in Users
      BY <2>1, <3>2 DEF Kept, Exists, UrlRows
    <3>4. QED
      BY <3>1, <3>3 DEF Owners, IsOwner
  <2>2. OwnerKept'
    BY <2>1 DEF OwnerKept, Kept
  <2>3. QED
    BY <2>2, SparesStep DEF OwnerInv
<1>3. OwnerInv => OwnerKept
  BY DEF OwnerInv
<1>4. QED
  BY <1>1, <1>2, <1>3, InitTypeInv, TypeStep, PTL DEF Spec

-----------------------------------------------------------------------------
(***************************************************************************)
(* Who writes the fields of a short URL.                                   *)
(***************************************************************************)

\* Whoever may edit a short URL is entitled to, and so is whoever has an edit
\* of it under way.
EntitledInv ==
  /\ \A c \in Codes : Editors(c) \subseteq entitled[c]
  /\ \A q \in Requests : req[q].pc = "edit" => req[q].user \in entitled[req[q].code]

\* No step takes the entitlement away from an edit that is under way, and an
\* edit is accepted from those only whom the grants entitle.
LEMMA EntitledStep ==
  ASSUME TypeInv, EntitledInv, [Next]_vars
  PROVE  EntitledInv'
<1>1. CASE UNCHANGED vars
  BY <1>1 DEF vars, tables, EntitledInv, Editors
<1>2. CASE Remember
  <2>1. \A c \in Codes : Editors(c)' \subseteq entitled'[c]
    BY <1>2 DEF Remember
  <2>2. ASSUME NEW q \in Requests, req'[q].pc = "edit"
        PROVE  req'[q].user \in entitled'[req'[q].code]
    <3>1. PICK c : c = req'[q].code
      OBVIOUS
    <3>2. PICK u : u = req'[q].user
      OBVIOUS
    <3>3. CASE req'[q] = req[q]
      <4>1. c \in Codes /\ u \in entitled[c]
        BY <2>2, <3>1, <3>2, <3>3 DEF TypeInv, ReqOK, HeldOK, OnCode, EntitledInv
      <4>2. Editing(u, c)'
        BY <2>2, <3>1, <3>2 DEF Editing
      <4>3. QED
        BY <1>2, <3>1, <3>2, <4>1, <4>2 DEF Remember
    <3>4. CASE Accepted(q)
      <4>1. u \in Users /\ c \in Codes /\ CanEdit(u, c) /\ grants' = grants
        BY <3>1, <3>2, <3>4 DEF Accepted, grantVars
      <4>2. u \in Editors(c)'
        BY <4>1 DEF CanEdit, Editors
      <4>3. QED
        BY <2>1, <3>1, <3>2, <4>1, <4>2
    <3>5. QED
      BY <2>2, <3>3, <3>4, ReqEffect DEF ReqStep, Found, Counted
  <2>3. QED
    BY <2>1, <2>2 DEF EntitledInv
<1>3. QED
  BY <1>1, <1>2 DEF Next

\* The fields of a short URL are overwritten only by somebody whose grant lets
\* them edit this one, now or when the edit was accepted, whatever invitations,
\* revokes and edits are carried out between its two statements.
THEOREM OnlyEditorsWrite == Spec => WrittenByGrantee
<1>1. Init => EntitledInv
  BY ShortUrlsAssumption DEF Init, EntitledInv, Editors, Idle
<1>2. TypeInv /\ EntitledInv /\ [Next]_vars => EntitledInv'
  BY EntitledStep
<1>3. TypeInv /\ EntitledInv /\ [Next]_vars
        => [\A c \in Codes :
              Exists(c) /\ url'[c].text # url[c].text => url'[c].text \in entitled[c]]_vars
  <2> SUFFICES ASSUME TypeInv, EntitledInv, [Next]_vars, NEW c \in Codes,
                      Exists(c), url'[c].text # url[c].text
               PROVE  url'[c].text \in entitled[c]
    OBVIOUS
  <2>1. url[c] \in UrlRows
    BY DEF TypeInv, StateOK, Exists
  <2>2. ~Disabled(c)
    BY <2>1 DEF Disabled, UrlRows
  <2>3. Edited(c)
    BY <2>2, StepEffect
       DEF CodeStep, Same, Created, Imported, Granted, Revoked, Owned
  <2>4. PICK q \in Requests :
          /\ req[q].pc = "edit" /\ req[q].code = c
          /\ url'[c] = [url[c] EXCEPT !.text = req[q].user]
    BY <2>3 DEF Edited
  <2>5. url'[c].text = req[q].user
    BY <2>1, <2>4 DEF UrlRows
  <2>6. QED
    BY <2>4, <2>5 DEF EntitledInv
<1>4. QED
  BY <1>1, <1>2, <1>3, InitTypeInv, TypeStep, PTL DEF Spec, WrittenByGrantee

-----------------------------------------------------------------------------
(***************************************************************************)
(* A rerun of the migration.                                               *)
(***************************************************************************)

\* What a run found when it started still exists, and the row it is working on
\* is one it inserted itself.
RunOK ==
  /\ \A c \in mig.present : Exists(c)
  /\ mig.pc \in {"owner", "stats"} => mig.code \notin mig.present
  /\ mig.pc = "off" => mig.present = {}

\* A step of the migration itself, and what it leaves alone.
LEMMA MigrateStep ==
  ASSUME TypeInv, RunOK, [Next]_vars
  PROVE  RunOK' /\ (mig' # mig =>
           \A c \in mig.present :
             url'[c] = url[c] /\ grants'[c] = grants[c] /\ daily'[c] = daily[c])
<1> USE DEF TypeInv
<1> DEFINE Left == \A c \in mig.present :
                     url'[c] = url[c] /\ grants'[c] = grants[c] /\ daily'[c] = daily[c]
<1>1. \A c \in mig.present : c \in Codes /\ Exists(c) /\ Exists(c)'
  BY RowsStay DEF StateOK, Positions, RunOK, RowsKept
<1>2. CASE mig' = mig
  BY <1>1, <1>2 DEF RunOK
<1>3. CASE StartRun
  <2>1. mig'.pc = "next" /\ mig'.present = {c \in Codes : Exists(c)} /\ url' = url
    BY <1>3 DEF StartRun, Off, tables
  <2>2. Left
    BY <1>3 DEF StartRun, tables
  <2>3. QED
    BY <2>1, <2>2 DEF RunOK, Exists
<1>4. CASE GrantOwner
  <2>1. /\ mig'.pc \in {"next", "stats"} /\ mig'.present = mig.present
        /\ mig'.pc = "stats" => mig'.code = mig.code
    BY <1>4 DEF GrantOwner, NextRow, StateOK, Positions
  <2>2. mig.code \notin mig.present /\ mig.pc = "owner"
    BY <1>4 DEF GrantOwner, RunOK
  <2>3. \A c \in Codes : c # mig.code => grants'[c] = grants[c]
    BY <1>4 DEF GrantOwner, StateOK
  <2>4. Left
    BY <1>1, <1>4, <2>2, <2>3 DEF GrantOwner
  <2>5. QED
    BY <1>1, <2>1, <2>2, <2>4 DEF RunOK
<1>5. CASE SetClickStatsTotal
  <2>1. mig'.pc = "next" /\ mig'.present = mig.present
    BY <1>5 DEF SetClickStatsTotal, NextRow, StateOK, Positions
  <2>2. mig.code \notin mig.present
    BY <1>5 DEF SetClickStatsTotal, RunOK
  <2>3. \A c \in Codes : c # mig.code => daily'[c] = daily[c]
    BY <1>5 DEF SetClickStatsTotal, StateOK
  <2>4. Left
    BY <1>1, <1>5, <2>2, <2>3 DEF SetClickStatsTotal
  <2>5. QED
    BY <1>1, <2>1, <2>4 DEF RunOK
<1>6. CASE EndRun
  <2>1. mig'.pc = "off" /\ mig'.present = {}
    BY <1>6 DEF EndRun, Off
  <2>2. Left
    BY <1>6 DEF EndRun, tables
  <2>3. QED
    BY <2>1, <2>2 DEF RunOK
<1>7. ASSUME NEW c \in Rows, ImportRow(c) PROVE RunOK' /\ Left
  <2>1. c \in Codes
    BY ShortUrlsAssumption
  <2>2. /\ mig'.present = mig.present /\ mig'.pc \in {"next", "owner"}
        /\ mig'.pc = "owner" => mig'.code = c /\ ~Exists(c)
    BY <1>7 DEF ImportRow, StateOK, Positions
  <2>3. \A d \in Codes : Exists(d) => url'[d] = url[d]
    BY <1>7, <2>1 DEF ImportRow, StateOK
  <2>4. Left
    BY <1>1, <1>7, <2>3 DEF ImportRow
  <2>5. c \in mig.present => Exists(c)
    BY <1>1
  <2>6. QED
    BY <1>1, <2>2, <2>4, <2>5 DEF RunOK
<1>8. Migrate \/ mig' = mig
  <2>1. ASSUME NEW q \in Requests, Arrive(q) PROVE mig' = mig
    BY <2>1 DEF Arrive, BeginCreate, BeginEdit, BeginDisable, BeginGrant, BeginRevoke, Accept
  <2>2. ASSUME NEW q \in Requests, Continue(q) PROVE mig' = mig
    BY <2>2 DEF Continue, TryCode, Edit, Disable, Grant, FindTarget, CheckOrphan, Revoke, Abort
  <2>3. QED
    BY <2>1, <2>2 DEF Next, Act, CreateAlias, Click, vars
<1>9. QED
  BY <1>2, <1>3, <1>4, <1>5, <1>6, <1>7, <1>8 DEF Migrate

\* A run of the migration, also one after a run that died anywhere, leaves the
\* rows, grants and counts alone that were there when it started.
THEOREM RerunsAreSafe == Spec => RerunIsSafe
<1>1. Init => RunOK
  BY DEF Init, Off, RunOK
<1>2. TypeInv /\ RunOK /\ [Next]_vars => RunOK'
  BY MigrateStep
<1>3. TypeInv /\ RunOK /\ [Next]_vars
        => [mig' # mig =>
              \A c \in mig.present :
                url'[c] = url[c] /\ grants'[c] = grants[c] /\ daily'[c] = daily[c]]_vars
  BY MigrateStep
<1>4. QED
  BY <1>1, <1>2, <1>3, InitTypeInv, TypeStep, PTL DEF Spec, RerunIsSafe
=============================================================================
