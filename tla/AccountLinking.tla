--------------------------- MODULE AccountLinking ---------------------------
(***************************************************************************)
(* Whose account a login belongs to: internal/auth's Resolver, the local   *)
(* sign-up in front of it and the handlers of cmd/api that call them.       *)
(*                                                                         *)
(* Every step of a request is one statement: the decision that a statement *)
(* prepares is taken in the next one, with other requests in between.  A   *)
(* request may end after any of them, on an error, a cancelled context or  *)
(* the death of the process; nothing is rolled back.                       *)
(*                                                                         *)
(* users.email is unique and is never changed, and users are never deleted,*)
(* so an account is its e-mail address, and the email_at_link of an        *)
(* identity, which is always its account's address, is its user.  Audit    *)
(* entries and last_used_at are not modelled: a failing audit statement is *)
(* a request that ends there.  Single sign-on is in module SingleSignOn.   *)
(***************************************************************************)
EXTENDS Naturals, Sequences, FiniteSets

CONSTANTS
  Emails,      \* addresses, and the accounts with them
  Configs,     \* ids of IdP configurations
  Subjects,    \* what IdPs call their users
  Local,       \* the provider of a local identity
  Requests,    \* request goroutines of cmd/api
  Admins,      \* request goroutines of administrators
  Patches,     \* what administrators PATCH: functions from some settings
  None,        \* nothing
  MaxArrivals  \* bound: requests that arrive, administrators' included

ASSUME LinkingAssumption ==
  /\ Local \notin Configs
  /\ None \notin Emails \cup Configs \cup Subjects
  /\ MaxArrivals \in Nat

Settings == {"local", "signup", "confirm", "reauth"}

ASSUME PatchesAssumption ==
  \A p \in Patches : DOMAIN p \subseteq Settings /\ \A f \in DOMAIN p : p[f] \in BOOLEAN

VARIABLES
  users,      \* users: the accounts there are
  identities, \* auth_identities, with how each came about
  links,      \* pending_link_requests, in order of creation
  signups,    \* local_signup_verifications, in order of creation
  creds,      \* the accounts with a row in local_credentials
  signedIn,   \* the accounts somebody has a session for
  settings,   \* auth_settings
  req,        \* what each request is doing
  adm,        \* what each administrator's request is doing
  asked,      \* history: each setting as the last PATCH of it asked
  overlapped, \* history: two PATCHes have been under way at once
  lax,        \* history: re-authentication has been switched off
  arrived     \* requests so far

tables  == <<users, identities, links, signups, creds, signedIn>>
history == <<asked, overlapped, lax>>
admin   == <<settings, adm, history>>
linking == <<tables, req, admin, arrived>>

\* provider_type and provider_config_id are one: a configuration has one type.
Key(p, s) == [provider |-> p, subject |-> s]

Keys == {Key(Local, e) : e \in Emails} \cup {Key(c, s) : c \in Configs, s \in Subjects}

Idle == [pc |-> "idle", from |-> None, key |-> None, email |-> None, trusted |-> FALSE,
         via |-> None, doc |-> None, link |-> None, claimed |-> FALSE]

Off == [pc |-> "off", config |-> None, patch |-> None, read |-> None]

\* The accounts in use when the model starts have signed up with a password
\* and are signed in; the settings are the default ones, with self-sign-up
\* opened.
LinkingInit ==
  /\ \E members \in SUBSET Emails :
       /\ IsFiniteSet(members)
       /\ users = members
       /\ creds = members
       /\ signedIn = members
       /\ identities = {[key |-> Key(Local, e), user |-> e, via |-> "new", claimed |-> FALSE] :
                          e \in members}
  /\ links = <<>>
  /\ signups = <<>>
  /\ settings = [f \in Settings |-> TRUE]
  /\ asked = settings
  /\ req = [q \in Requests |-> Idle]
  /\ adm = [a \in Admins |-> Off]
  /\ overlapped = FALSE
  /\ lax = FALSE
  /\ arrived = 0

Goto(q, pc) == req' = [req EXCEPT ![q].pc = pc]

Done(q) == req' = [req EXCEPT ![q] = Idle]

\* A request arrives at a goroutine that is free.
Accept(q, r) ==
  /\ req[q] = Idle /\ arrived < MaxArrivals
  /\ req' = [req EXCEPT ![q] = r]
  /\ arrived' = arrived + 1

-----------------------------------------------------------------------------
(* internal/storage: the statements.                                       *)

FindAuthIdentity(k) == {i \in identities : i.key = k}

FindUserByEmail(e) == users \cap {e}

CountAuthIdentitiesForUser(u) == Cardinality({i \in identities : i.user = u})

\* Mutant: the row is not committed.
CreateUserUncommitted(e) == e \notin users /\ UNCHANGED users

CreateUser(e) ==
  /\ e \notin users
  /\ users' = users \cup {e}

\* Mutant: the table has no UNIQUE constraint.
CreateAnyIdentity(k, u, via, claimed) ==
  identities' = identities \cup {[key |-> k, user |-> u, via |-> via, claimed |-> claimed]}

\* UNIQUE (provider_type, provider_config_id, subject): the provider_config_id
\* of a local identity is NULL, so the constraint does not apply to it.
CreateAuthIdentity(k, u, via, claimed) ==
  /\ k.provider = Local \/ FindAuthIdentity(k) = {}
  /\ identities' = identities \cup {[key |-> k, user |-> u, via |-> via, claimed |-> claimed]}

CreatePendingLinkRequest(k, u) ==
  links' = Append(links, [key |-> k, user |-> u, mailed |-> "nothing",
                          confirmed |-> FALSE, expired |-> FALSE])

\* The token is only known to who was mailed it.
FindPendingLinkRequestByToken == {l \in DOMAIN links : links[l].mailed = "token"}

FindPendingLinkRequestByID == DOMAIN links

ConfirmPendingLinkRequest(l) == links' = [links EXCEPT ![l].confirmed = TRUE]

CreatePendingSignup(e) ==
  signups' = Append(signups, [email |-> e, mailed |-> FALSE, expired |-> FALSE, stored |-> TRUE])

FindPendingSignup == {i \in DOMAIN signups : signups[i].mailed /\ signups[i].stored}

DeletePendingSignup(i) == signups' = [signups EXCEPT ![i].stored = FALSE]

-----------------------------------------------------------------------------
(* Resolver.Resolve.                                                       *)

\* Mutant: the one identity that an account has is not counted.
CountIdentitiesAboveOne(q) ==
  /\ req[q].pc = "count"
  /\ LET n == CountAuthIdentitiesForUser(req[q].email) IN
     \/ n <= 1 /\ req' = [req EXCEPT ![q].pc = "attach", ![q].via = "first"]
     \/ n > 1 /\ req[q].trusted /\ req' = [req EXCEPT ![q].pc = "attach", ![q].via = "trusted"]
     \/ n > 1 /\ ~req[q].trusted /\ Goto(q, "request")
  /\ UNCHANGED <<tables, admin, arrived>>

\* What a login attempt hands to Resolve; claimed remembers whether the
\* account of its address had an identity at that moment.
Attempt(from, k, e, trusted, doc) ==
  [Idle EXCEPT !.pc = "find", !.from = from, !.key = k, !.email = e, !.trusted = trusted,
               !.doc = doc, !.claimed = CountAuthIdentitiesForUser(e) > 0]

\* Where a caller of Resolve goes on with the account.
Resolved(q) == IF req[q].from = "sso" THEN "session" ELSE "password"

\* FindAuthIdentity: an identity with another address than the attempt's is
\* sent to confirmation by its own account.
FindIdentity(q) ==
  /\ req[q].pc = "find"
  /\ \/ /\ FindAuthIdentity(req[q].key) = {}
        /\ Goto(q, "lookup")
     \/ \E i \in FindAuthIdentity(req[q].key) :
          \/ i.user = req[q].email /\ Goto(q, Resolved(q))
          \/ /\ i.user # req[q].email
             /\ req' = [req EXCEPT ![q].pc = "request", ![q].email = i.user]
  /\ UNCHANGED <<tables, admin, arrived>>

LookupUser(q) ==
  /\ req[q].pc = "lookup"
  /\ Goto(q, IF FindUserByEmail(req[q].email) = {} THEN "create" ELSE "count")
  /\ UNCHANGED <<tables, admin, arrived>>

CreateAccount(q) ==
  /\ req[q].pc = "create"
  /\ CreateUser(req[q].email)
  /\ req' = [req EXCEPT ![q].pc = "attach", ![q].via = "new"]
  /\ UNCHANGED <<identities, links, signups, creds, signedIn, admin, arrived>>

\* An account without identities is a placeholder that nobody has logged in
\* to; one with some is joined by trusted providers only.
CountIdentities(q) ==
  /\ req[q].pc = "count"
  /\ LET n == CountAuthIdentitiesForUser(req[q].email) IN
     \/ n = 0 /\ req' = [req EXCEPT ![q].pc = "attach", ![q].via = "first"]
     \/ n > 0 /\ req[q].trusted /\ req' = [req EXCEPT ![q].pc = "attach", ![q].via = "trusted"]
     \/ n > 0 /\ ~req[q].trusted /\ Goto(q, "request")
  /\ UNCHANGED <<tables, admin, arrived>>

AttachIdentity(q) ==
  /\ req[q].pc = "attach"
  /\ CreateAuthIdentity(req[q].key, req[q].email, req[q].via, req[q].claimed)
  /\ Goto(q, Resolved(q))
  /\ UNCHANGED <<users, links, signups, creds, signedIn, admin, arrived>>

\* requestConfirmation, up to the row.
RequestConfirmation(q) ==
  /\ req[q].pc = "request"
  /\ CreatePendingLinkRequest(req[q].key, req[q].email)
  /\ req' = [req EXCEPT ![q].pc = "notify", ![q].link = Len(links) + 1]
  /\ UNCHANGED <<users, identities, signups, creds, signedIn, admin, arrived>>

\* Mutant: the mail is chosen without asking for the setting.
NotifyWithToken(q) ==
  /\ req[q].pc = "notify"
  /\ links' = [links EXCEPT ![req[q].link].mailed = "token"]
  /\ IF req[q].from = "verify" THEN Goto(q, "dismiss") ELSE Done(q)
  /\ UNCHANGED <<users, identities, signups, creds, signedIn, admin, arrived>>

\* requestConfirmation, the mail: what it carries depends on the setting.
Notify(q) ==
  /\ req[q].pc = "notify"
  /\ links' = [links EXCEPT ![req[q].link].mailed =
                 IF settings["reauth"] THEN "notice" ELSE "token"]
  /\ IF req[q].from = "verify" THEN Goto(q, "dismiss") ELSE Done(q)
  /\ UNCHANGED <<users, identities, signups, creds, signedIn, admin, arrived>>

-----------------------------------------------------------------------------
(* Local sign-up, and what the callers of Resolve do with its result.      *)

\* LocalSignup.Start.
Start(confirm, e) ==
  IF confirm THEN [Idle EXCEPT !.pc = "store", !.email = e]
  ELSE Attempt("signup", Key(Local, e), e, FALSE, None)

\* handleLocalSignup reads the settings once.
BeginSignup(q, e) ==
  /\ settings["local"] /\ settings["signup"]
  /\ Accept(q, Start(settings["confirm"], e))
  /\ UNCHANGED <<tables, admin>>

StoreSignup(q) ==
  /\ req[q].pc = "store"
  /\ CreatePendingSignup(req[q].email)
  /\ req' = [req EXCEPT ![q].pc = "mail", ![q].doc = Len(signups) + 1]
  /\ UNCHANGED <<users, identities, links, creds, signedIn, admin, arrived>>

MailSignup(q) ==
  /\ req[q].pc = "mail"
  /\ signups' = [signups EXCEPT ![req[q].doc].mailed = TRUE]
  /\ Done(q)
  /\ UNCHANGED <<users, identities, links, creds, signedIn, admin, arrived>>

\* Mutant: the record is consumed when it is found.
BeginVerifyConsumes(q, i) ==
  /\ i \in FindPendingSignup /\ ~signups[i].expired
  /\ LET e == signups[i].email IN Accept(q, Attempt("verify", Key(Local, e), e, FALSE, i))
  /\ DeletePendingSignup(i)
  /\ UNCHANGED <<users, identities, links, creds, signedIn, admin>>

\* handleVerifyEmail, with the link of the i-th sign-up.
BeginVerify(q, i) ==
  /\ i \in FindPendingSignup /\ ~signups[i].expired
  /\ LET e == signups[i].email IN Accept(q, Attempt("verify", Key(Local, e), e, FALSE, i))
  /\ UNCHANGED <<tables, admin>>

\* resolveAndAttach: the password goes with the account that Resolve found.
SetPassword(q) ==
  /\ req[q].pc = "password"
  /\ creds' = creds \cup {req[q].email}
  /\ Goto(q, IF req[q].from = "verify" THEN "forget" ELSE "session")
  /\ UNCHANGED <<users, identities, links, signups, signedIn, admin, arrived>>

\* VerifyEmail deletes the record last, whether the account is open or waits
\* for a confirmation.
Forget(q) ==
  /\ \/ req[q].pc = "forget" /\ Goto(q, "session")
     \/ req[q].pc = "dismiss" /\ Done(q)
  /\ DeletePendingSignup(req[q].doc)
  /\ UNCHANGED <<users, identities, links, creds, signedIn, admin, arrived>>

\* The handler opens a session for the account and ends.
OpenSession(q) ==
  /\ req[q].pc = "session"
  /\ signedIn' = signedIn \cup {req[q].email}
  /\ Done(q)
  /\ UNCHANGED <<users, identities, links, signups, creds, admin, arrived>>

\* handleSetPassword.
SetOwnPassword(u) ==
  /\ u \in signedIn \ creds
  /\ creds' = creds \cup {u}
  /\ UNCHANGED <<users, identities, links, signups, signedIn, req, admin, arrived>>

-----------------------------------------------------------------------------
(* Pending links.                                                          *)

\* Mutant: the handler's caller is not compared with the request's account.
CanApproveAny(l, u) == u \in signedIn /\ ~links[l].confirmed /\ ~links[l].expired

\* ApprovePendingLink up to its statements.
CanApprove(l, u) ==
  /\ u \in signedIn
  /\ links[l].user = u /\ ~links[l].confirmed /\ ~links[l].expired

\* ConfirmPendingLink up to its statements: neither asks what the setting is
\* by now, or whether the configuration is still there.
CanConfirm(l) == ~links[l].confirmed /\ ~links[l].expired

\* A pending link that becomes an identity of u.
Linking(l, u, from) ==
  [Idle EXCEPT !.pc = "link", !.from = from, !.key = links[l].key, !.email = u, !.link = l]

\* handleConfirmLink, with the token of the l-th link.
BeginConfirm(q, l) ==
  /\ l \in FindPendingLinkRequestByToken /\ CanConfirm(l)
  /\ Accept(q, Linking(l, links[l].user, "mail"))
  /\ UNCHANGED <<tables, admin>>

\* handleApprovePendingLink, by somebody signed in to u.
BeginApprove(q, l, u) ==
  /\ l \in FindPendingLinkRequestByID /\ CanApprove(l, u)
  /\ Accept(q, Linking(l, u, "approved"))
  /\ UNCHANGED <<tables, admin>>

\* Mutant: the request is marked before there is an identity.
LinkAfterMark(q) ==
  /\ req[q].pc = "link"
  /\ ConfirmPendingLinkRequest(req[q].link)
  /\ Goto(q, "mark")
  /\ UNCHANGED <<users, identities, signups, creds, signedIn, admin, arrived>>

LinkIdentity(q) ==
  /\ req[q].pc = "link"
  /\ CreateAuthIdentity(req[q].key, req[q].email, req[q].from, FALSE)
  /\ Goto(q, "mark")
  /\ UNCHANGED <<users, links, signups, creds, signedIn, admin, arrived>>

\* The update does not look at confirmed_at again; only the mailed link
\* opens a session.
MarkConfirmed(q) ==
  /\ req[q].pc = "mark"
  /\ ConfirmPendingLinkRequest(req[q].link)
  /\ IF req[q].from = "mail" THEN Goto(q, "session") ELSE Done(q)
  /\ UNCHANGED <<users, identities, signups, creds, signedIn, admin, arrived>>

-----------------------------------------------------------------------------
(* Placeholders, the settings, time and failures.                          *)

\* handleGrantURLPermission invites an address that nobody has used; the
\* migration's findOrCreateUser does the same.
InviteUser(e) ==
  /\ CreateUser(e)
  /\ UNCHANGED <<identities, links, signups, creds, signedIn, req, admin, arrived>>

\* An administrator's request arrives.
Order(a, o) ==
  /\ adm[a] = Off /\ arrived < MaxArrivals
  /\ adm' = [adm EXCEPT ![a] = o]
  /\ arrived' = arrived + 1

\* handlePatchAuthSettings reads the row.
BeginPatch(a, p) ==
  /\ Order(a, [Off EXCEPT !.pc = "patch", !.patch = p, !.read = settings])
  /\ overlapped' = (overlapped \/ \E b \in Admins : adm[b].pc = "patch")
  /\ UNCHANGED <<tables, settings, req, asked, lax>>

Merge(p, row) == [f \in Settings |-> IF f \in DOMAIN p THEN p[f] ELSE row[f]]

\* Mutant: fields that the request leaves out are written as the defaults.
WritePatchOverDefaults(a) ==
  /\ adm[a].pc = "patch"
  /\ settings' = Merge(adm[a].patch, [f \in Settings |-> f # "signup"])
  /\ asked' = Merge(adm[a].patch, asked)
  /\ lax' = (lax \/ ~settings'["reauth"])
  /\ adm' = [adm EXCEPT ![a] = Off]
  /\ UNCHANGED <<tables, req, overlapped, arrived>>

\* It merges its fields into what it read and writes the whole row.
WritePatch(a) ==
  /\ adm[a].pc = "patch"
  /\ settings' = Merge(adm[a].patch, adm[a].read)
  /\ asked' = Merge(adm[a].patch, asked)
  /\ lax' = (lax \/ ~settings'["reauth"])
  /\ adm' = [adm EXCEPT ![a] = Off]
  /\ UNCHANGED <<tables, req, overlapped, arrived>>

\* Links and verification records run out; it matters while they can be used.
ExpireLink(l) ==
  /\ links[l].mailed # "nothing" /\ CanConfirm(l)
  /\ links' = [links EXCEPT ![l].expired = TRUE]
  /\ UNCHANGED <<users, identities, signups, creds, signedIn, req, admin, arrived>>

ExpireSignup(i) ==
  /\ i \in FindPendingSignup /\ ~signups[i].expired
  /\ signups' = [signups EXCEPT ![i].expired = TRUE]
  /\ UNCHANGED <<users, identities, links, creds, signedIn, req, admin, arrived>>

\* A statement fails, the client goes away or the process dies.
Abort(q) ==
  /\ req[q] # Idle
  /\ Done(q)
  /\ UNCHANGED <<tables, admin, arrived>>

AbortOrder(a) ==
  /\ adm[a] # Off
  /\ adm' = [adm EXCEPT ![a] = Off]
  /\ UNCHANGED <<tables, settings, req, history, arrived>>

-----------------------------------------------------------------------------
SignupArrives(q) ==
  \/ \E e \in Emails : BeginSignup(q, e)
  \/ \E i \in DOMAIN signups : BeginVerify(q, i)

LinkArrives(q) ==
  \E l \in DOMAIN links : BeginConfirm(q, l) \/ \E u \in users : BeginApprove(q, l, u)

Resolve(q) ==
  \/ FindIdentity(q) \/ LookupUser(q) \/ CreateAccount(q) \/ CountIdentities(q)
  \/ AttachIdentity(q) \/ RequestConfirmation(q) \/ Notify(q)

Finish(q) ==
  \/ StoreSignup(q) \/ MailSignup(q)
  \/ SetPassword(q) \/ Forget(q) \/ OpenSession(q)
  \/ LinkIdentity(q) \/ MarkConfirmed(q)

Settle(a) ==
  \/ \E p \in Patches : BeginPatch(a, p)
  \/ WritePatch(a)

Elsewhere ==
  \/ \E e \in Emails : InviteUser(e) \/ SetOwnPassword(e)
  \/ \E l \in DOMAIN links : ExpireLink(l)
  \/ \E i \in DOMAIN signups : ExpireSignup(i)

LinkingNext ==
  \/ \E q \in Requests : SignupArrives(q) \/ LinkArrives(q) \/ Resolve(q) \/ Finish(q) \/ Abort(q)
  \/ \E a \in Admins : Settle(a) \/ AbortOrder(a)
  \/ Elsewhere

-----------------------------------------------------------------------------
(* Properties.                                                             *)

Vias == {"new", "first", "trusted", "mail", "approved"}

IdentityRows == [key : Keys, user : Emails, via : Vias, claimed : BOOLEAN]

LinkRows ==
  [key : Keys, user : Emails, mailed : {"nothing", "notice", "token"}, confirmed : BOOLEAN,
   expired : BOOLEAN]

SignupRows == [email : Emails, mailed : BOOLEAN, expired : BOOLEAN, stored : BOOLEAN]

\* A login goes to one account: whatever first logins, confirmations and
\* approvals race, no two accounts have an identity with the same provider and
\* subject, also where the UNIQUE constraint is void because of a NULL.
OneAccountPerKey ==
  \A i, j \in identities : i.key = j.key => i.user = j.user

\* Resolve's policy: an untrusted provider joins an account without asking its
\* owner only while the account has nobody; a login that began when the account
\* had an identity never does, however the count and the insert interleave.
ClaimedIsAsked ==
  \A i \in identities : i.via \in {"new", "first"} => ~i.claimed

\* An identity that came by a confirmation was asked for of that very account,
\* by a mail with a token or to somebody signed in to it.
ConsentGiven ==
  \A i \in identities : i.via \in {"mail", "approved"} =>
    \E l \in DOMAIN links :
      /\ links[l].key = i.key /\ links[l].user = i.user
      /\ i.via = "mail" => links[l].mailed = "token"
      /\ i.via = "approved" => i.user \in signedIn

\* While the administrators have required re-authentication all along, no mail
\* alone links anything, whatever was pending when.
StrictMeansApproved ==
  ~lax => \A i \in identities : i.via # "mail"

\* A pending link that is marked as confirmed has its identity, on its account,
\* whichever statement failed after which.
ConfirmedIsLinked ==
  \A l \in DOMAIN links : links[l].confirmed =>
    \E i \in identities : i.key = links[l].key /\ i.user = links[l].user

\* While no two PATCHes overlap, every setting is what it was last set to: the
\* read and the write of one handler lose nothing of an earlier one.
SettingsAsAsked == ~overlapped => settings = asked

\* A verification record, and the only copy of the password in it, goes away
\* only when the account has a password or its owner has been asked.
SignupNotLost ==
  [][\A i \in DOMAIN signups :
       signups[i].stored /\ ~signups'[i].stored =>
         \/ signups[i].email \in creds
         \/ \E l \in DOMAIN links : links[l].key = Key(Local, signups[i].email)]_linking
=============================================================================
