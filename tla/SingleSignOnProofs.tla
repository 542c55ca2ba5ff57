------------------------- MODULE SingleSignOnProofs --------------------------
(***************************************************************************)
(* Theorems about SingleSignOn and the account linking in it, for any      *)
(* accounts, providers, requests, administrators and flows.                *)
(*                                                                         *)
(* SingleSignOnHandlers shows what a handler knows at each of its steps;   *)
(* here follows what its statements then make of the tables.               *)
(***************************************************************************)
EXTENDS SingleSignOnHandlers

-----------------------------------------------------------------------------
(***************************************************************************)
(* The inductive invariants.                                               *)
(***************************************************************************)

\* While re-authentication has been required all along it is required now, and
\* no mail has carried a token.
StrictInv ==
  ~lax =>
    /\ settings["reauth"]
    /\ \A l \in DOMAIN links : links[l].mailed # "token"
    /\ \A i \in identities : i.via # "mail"

\* While no two PATCHes have overlapped, at most one is under way, and what it
\* has read is still in the row.
PatchInv ==
  ~overlapped =>
    /\ settings = asked
    /\ \A a \in Admins : adm[a].pc = "patch" =>
         /\ adm[a].read = settings
         /\ \A b \in Admins : adm[b].pc = "patch" => b = a

\* A request that got the record of a flow got it alone, and before any answer
\* to the flow was taken.
Taken == {"assertion", "exchange"}

Begun(f) == flows[f].config # None

FlowInv ==
  /\ \A f \in Flows :
       /\ flows[f].answers <= 1
       /\ flows[f].pending => Begun(f)
       /\ flows[f].pending \/ ~Begun(f) => flows[f].answers = 0
       /\ flows[f] # NoFlow => Begun(f)
  /\ \A q \in Requests : req[q].pc \in Trip => Begun(req[q].doc)
  /\ \A q \in Requests : req[q].pc \in Taken =>
       /\ ~flows[req[q].doc].pending /\ flows[req[q].doc].answers = 0
       /\ \A p \in Requests : req[p].pc \in Taken /\ req[p].doc = req[q].doc => p = q

\* No identity is left of a configuration whose deletion is past its count, but
\* for those that came late.
DeleteInv ==
  \A i \in identities \ late :
    i.key.provider # Local =>
      /\ configs[i.key.provider] # Deleted
      /\ \A a \in Admins : adm[a].pc = "delete" => adm[a].config # i.key.provider

-----------------------------------------------------------------------------
(***************************************************************************)
(* Who writes which table.                                                 *)
(***************************************************************************)

LEMMA IdentitiesStep ==
  ASSUME [Next]_vars
  PROVE  \/ UNCHANGED identities
         \/ \E q \in Requests : AttachIdentity(q) \/ LinkIdentity(q)
<1> USE DEF linking, tables
<1>1. CASE LinkingNext
  <2>1. ASSUME NEW q \in Requests, SignupArrives(q) \/ LinkArrives(q) PROVE UNCHANGED identities
    BY <2>1 DEF SignupArrives, LinkArrives, BeginSignup, BeginVerify, BeginConfirm, BeginApprove
  <2>2. ASSUME NEW q \in Requests, Resolve(q), ~AttachIdentity(q) PROVE UNCHANGED identities
    BY <2>2 DEF Resolve, FindIdentity, LookupUser, CreateAccount, CountIdentities,
                RequestConfirmation, Notify
  <2>3. ASSUME NEW q \in Requests, Finish(q) \/ Abort(q), ~LinkIdentity(q)
        PROVE  UNCHANGED identities
    BY <2>3 DEF Finish, StoreSignup, MailSignup, SetPassword, Forget, OpenSession, MarkConfirmed,
                Abort
  <2>4. ASSUME NEW a \in Admins, Settle(a) \/ AbortOrder(a) PROVE UNCHANGED identities
    BY <2>4 DEF Settle, BeginPatch, WritePatch, AbortOrder
  <2>5. CASE Elsewhere
    BY <2>5 DEF Elsewhere, InviteUser, SetOwnPassword, ExpireLink, ExpireSignup
  <2> QED BY <1>1, <2>1, <2>2, <2>3, <2>4, <2>5 DEF LinkingNext
<1>2. CASE SAMLStep
  BY <1>2 DEF SAMLStep, BeginSAMLLogin, HandleACS, ConsumeRequest, MarkAssertionSeen
<1>3. CASE OIDCStep
  BY <1>3 DEF OIDCStep, BeginOIDCLogin, HandleCallback, ConsumeState, Exchange
<1>4. CASE ConfigStep
  BY <1>4 DEF ConfigStep, CreateSAMLConfig, UpdateSAMLConfig, CreateOIDCConfig, UpdateOIDCConfig,
              BeginDelete, DeleteSAMLConfig, DeleteOIDCConfig
<1> QED
  BY <1>1, <1>2, <1>3, <1>4 DEF Next, vars

LEMMA LinksStep ==
  ASSUME [Next]_vars
  PROVE  \/ UNCHANGED links
         \/ \E q \in Requests : RequestConfirmation(q) \/ Notify(q) \/ MarkConfirmed(q)
         \/ \E l \in DOMAIN links : ExpireLink(l)
<1> USE DEF linking, tables
<1>1. CASE LinkingNext
  <2>1. ASSUME NEW q \in Requests, SignupArrives(q) \/ LinkArrives(q) PROVE UNCHANGED links
    BY <2>1 DEF SignupArrives, LinkArrives, BeginSignup, BeginVerify, BeginConfirm, BeginApprove
  <2>2. ASSUME NEW q \in Requests, Resolve(q), ~RequestConfirmation(q), ~Notify(q)
        PROVE  UNCHANGED links
    BY <2>2 DEF Resolve, FindIdentity, LookupUser, CreateAccount, CountIdentities, AttachIdentity
  <2>3. ASSUME NEW q \in Requests, Finish(q) \/ Abort(q), ~MarkConfirmed(q) PROVE UNCHANGED links
    BY <2>3 DEF Finish, StoreSignup, MailSignup, SetPassword, Forget, OpenSession, LinkIdentity,
                Abort
  <2>4. ASSUME NEW a \in Admins, Settle(a) \/ AbortOrder(a) PROVE UNCHANGED links
    BY <2>4 DEF Settle, BeginPatch, WritePatch, AbortOrder
  <2>5. ASSUME Elsewhere PROVE UNCHANGED links \/ \E l \in DOMAIN links : ExpireLink(l)
    BY <2>5 DEF Elsewhere, InviteUser, SetOwnPassword, ExpireSignup
  <2> QED BY <1>1, <2>1, <2>2, <2>3, <2>4, <2>5 DEF LinkingNext
<1>2. CASE SAMLStep
  BY <1>2 DEF SAMLStep, BeginSAMLLogin, HandleACS, ConsumeRequest, MarkAssertionSeen
<1>3. CASE OIDCStep
  BY <1>3 DEF OIDCStep, BeginOIDCLogin, HandleCallback, ConsumeState, Exchange
<1>4. CASE ConfigStep
  BY <1>4 DEF ConfigStep, CreateSAMLConfig, UpdateSAMLConfig, CreateOIDCConfig, UpdateOIDCConfig,
              BeginDelete, DeleteSAMLConfig, DeleteOIDCConfig
<1> QED
  BY <1>1, <1>2, <1>3, <1>4 DEF Next, vars

\* An identity that a login has brought, and one that a confirmation has.
LEMMA Attached ==
  ASSUME TypeInv, NEW q \in Requests, AttachIdentity(q)
  PROVE  \E new :
           /\ identities' = identities \cup {new} /\ new.key = req[q].key
           /\ new.user = req[q].email /\ new.via = req[q].via /\ new.claimed = req[q].claimed
           /\ Own(new.key, new.user) /\ new.via \in {"new", "first", "trusted"}
           /\ new.claimed => new.via = "trusted"
           /\ new.key.provider = Local \/ \A i \in identities : i.key # new.key
<1>1. PICK s : s = req[q]
  OBVIOUS
<1>2. s.pc = "attach" /\ Carries(s)
  BY <1>1 DEF TypeInv, Inv, HandlersOK, AttachIdentity
<1>3. CreateAuthIdentity(s.key, s.email, s.via, s.claimed)
  BY <1>1 DEF AttachIdentity
<1>4. /\ s.via \in {"new", "first", "trusted"} /\ Own(s.key, s.email)
      /\ s.claimed => s.via = "trusted"
  BY <1>2 DEF Carries, Named, Resolving
<1>5. PICK new : new = [key |-> s.key, user |-> s.email, via |-> s.via, claimed |-> s.claimed]
  OBVIOUS
<1>6. identities' = identities \cup {new}
  BY <1>3, <1>5 DEF CreateAuthIdentity
<1>7. new.key = s.key /\ new.user = s.email /\ new.via = s.via /\ new.claimed = s.claimed
  BY <1>5
<1>8. s.key.provider = Local \/ \A i \in identities : i.key # s.key
  BY <1>3 DEF CreateAuthIdentity, FindAuthIdentity
<1> QED
  BY <1>1, <1>4, <1>6, <1>7, <1>8

LEMMA Linked ==
  ASSUME TypeInv, NEW q \in Requests, LinkIdentity(q)
  PROVE  \E new :
           /\ identities' = identities \cup {new} /\ new.key = req[q].key
           /\ new.user = req[q].email /\ new.via = req[q].from /\ ~new.claimed
           /\ Own(new.key, new.user) /\ new.via \in {"mail", "approved"}
           /\ new.key.provider = Local \/ \A i \in identities : i.key # new.key
<1>1. PICK s : s = req[q]
  OBVIOUS
<1>2. s.pc = "link" /\ Carries(s)
  BY <1>1 DEF TypeInv, Inv, HandlersOK, LinkIdentity
<1>3. CreateAuthIdentity(s.key, s.email, s.from, FALSE)
  BY <1>1 DEF LinkIdentity
<1>4. s.from \in {"mail", "approved"} /\ Own(s.key, s.email)
  BY <1>2 DEF Carries, Named, Confirming
<1>5. PICK new : new = [key |-> s.key, user |-> s.email, via |-> s.from, claimed |-> FALSE]
  OBVIOUS
<1>6. identities' = identities \cup {new}
  BY <1>3, <1>5 DEF CreateAuthIdentity
<1>7. new.key = s.key /\ new.user = s.email /\ new.via = s.from /\ ~new.claimed
  BY <1>5
<1>8. s.key.provider = Local \/ \A i \in identities : i.key # s.key
  BY <1>3 DEF CreateAuthIdentity, FindAuthIdentity
<1> QED
  BY <1>1, <1>4, <1>6, <1>7, <1>8

\* In sum: at most one identity is new, it is an account's own if it is local,
\* and the only one with its key if it is not.
LEMMA NewIdentity ==
  ASSUME TypeInv, [Next]_vars
  PROVE  \/ UNCHANGED identities
         \/ \E new :
              /\ identities' = identities \cup {new} /\ Own(new.key, new.user)
              /\ new.claimed => new.via \notin {"new", "first"}
              /\ new.key.provider = Local \/ \A i \in identities : i.key # new.key
  BY IdentitiesStep, Attached, Linked

-----------------------------------------------------------------------------
(***************************************************************************)
(* Whose account a login belongs to.                                       *)
(***************************************************************************)

\* No two accounts share a provider and subject.  The UNIQUE constraint says
\* so of external identities; local ones, where it is void, are their own
\* account's by construction of their subject, through every confirmation.
THEOREM OneAccount == Spec => []OneAccountPerKey
<1>1. Init => OneAccountPerKey
  <2> SUFFICES ASSUME Init, NEW i \in identities, NEW j \in identities, i.key = j.key
               PROVE  i.user = j.user
    BY DEF OneAccountPerKey
  <2> QED BY DEF Init, LinkingInit, Key
<1>2. TypeInv /\ OneAccountPerKey /\ [Next]_vars => OneAccountPerKey'
  <2> SUFFICES ASSUME TypeInv, OneAccountPerKey, [Next]_vars PROVE OneAccountPerKey'
    OBVIOUS
  <2>1. CASE UNCHANGED identities
    BY <2>1 DEF OneAccountPerKey
  <2>2. ASSUME NEW new, identities' = identities \cup {new}, Own(new.key, new.user),
               new.key.provider = Local \/ \A i \in identities : i.key # new.key
        PROVE  OneAccountPerKey'
    <3>1. \A i \in identities : Own(i.key, i.user)
      BY DEF TypeInv, Inv, IdentitiesOK
    <3>2. \A i \in identities : i.key = new.key => i.user = new.user
      BY <2>2, <3>1 DEF Own
    <3> QED BY <2>2, <3>2 DEF OneAccountPerKey
  <2> QED BY <2>1, <2>2, NewIdentity
<1> QED
  BY <1>1, <1>2, TypeInvariant, PTL DEF Spec

\* A login that began when the account had an identity joins it only as a
\* trusted one: the identity stays, so the later count finds it.
THEOREM ClaimedAccountsAsked == Spec => []ClaimedIsAsked
<1>1. Init => ClaimedIsAsked
  BY DEF Init, LinkingInit, ClaimedIsAsked
<1>2. TypeInv /\ ClaimedIsAsked /\ [Next]_vars => ClaimedIsAsked'
  BY NewIdentity DEF ClaimedIsAsked
<1> QED
  BY <1>1, <1>2, TypeInvariant, PTL DEF Spec

\* Every identity that came by a confirmation has its link, mailed with a token
\* or approved by somebody who is signed in to that account.
THEOREM ConsentAlwaysGiven == Spec => []ConsentGiven
<1>1. Init => ConsentGiven
  BY DEF Init, LinkingInit, ConsentGiven
<1>2. TypeInv /\ ConsentGiven /\ [Next]_vars => ConsentGiven'
  <2> SUFFICES ASSUME TypeInv, ConsentGiven, [Next]_vars, NEW i \in identities',
                      i.via \in {"mail", "approved"}
               PROVE  \E l \in DOMAIN links' :
                        /\ links'[l].key = i.key /\ links'[l].user = i.user
                        /\ i.via = "mail" => links'[l].mailed = "token"
                        /\ i.via = "approved" => i.user \in signedIn'
    BY DEF ConsentGiven
  <2>1. Grows
    BY TypeInvStep
  <2>2. ASSUME NEW l \in DOMAIN links, links[l].key = i.key, links[l].user = i.user,
               i.via = "mail" => links[l].mailed = "token",
               i.via = "approved" => i.user \in signedIn
        PROVE  /\ l \in DOMAIN links' /\ links'[l].key = i.key /\ links'[l].user = i.user
               /\ i.via = "mail" => links'[l].mailed = "token"
               /\ i.via = "approved" => i.user \in signedIn'
    BY <2>1, <2>2 DEF Grows
  <2>3. CASE i \in identities
    BY <2>2, <2>3 DEF ConsentGiven
  <2>4. CASE i \notin identities
    <3>1. PICK q \in Requests : AttachIdentity(q) \/ LinkIdentity(q)
      BY <2>4, IdentitiesStep
    <3>2. LinkIdentity(q) /\ i.key = req[q].key /\ i.user = req[q].email /\ i.via = req[q].from
      BY <2>4, <3>1, Attached, Linked
    <3>3. PICK l : l = req[q].link
      OBVIOUS
    <3>4. req[q].pc = "link" /\ Knows(req[q])
      BY <3>2 DEF LinkIdentity, TypeInv, Inv, HandlersOK
    <3>5. /\ l \in DOMAIN links /\ links[l].key = i.key /\ links[l].user = i.user
          /\ i.via = "mail" => links[l].mailed = "token"
          /\ i.via = "approved" => i.user \in signedIn
      BY <3>2, <3>3, <3>4 DEF Knows, Confirming
    <3> QED BY <2>2, <3>5
  <2> QED BY <2>3, <2>4
<1> QED
  BY <1>1, <1>2, TypeInvariant, PTL DEF Spec

\* What becomes of a link in one step: a new one waits for its mail, an old one
\* may be mailed as the settings say, marked by the handler that linked it, or
\* run out.
LEMMA LinkFields ==
  ASSUME TypeInv, [Next]_vars, NEW l \in DOMAIN links'
  PROVE  \/ l \notin DOMAIN links /\ links'[l].mailed = "nothing" /\ ~links'[l].confirmed
         \/ /\ l \in DOMAIN links
            /\ \/ links'[l].mailed = links[l].mailed
               \/ links'[l].mailed = IF settings["reauth"] THEN "notice" ELSE "token"
            /\ \/ links'[l].confirmed = links[l].confirmed
               \/ \E q \in Requests : MarkConfirmed(q) /\ req[q].link = l
<1>1. links \in Seq(LinkRows)
  BY DEF TypeInv, Inv, LinksOK
<1>2. CASE UNCHANGED links
  BY <1>2
<1>3. ASSUME NEW q \in Requests, RequestConfirmation(q)
      PROVE  \/ l \notin DOMAIN links /\ links'[l].mailed = "nothing" /\ ~links'[l].confirmed
             \/ l \in DOMAIN links /\ links'[l] = links[l]
  <2>1. PICK new : new = [key |-> req[q].key, user |-> req[q].email, mailed |-> "nothing",
                          confirmed |-> FALSE, expired |-> FALSE]
    OBVIOUS
  <2>2. links' = Append(links, new) /\ new.mailed = "nothing" /\ ~new.confirmed
    BY <1>3, <2>1 DEF RequestConfirmation, CreatePendingLinkRequest
  <2> QED BY <1>1, <2>2
<1>4. ASSUME NEW q \in Requests, Notify(q)
      PROVE  /\ l \in DOMAIN links /\ links'[l].confirmed = links[l].confirmed
             /\ \/ links'[l].mailed = links[l].mailed
                \/ links'[l].mailed = IF settings["reauth"] THEN "notice" ELSE "token"
  <2>1. PICK m : m = IF settings["reauth"] THEN "notice" ELSE "token"
    OBVIOUS
  <2>2. links' = [links EXCEPT ![req[q].link].mailed = m] /\ l \in DOMAIN links
    BY <1>4, <2>1 DEF Notify
  <2>3. links[l] \in LinkRows
    BY <2>2, LinkRow DEF TypeInv
  <2>4. links'[l] = links[l] \/ links'[l] = [links[l] EXCEPT !.mailed = m]
    BY <2>2
  <2> QED BY <2>1, <2>2, <2>3, <2>4 DEF LinkRows
<1>5. ASSUME NEW q \in Requests, MarkConfirmed(q)
      PROVE  /\ l \in DOMAIN links /\ links'[l].mailed = links[l].mailed
             /\ links'[l].confirmed = links[l].confirmed \/ req[q].link = l
  <2>1. links' = [links EXCEPT ![req[q].link].confirmed = TRUE] /\ l \in DOMAIN links
    BY <1>5 DEF MarkConfirmed, ConfirmPendingLinkRequest
  <2>2. links[l] \in LinkRows
    BY <2>1, LinkRow DEF TypeInv
  <2> QED BY <2>1, <2>2 DEF LinkRows
<1>6. ASSUME NEW m \in DOMAIN links, ExpireLink(m)
      PROVE  /\ l \in DOMAIN links /\ links'[l].mailed = links[l].mailed
             /\ links'[l].confirmed = links[l].confirmed
  <2>1. links' = [links EXCEPT ![m].expired = TRUE] /\ l \in DOMAIN links
    BY <1>6 DEF ExpireLink
  <2>2. links[l] \in LinkRows
    BY <2>1, LinkRow DEF TypeInv
  <2> QED BY <2>1, <2>2 DEF LinkRows
<1> QED
  BY <1>2, <1>3, <1>4, <1>5, <1>6, LinksStep

\* A link that is marked as confirmed has its identity: the handler that marks
\* it has inserted the identity, whatever failed, and identities stay.
THEOREM ConfirmedAreLinked == Spec => []ConfirmedIsLinked
<1>1. Init => ConfirmedIsLinked
  BY DEF Init, LinkingInit, ConfirmedIsLinked
<1>2. TypeInv /\ ConfirmedIsLinked /\ [Next]_vars => ConfirmedIsLinked'
  <2> SUFFICES ASSUME TypeInv, ConfirmedIsLinked, [Next]_vars,
                      NEW l \in DOMAIN links', links'[l].confirmed
               PROVE  \E i \in identities' : i.key = links'[l].key /\ i.user = links'[l].user
    BY DEF ConfirmedIsLinked
  <2>1. Grows
    BY TypeInvStep
  <2>2. l \in DOMAIN links
    BY LinkFields
  <2>3. links'[l].key = links[l].key /\ links'[l].user = links[l].user
    BY <2>1, <2>2 DEF Grows
  <2>4. \E i \in identities : i.key = links[l].key /\ i.user = links[l].user
    <3>1. CASE links[l].confirmed
      BY <2>2, <3>1 DEF ConfirmedIsLinked
    <3>2. CASE ~links[l].confirmed
      <4>1. PICK q \in Requests : MarkConfirmed(q) /\ req[q].link = l
        BY <2>2, <3>2, LinkFields
      <4>2. req[q].pc = "mark" /\ Knows(req[q])
        BY <4>1 DEF MarkConfirmed, TypeInv, Inv, HandlersOK
      <4> QED BY <4>1, <4>2 DEF Knows, Confirming
    <3> QED BY <3>1, <3>2
  <2> QED BY <2>1, <2>3, <2>4 DEF Grows
<1> QED
  BY <1>1, <1>2, TypeInvariant, PTL DEF Spec

-----------------------------------------------------------------------------
(***************************************************************************)
(* The settings.                                                           *)
(***************************************************************************)

\* Only administrators' requests touch the settings and what is said of them.
LEMMA AdminMoves ==
  ASSUME [Next]_vars
  PROVE  \/ UNCHANGED admin
         \/ \E a \in Admins : Settle(a) \/ AbortOrder(a)
         \/ \E a \in Admins : \/ \E c \in Configs : BeginDelete(a, c)
                              \/ DeleteSAMLConfig(a) \/ DeleteOIDCConfig(a)
<1> USE DEF linking
<1>1. CASE LinkingNext
  <2>1. ASSUME NEW q \in Requests, SignupArrives(q) \/ LinkArrives(q) PROVE UNCHANGED admin
    BY <2>1 DEF SignupArrives, LinkArrives, BeginSignup, BeginVerify, BeginConfirm, BeginApprove
  <2>2. ASSUME NEW q \in Requests, Resolve(q) PROVE UNCHANGED admin
    BY <2>2 DEF Resolve, FindIdentity, LookupUser, CreateAccount, CountIdentities, AttachIdentity,
                RequestConfirmation, Notify
  <2>3. ASSUME NEW q \in Requests, Finish(q) \/ Abort(q) PROVE UNCHANGED admin
    BY <2>3 DEF Finish, StoreSignup, MailSignup, SetPassword, Forget, OpenSession, LinkIdentity,
                MarkConfirmed, Abort
  <2>4. CASE Elsewhere
    BY <2>4 DEF Elsewhere, InviteUser, SetOwnPassword, ExpireLink, ExpireSignup
  <2> QED BY <1>1, <2>1, <2>2, <2>3, <2>4 DEF LinkingNext
<1>2. CASE SAMLStep
  BY <1>2 DEF SAMLStep, BeginSAMLLogin, HandleACS, ConsumeRequest, MarkAssertionSeen
<1>3. CASE OIDCStep
  BY <1>3 DEF OIDCStep, BeginOIDCLogin, HandleCallback, ConsumeState, Exchange
<1>4. CASE ConfigStep
  BY <1>4 DEF ConfigStep, CreateSAMLConfig, UpdateSAMLConfig, CreateOIDCConfig, UpdateOIDCConfig
<1> QED
  BY <1>1, <1>2, <1>3, <1>4 DEF Next, vars

LEMMA StrictInvInit == Init => StrictInv
  BY DEF Init, LinkingInit, StrictInv, Settings

LEMMA StrictInvStep == TypeInv /\ StrictInv /\ [Next]_vars => StrictInv'
<1> SUFFICES ASSUME TypeInv, StrictInv, [Next]_vars, ~lax' PROVE StrictInv'
  BY DEF StrictInv
<1>1. ~lax /\ settings'["reauth"]
  <2>1. ASSUME NEW a \in Admins, WritePatch(a) PROVE ~lax /\ settings'["reauth"]
    BY <2>1 DEF WritePatch
  <2>2. CASE UNCHANGED <<settings, lax>>
    BY <2>2 DEF StrictInv
  <2> QED
    BY <2>1, <2>2, AdminMoves
    DEF admin, history, Settle, BeginPatch, AbortOrder, BeginDelete, DeleteSAMLConfig,
        DeleteOIDCConfig
<1>2. settings["reauth"] /\ \A l \in DOMAIN links : links[l].mailed # "token"
  BY <1>1 DEF StrictInv
<1>3. \A l \in DOMAIN links' : links'[l].mailed # "token"
  BY <1>2, LinkFields
<1>4. ASSUME NEW i \in identities' PROVE i.via # "mail"
  <2>1. CASE i \in identities
    BY <1>1, <2>1 DEF StrictInv
  <2>2. CASE i \notin identities
    <3>1. PICK q \in Requests : AttachIdentity(q) \/ LinkIdentity(q)
      BY <2>2, IdentitiesStep
    <3>2. CASE AttachIdentity(q)
      BY <2>2, <3>2, Attached
    <3>3. CASE LinkIdentity(q)
      <4>1. i.via = req[q].from
        BY <2>2, <3>3, Linked
      <4>2. req[q].pc = "link" /\ Knows(req[q])
        BY <3>3 DEF LinkIdentity, TypeInv, Inv, HandlersOK
      <4> QED BY <1>2, <4>1, <4>2 DEF Knows, Confirming
    <3> QED BY <3>1, <3>2, <3>3
  <2> QED BY <2>1, <2>2
<1> QED
  BY <1>1, <1>3, <1>4 DEF StrictInv

\* While re-authentication has been required all along, no mail alone links
\* anything: the token that it would need is in no mail.
THEOREM StrictIsApproved == Spec => []StrictMeansApproved
<1>1. StrictInv => StrictMeansApproved
  BY DEF StrictInv, StrictMeansApproved
<1> QED
  BY <1>1, StrictInvInit, StrictInvStep, TypeInvariant, PTL DEF Spec

LEMMA PatchInvInit == Init => PatchInv
<1> SUFFICES ASSUME Init PROVE PatchInv
  OBVIOUS
<1>1. Off.pc # "patch"
  BY DEF Off
<1>2. adm = [a \in Admins |-> Off] /\ settings = asked
  BY DEF Init, LinkingInit
<1> QED
  BY <1>1, <1>2 DEF PatchInv

LEMMA PatchInvStep == TypeInv /\ PatchInv /\ [Next]_vars => PatchInv'
<1> SUFFICES ASSUME TypeInv, PatchInv, [Next]_vars, ~overlapped' PROVE PatchInv'
  BY DEF PatchInv
<1>1. adm \in [Admins -> Orders]
  BY DEF TypeInv, AdminOK
<1>2. CASE UNCHANGED admin
  BY <1>2 DEF PatchInv, admin, history
\* A request that is over, or is no PATCH.
<1>3. ASSUME NEW a \in Admins, NEW o, adm' = [adm EXCEPT ![a] = o], o.pc # "patch",
             UNCHANGED <<settings, history>>
      PROVE  PatchInv'
  <2>1. ~overlapped /\ asked' = asked /\ settings' = settings
    BY <1>3 DEF history
  <2>2. \A b \in Admins : adm'[b].pc = "patch" => adm'[b] = adm[b]
    BY <1>1, <1>3
  <2> QED BY <2>1, <2>2 DEF PatchInv
<1>4. Off.pc # "patch"
  BY DEF Off
<1>5. ASSUME NEW a \in Admins, NEW p \in Patches, BeginPatch(a, p) PROVE PatchInv'
  <2>1. PICK o : o = [Off EXCEPT !.pc = "patch", !.patch = p, !.read = settings]
    OBVIOUS
  <2>2. o.read = settings
    BY <2>1 DEF Off
  <2>3. adm' = [adm EXCEPT ![a] = o] /\ UNCHANGED <<settings, asked>>
    BY <1>5, <2>1 DEF BeginPatch, Order
  <2>4. ~overlapped /\ \A b \in Admins : adm[b].pc # "patch"
    BY <1>5 DEF BeginPatch
  <2>5. settings = asked
    BY <2>4 DEF PatchInv
  <2>6. \A b \in Admins : adm'[b].pc = "patch" => b = a /\ adm'[b].read = settings
    BY <1>1, <2>2, <2>3, <2>4
  <2> QED BY <2>3, <2>5, <2>6 DEF PatchInv
<1>6. ASSUME NEW a \in Admins, WritePatch(a) PROVE PatchInv'
  <2>1. adm[a].pc = "patch" /\ ~overlapped /\ adm' = [adm EXCEPT ![a] = Off]
    BY <1>6 DEF WritePatch
  <2>2. adm[a].read = asked
    BY <2>1 DEF PatchInv
  <2>3. settings' = asked'
    BY <1>6, <2>2 DEF WritePatch
  <2>4. \A b \in Admins : adm'[b].pc # "patch"
    BY <1>1, <1>4, <2>1 DEF PatchInv
  <2> QED BY <2>3, <2>4 DEF PatchInv
<1>7. ASSUME NEW a \in Admins, AbortOrder(a) PROVE PatchInv'
  BY <1>3, <1>4, <1>7 DEF AbortOrder
<1>8. ASSUME NEW a \in Admins, NEW c \in Configs, BeginDelete(a, c) PROVE PatchInv'
  <2>1. PICK o : o = [Off EXCEPT !.pc = "delete", !.config = c]
    OBVIOUS
  <2>2. o.pc # "patch"
    BY <2>1 DEF Off
  <2> QED BY <1>3, <1>8, <2>1, <2>2 DEF BeginDelete, Order
<1>9. ASSUME NEW a \in Admins, DeleteSAMLConfig(a) \/ DeleteOIDCConfig(a) PROVE PatchInv'
  BY <1>3, <1>4, <1>9 DEF DeleteSAMLConfig, DeleteOIDCConfig
<1> QED
  BY <1>2, <1>5, <1>6, <1>7, <1>8, <1>9, AdminMoves DEF Settle

\* PATCHes that do not overlap lose nothing of each other, though each reads
\* the row in one statement and writes all of it in another.
THEOREM SettingsStay == Spec => []SettingsAsAsked
<1>1. PatchInv => SettingsAsAsked
  BY DEF PatchInv, SettingsAsAsked
<1> QED
  BY <1>1, PatchInvInit, PatchInvStep, TypeInvariant, PTL DEF Spec

-----------------------------------------------------------------------------
(***************************************************************************)
(* Verification records.                                                   *)
(***************************************************************************)

LEMMA SignupsStep ==
  ASSUME [Next]_vars
  PROVE  \/ UNCHANGED signups
         \/ \E q \in Requests : StoreSignup(q) \/ MailSignup(q) \/ Forget(q)
         \/ \E i \in DOMAIN signups : ExpireSignup(i)
<1> USE DEF linking, tables
<1>1. CASE LinkingNext
  <2>1. ASSUME NEW q \in Requests, SignupArrives(q) \/ LinkArrives(q) PROVE UNCHANGED signups
    BY <2>1 DEF SignupArrives, LinkArrives, BeginSignup, BeginVerify, BeginConfirm, BeginApprove
  <2>2. ASSUME NEW q \in Requests, Resolve(q) PROVE UNCHANGED signups
    BY <2>2 DEF Resolve, FindIdentity, LookupUser, CreateAccount, CountIdentities, AttachIdentity,
                RequestConfirmation, Notify
  <2>3. ASSUME NEW q \in Requests, Finish(q) \/ Abort(q), ~StoreSignup(q), ~MailSignup(q),
               ~Forget(q)
        PROVE  UNCHANGED signups
    BY <2>3 DEF Finish, SetPassword, OpenSession, LinkIdentity, MarkConfirmed, Abort
  <2>4. ASSUME NEW a \in Admins, Settle(a) \/ AbortOrder(a) PROVE UNCHANGED signups
    BY <2>4 DEF Settle, BeginPatch, WritePatch, AbortOrder
  <2>5. ASSUME Elsewhere PROVE UNCHANGED signups \/ \E i \in DOMAIN signups : ExpireSignup(i)
    BY <2>5 DEF Elsewhere, InviteUser, SetOwnPassword, ExpireLink
  <2> QED BY <1>1, <2>1, <2>2, <2>3, <2>4, <2>5 DEF LinkingNext
<1>2. CASE SAMLStep
  BY <1>2 DEF SAMLStep, BeginSAMLLogin, HandleACS, ConsumeRequest, MarkAssertionSeen
<1>3. CASE OIDCStep
  BY <1>3 DEF OIDCStep, BeginOIDCLogin, HandleCallback, ConsumeState, Exchange
<1>4. CASE ConfigStep
  BY <1>4 DEF ConfigStep, CreateSAMLConfig, UpdateSAMLConfig, CreateOIDCConfig, UpdateOIDCConfig,
              BeginDelete, DeleteSAMLConfig, DeleteOIDCConfig
<1> QED
  BY <1>1, <1>2, <1>3, <1>4 DEF Next, vars

\* A record goes only when a handler forgets it.
LEMMA Forgotten ==
  ASSUME TypeInv, [Next]_vars, NEW i \in DOMAIN signups, signups[i].stored, ~signups'[i].stored
  PROVE  \E q \in Requests : Forget(q) /\ req[q].doc = i
<1>1. signups \in Seq(SignupRows)
  BY DEF TypeInv, Inv, SignupsOK
<1>2. signups[i] \in SignupRows
  BY <1>1, ElementOfSeq
<1>3. ASSUME NEW q \in Requests, StoreSignup(q) PROVE signups'[i] = signups[i]
  <2>1. PICK new : new = [email |-> req[q].email, mailed |-> FALSE, expired |-> FALSE,
                          stored |-> TRUE]
    OBVIOUS
  <2>2. signups' = Append(signups, new)
    BY <1>3, <2>1 DEF StoreSignup, CreatePendingSignup
  <2> QED BY <1>1, <2>2
<1>4. ASSUME NEW q \in Requests, MailSignup(q) PROVE signups'[i].stored = signups[i].stored
  <2>1. signups' = [signups EXCEPT ![req[q].doc].mailed = TRUE]
    BY <1>4 DEF MailSignup
  <2> QED BY <1>2, <2>1 DEF SignupRows
<1>5. ASSUME NEW m \in DOMAIN signups, ExpireSignup(m)
      PROVE  signups'[i].stored = signups[i].stored
  <2>1. signups' = [signups EXCEPT ![m].expired = TRUE]
    BY <1>5 DEF ExpireSignup
  <2> QED BY <1>2, <2>1 DEF SignupRows
<1>6. ASSUME NEW q \in Requests, Forget(q), req[q].doc # i PROVE signups'[i] = signups[i]
  BY <1>6 DEF Forget, DeletePendingSignup
<1> QED
  BY <1>3, <1>4, <1>5, <1>6, SignupsStep

\* What SignupNotLost says of one step.
KeepsSignups ==
  \A i \in DOMAIN signups :
    signups[i].stored /\ ~signups'[i].stored =>
      \/ signups[i].email \in creds
      \/ \E l \in DOMAIN links : links[l].key = Key(Local, signups[i].email)

\* A verification record goes only when its account has the password, or its
\* owner has been asked: the handler that deletes it has done one of the two
\* for the address in the record, however many verify it at a time.
THEOREM SignupsKept == Spec => SignupNotLost
<1>1. TypeInv /\ [Next]_vars => [KeepsSignups]_linking
  <2> SUFFICES ASSUME TypeInv, [Next]_vars, NEW i \in DOMAIN signups,
                      signups[i].stored, ~signups'[i].stored
               PROVE  \/ signups[i].email \in creds
                      \/ \E l \in DOMAIN links : links[l].key = Key(Local, signups[i].email)
    BY DEF KeepsSignups
  <2>1. PICK q \in Requests : Forget(q) /\ req[q].doc = i
    BY Forgotten
  <2>2. PICK s : s = req[q]
    OBVIOUS
  <2>3. Carries(s) /\ Knows(s) /\ s.pc \in {"forget", "dismiss"} /\ s.doc = i
    BY <2>1, <2>2 DEF TypeInv, Inv, HandlersOK, Forget
  <2>4. s.key = Key(Local, signups[i].email) /\ Own(s.key, s.email)
    BY <2>3 DEF Carries, Knows, Verifying, Named
  <2>5. s.email = signups[i].email
    BY <2>4 DEF Own, Key
  <2> QED BY <2>3, <2>4, <2>5 DEF Knows
<1> QED
  BY <1>1, TypeInvariant, PTL DEF Spec, SignupNotLost, KeepsSignups

-----------------------------------------------------------------------------
(***************************************************************************)
(* Flows.                                                                  *)
(***************************************************************************)

\* A handler moves to a step that is no part of a flow.
LEMMA MovesOff ==
  ASSUME Inv, NEW q \in Requests, NEW r, req' = [req EXCEPT ![q] = r], r.pc \notin Trip
  PROVE  \A p \in Requests : req'[p].pc \in Trip => req'[p] = req[p]
BY DEF Inv, HandlersOK

LEMMA GoesOff ==
  ASSUME Inv, NEW q \in Requests, NEW pc, Goto(q, pc), pc \notin Trip
  PROVE  \A p \in Requests : req'[p].pc \in Trip => req'[p] = req[p]
<1>1. PICK r : r = [req[q] EXCEPT !.pc = pc]
  OBVIOUS
<1>2. req[q] \in Handlers
  BY DEF Inv, HandlersOK
<1>3. r.pc = pc
  BY <1>1, <1>2 DEF Handlers
<1> QED
  BY <1>1, <1>3, MovesOff DEF Goto

LEMMA DoneOff ==
  ASSUME Inv, NEW q \in Requests, Done(q)
  PROVE  \A p \in Requests : req'[p].pc \in Trip => req'[p] = req[p]
<1>1. Idle.pc \notin Trip
  BY DEF Idle, Trip
<1> QED
  BY <1>1, MovesOff DEF Done

LEMMA AttemptOff ==
  ASSUME NEW from, NEW k, NEW e, NEW trusted, NEW doc,
         NEW r, r = Attempt(from, k, e, trusted, doc)
  PROVE  r.pc \notin Trip
<1> DEFINE flag == CountAuthIdentitiesForUser(e) > 0
<1>1. r = [Idle EXCEPT !.pc = "find", !.from = from, !.key = k, !.email = e, !.trusted = trusted,
                       !.doc = doc, !.claimed = flag]
  BY DEF Attempt
<1> HIDE DEF flag
<1>2. r.pc = "find"
  BY <1>1 DEF Idle
<1> QED
  BY <1>2 DEF Trip

\* Account linking neither begins nor consumes a flow.
LEMMA LinkingOff ==
  ASSUME TypeInv, LinkingNext
  PROVE  \A p \in Requests : req'[p].pc \in Trip => req'[p] = req[p]
<1> DEFINE OffTrip == \A p \in Requests : req'[p].pc \in Trip => req'[p] = req[p]
<1>1. Inv /\ req \in [Requests -> Handlers]
  BY DEF TypeInv, Inv, HandlersOK
<1>2. ASSUME NEW q \in Requests, NEW e \in Emails, BeginSignup(q, e) PROVE OffTrip
  <2>1. PICK r : r = Start(settings["confirm"], e)
    OBVIOUS
  <2>2. r.pc \notin Trip
    <3>1. CASE settings["confirm"]
      BY <2>1, <3>1 DEF Start, Idle, Trip
    <3>2. CASE ~settings["confirm"]
      BY <2>1, <3>2, AttemptOff DEF Start
    <3> QED BY <3>1, <3>2
  <2> QED BY <1>1, <1>2, <2>1, <2>2, MovesOff DEF BeginSignup, Accept
<1>3. ASSUME NEW q \in Requests, NEW i \in DOMAIN signups, BeginVerify(q, i) PROVE OffTrip
  <2>1. PICK r : /\ r = Attempt("verify", Key(Local, signups[i].email), signups[i].email, FALSE, i)
                 /\ req' = [req EXCEPT ![q] = r]
    BY <1>3 DEF BeginVerify, Accept
  <2> QED BY <1>1, <2>1, AttemptOff, MovesOff
<1>4. ASSUME NEW q \in Requests, LinkArrives(q) PROVE OffTrip
  <2>1. PICK l, u, from : req' = [req EXCEPT ![q] = Linking(l, u, from)]
    BY <1>4 DEF LinkArrives, BeginConfirm, BeginApprove, Accept
  <2>2. Linking(l, u, from).pc \notin Trip
    BY DEF Linking, Idle, Trip
  <2> QED BY <1>1, <2>1, <2>2, MovesOff
<1>5. ASSUME NEW q \in Requests, FindIdentity(q) PROVE OffTrip
  <2>1. ASSUME NEW i, req' = [req EXCEPT ![q].pc = "request", ![q].email = i.user] PROVE OffTrip
    <3>1. PICK r : r = [req[q] EXCEPT !.pc = "request", !.email = i.user]
      OBVIOUS
    <3>2. req[q] \in Handlers
      BY <1>1
    <3>3. r.pc = "request"
      BY <3>1, <3>2 DEF Handlers
    <3>4. req' = [req EXCEPT ![q] = r]
      BY <2>1, <3>1
    <3> QED BY <1>1, <3>3, <3>4, MovesOff DEF Trip
  <2> QED BY <1>1, <1>5, <2>1, GoesOff DEF FindIdentity, Resolved, Trip
<1>6. ASSUME NEW q \in Requests, LookupUser(q) PROVE OffTrip
  <2>1. PICK pc \in {"create", "count"} : Goto(q, pc)
    BY <1>6 DEF LookupUser
  <2> QED BY <1>1, <2>1, GoesOff DEF Trip
<1>7. ASSUME NEW q \in Requests, NEW via, req' = [req EXCEPT ![q].pc = "attach", ![q].via = via]
      PROVE  OffTrip
  <2>1. PICK r : r = [req[q] EXCEPT !.pc = "attach", !.via = via]
    OBVIOUS
  <2>2. req[q] \in Handlers
    BY <1>1
  <2>3. r.pc = "attach"
    BY <2>1, <2>2 DEF Handlers
  <2>4. req' = [req EXCEPT ![q] = r]
    BY <1>7, <2>1
  <2> QED BY <1>1, <2>3, <2>4, MovesOff DEF Trip
<1>8. ASSUME NEW q \in Requests, CreateAccount(q) \/ CountIdentities(q) PROVE OffTrip
  <2>1. Goto(q, "request") => OffTrip
    BY <1>1, GoesOff DEF Trip
  <2> QED BY <1>7, <1>8, <2>1 DEF CreateAccount, CountIdentities
<1>9. ASSUME NEW q \in Requests, AttachIdentity(q) PROVE OffTrip
  <2>1. PICK pc \in {"session", "password"} : Goto(q, pc)
    BY <1>9 DEF AttachIdentity, Resolved
  <2> QED BY <1>1, <2>1, GoesOff DEF Trip
<1>10. ASSUME NEW q \in Requests, RequestConfirmation(q) PROVE OffTrip
  <2>1. PICK n : req' = [req EXCEPT ![q].pc = "notify", ![q].link = n]
    BY <1>10 DEF RequestConfirmation
  <2>2. PICK r : r = [req[q] EXCEPT !.pc = "notify", !.link = n]
    OBVIOUS
  <2>3. req[q] \in Handlers
    BY <1>1
  <2>4. r.pc = "notify"
    BY <2>2, <2>3 DEF Handlers
  <2>5. req' = [req EXCEPT ![q] = r]
    BY <2>1, <2>2
  <2> QED BY <1>1, <2>4, <2>5, MovesOff DEF Trip
<1>11. ASSUME NEW q \in Requests, Goto(q, "dismiss") \/ Goto(q, "session") \/ Goto(q, "forget")
                                  \/ Goto(q, "mark") \/ Done(q)
       PROVE  OffTrip
  BY <1>1, <1>11, GoesOff, DoneOff DEF Trip
<1>12. ASSUME NEW q \in Requests, Notify(q) PROVE OffTrip
  BY <1>11, <1>12 DEF Notify
<1>13. ASSUME NEW q \in Requests, StoreSignup(q) PROVE OffTrip
  <2>1. PICK n : req' = [req EXCEPT ![q].pc = "mail", ![q].doc = n]
    BY <1>13 DEF StoreSignup
  <2>2. PICK r : r = [req[q] EXCEPT !.pc = "mail", !.doc = n]
    OBVIOUS
  <2>3. req[q] \in Handlers
    BY <1>1
  <2>4. r.pc = "mail"
    BY <2>2, <2>3 DEF Handlers
  <2>5. req' = [req EXCEPT ![q] = r]
    BY <2>1, <2>2
  <2> QED BY <1>1, <2>4, <2>5, MovesOff DEF Trip
<1>14. ASSUME NEW q \in Requests, SetPassword(q) PROVE OffTrip
  BY <1>11, <1>14 DEF SetPassword
<1>15. ASSUME NEW q \in Requests, MailSignup(q) \/ Forget(q) \/ OpenSession(q) \/ LinkIdentity(q)
                                  \/ MarkConfirmed(q) \/ Abort(q)
       PROVE  OffTrip
  BY <1>11, <1>15 DEF MailSignup, Forget, OpenSession, LinkIdentity, MarkConfirmed, Abort
<1>16. ASSUME req' = req PROVE OffTrip
  BY <1>16
<1>17. ASSUME NEW a \in Admins, Settle(a) \/ AbortOrder(a) PROVE OffTrip
  BY <1>16, <1>17 DEF Settle, BeginPatch, WritePatch, AbortOrder
<1>18. ASSUME Elsewhere PROVE OffTrip
  BY <1>16, <1>18 DEF Elsewhere, InviteUser, SetOwnPassword, ExpireLink, ExpireSignup
<1> HIDE DEF OffTrip
<1>19. OffTrip
  BY <1>2, <1>3, <1>4, <1>5, <1>6, <1>8, <1>9, <1>10, <1>12, <1>13, <1>14, <1>15, <1>17, <1>18
  DEF LinkingNext, SignupArrives, Resolve, Finish
<1> QED
  BY <1>19 DEF OffTrip

LEMMA FlowInvInit == Init => FlowInv
<1> SUFFICES ASSUME Init PROVE FlowInv
  OBVIOUS
<1>1. flows = [f \in Flows |-> NoFlow] /\ req = [q \in Requests |-> Idle]
  BY DEF Init, LinkingInit
<1>2. Idle.pc \notin Trip \cup Taken
  BY DEF Idle, Trip, Taken
<1>3. NoFlow.config = None /\ NoFlow.pending = FALSE /\ NoFlow.answers = 0
  BY DEF NoFlow
<1> QED
  BY <1>1, <1>2, <1>3 DEF FlowInv, Begun

\* What a handler on a trip has in hand.
LEMMA OnTrip ==
  ASSUME TypeInv, NEW q \in Requests, req[q].pc \in Trip
  PROVE  /\ req[q] \in Handlers /\ req[q].doc \in Flows /\ flows[req[q].doc] \in FlowRows
         /\ req[q].key.provider \in Configs
<1>1. PICK c \in Configs : req[q].key = Key(c, None)
  BY DEF TypeInv, Inv, HandlersOK, Carries
<1>2. req[q].key.provider = c
  BY <1>1 DEF Key
<1> QED
  BY <1>2 DEF TypeInv, Inv, HandlersOK, Carries, FlowsOK

\* Only other handlers' records and no flow's are touched.
LEMMA FlowsUntouched ==
  ASSUME FlowInv, UNCHANGED flows,
         \A p \in Requests : req'[p].pc \in Trip => req'[p] = req[p]
  PROVE  FlowInv'
<1>1. Taken \subseteq Trip
  BY DEF Taken, Trip
<1>2. \A p \in Requests : req'[p].pc \in Taken => req'[p] = req[p]
  BY <1>1
<1> QED
  BY <1>2 DEF FlowInv, Begun

LEMMA FlowBeginsFresh ==
  ASSUME TypeInv, FlowInv, UNCHANGED req, NEW f \in Flows, NEW c \in Configs,
         CreateRequest(f, c) \/ CreateState(f, c)
  PROVE  FlowInv'
<1>1. PICK r : r = [NoFlow EXCEPT !.config = c, !.pending = TRUE]
  OBVIOUS
<1>2. r = [config |-> c, pending |-> TRUE, seen |-> FALSE, answers |-> 0]
  BY <1>1 DEF NoFlow
<1>3. r.config = c /\ r.config # None /\ r.pending = TRUE /\ r.answers = 0
  BY <1>2, LinkingAssumption
<1>4. flows[f] = NoFlow /\ flows' = [flows EXCEPT ![f] = r]
  BY <1>1 DEF CreateRequest, CreateState
<1>5. ~Begun(f)
  BY <1>4 DEF Begun, NoFlow
<1>6. flows'[f] = r /\ \A g \in Flows \ {f} : flows'[g] = flows[g]
  BY <1>4 DEF TypeInv, FlowsOK
<1>7. ASSUME NEW q \in Requests, req[q].pc \in Trip
      PROVE  req[q].doc \in Flows \ {f}
  BY <1>5, <1>7, OnTrip DEF FlowInv
<1>8. Taken \subseteq Trip
  BY DEF Taken, Trip
<1>9. \A g \in Flows : /\ flows'[g].answers <= 1
                       /\ flows'[g].pending => flows'[g].config # None
                       /\ flows'[g].pending \/ flows'[g].config = None => flows'[g].answers = 0
                       /\ flows'[g] # NoFlow => flows'[g].config # None
  BY <1>3, <1>6 DEF FlowInv, Begun
<1>10. \A q \in Requests : req[q].pc \in Trip => flows'[req[q].doc] = flows[req[q].doc]
  BY <1>6, <1>7
<1> QED
  BY <1>8, <1>9, <1>10 DEF FlowInv, Begun

\* A handler takes in an answer to a flow that has begun.
LEMMA AnswerTaken ==
  ASSUME TypeInv, FlowInv, UNCHANGED flows, NEW q \in Requests, NEW f \in Flows, NEW c \in Configs,
         NEW pc \in {"request id", "state"}, Answer(q, f, c, pc), flows[f] # NoFlow
  PROVE  FlowInv'
<1>1. PICK r : r = [Idle EXCEPT !.pc = pc, !.from = "sso", !.doc = f, !.key = Key(c, None),
                                !.trusted = configs[c].trusted]
  OBVIOUS
<1>2. r.pc = pc /\ r.doc = f
  BY <1>1 DEF Idle
<1>3. req' = [req EXCEPT ![q] = r]
  BY <1>1 DEF Answer, Accept
<1>4. req'[q] = r /\ \A p \in Requests \ {q} : req'[p] = req[p]
  BY <1>3 DEF TypeInv, Inv, HandlersOK
<1>5. Begun(f) /\ pc \notin Taken
  BY DEF FlowInv, Taken
<1>6. \A p \in Requests : req'[p].pc \in Taken => req'[p] = req[p]
  BY <1>2, <1>4, <1>5
<1>7. \A p \in Requests : req'[p].pc \in Trip => flows[req'[p].doc].config # None
  BY <1>2, <1>4, <1>5 DEF FlowInv, Begun
<1> QED
  BY <1>6, <1>7 DEF FlowInv, Begun

\* The record of a flow is there once: whoever gets it is alone with it.
LEMMA ConsumedOnce ==
  ASSUME TypeInv, FlowInv, NEW q \in Requests, ConsumeRequest(q) \/ ConsumeState(q)
  PROVE  FlowInv'
<1>1. PICK f : f = req[q].doc
  OBVIOUS
<1>2. req[q].pc \in Trip
  BY DEF ConsumeRequest, ConsumeState, Trip
<1>3. f \in Flows /\ flows[f] \in FlowRows /\ req[q] \in Handlers
  BY <1>1, <1>2, OnTrip
<1>4. flows[f].pending /\ flows' = [flows EXCEPT ![f] = [flows[f] EXCEPT !.pending = FALSE]]
  BY <1>1 DEF ConsumeRequest, ConsumeState
<1>5. /\ ~flows'[f].pending /\ flows'[f].config = flows[f].config
      /\ flows'[f].answers = flows[f].answers
      /\ \A g \in Flows \ {f} : flows'[g] = flows[g]
  BY <1>3, <1>4 DEF TypeInv, FlowsOK, FlowRows
<1>6. Begun(f) /\ flows[f].answers = 0
  BY <1>3, <1>4 DEF FlowInv
<1>7. Taken \subseteq Trip
  BY DEF Taken, Trip
<1>8. \A p \in Requests : req[p].pc \in Taken => req[p].doc # f
  BY <1>4 DEF FlowInv
<1>9. \A g \in Flows : /\ flows'[g].answers <= 1
                       /\ flows'[g].pending => flows'[g].config # None
                       /\ flows'[g].pending \/ flows'[g].config = None => flows'[g].answers = 0
                       /\ flows'[g] # NoFlow => flows'[g].config # None
  BY <1>5, <1>6 DEF FlowInv, Begun
\* Whatever q goes on to, it keeps its flow.
<1>10. /\ \A p \in Requests \ {q} : req'[p] = req[p]
       /\ req'[q].pc \in Trip => req'[q].doc = f
  <2>1. CASE Done(q)
    <3>1. Idle.pc \notin Trip
      BY DEF Idle, Trip
    <3> QED BY <2>1, <3>1 DEF Done, TypeInv, Inv, HandlersOK
  <2>2. ASSUME NEW pc, Goto(q, pc)
        PROVE  /\ \A p \in Requests \ {q} : req'[p] = req[p]
               /\ req'[q].pc \in Trip => req'[q].doc = f
    BY <1>1, <1>3, <2>2 DEF Goto, TypeInv, Inv, HandlersOK, Handlers
  <2> QED BY <2>1, <2>2 DEF ConsumeRequest, ConsumeState
<1>11. \A p \in Requests : req'[p].pc \in Trip => flows'[req'[p].doc].config # None
  <2> SUFFICES ASSUME NEW p \in Requests, req'[p].pc \in Trip
               PROVE  flows'[req'[p].doc].config # None
    OBVIOUS
  <2>1. CASE p = q
    BY <1>5, <1>6, <1>10, <2>1 DEF Begun
  <2>2. CASE p # q
    <3>1. req'[p] = req[p] /\ req[p].doc \in Flows /\ flows[req[p].doc].config # None
      BY <1>10, <2>2, OnTrip DEF FlowInv, Begun
    <3> QED BY <1>5, <3>1
  <2> QED BY <2>1, <2>2
<1>12. ASSUME NEW p \in Requests, req'[p].pc \in Taken
       PROVE  /\ ~flows'[req'[p].doc].pending /\ flows'[req'[p].doc].answers = 0
              /\ \A s \in Requests : req'[s].pc \in Taken /\ req'[s].doc = req'[p].doc => s = p
  <2>1. \A s \in Requests \ {q} : req'[s].pc \in Taken =>
          /\ req'[s] = req[s] /\ req[s].doc \in Flows \ {f}
    BY <1>7, <1>8, <1>10, OnTrip
  <2>2. req'[q].pc \in Taken => req'[q].doc = f
    BY <1>7, <1>10
  <2>3. CASE p = q
    BY <1>5, <1>6, <1>12, <2>1, <2>2, <2>3
  <2>4. CASE p # q
    BY <1>5, <1>12, <2>1, <2>2, <2>4 DEF FlowInv
  <2> QED BY <2>3, <2>4
<1> QED
  BY <1>9, <1>11, <1>12 DEF FlowInv, Begun

\* Its answer goes to Resolve, and there is no other.
LEMMA AnsweredOnce ==
  ASSUME TypeInv, FlowInv, NEW q \in Requests, req[q].pc \in Taken, NEW s, NEW e, NEW trusted,
         ToResolve(q, s, e, trusted),
         NEW f, f = req[q].doc, NEW r, flows' = [flows EXCEPT ![f] = r],
         r.answers = flows[f].answers + 1, r.config = flows[f].config,
         r.pending = flows[f].pending
  PROVE  FlowInv'
<1>1. Taken \subseteq Trip
  BY DEF Taken, Trip
<1>2. f \in Flows /\ flows[f] \in FlowRows
  BY <1>1, OnTrip
<1>3. Begun(f) /\ ~flows[f].pending /\ flows[f].answers = 0
  BY <1>1 DEF FlowInv
<1>4. flows'[f] = r /\ \A g \in Flows \ {f} : flows'[g] = flows[g]
  BY <1>2 DEF TypeInv, FlowsOK
<1>5. PICK t : t = Attempt("sso", Key(req[q].key.provider, s), e, trusted, None)
  OBVIOUS
<1>6. t.pc \notin Trip
  BY <1>5, AttemptOff
<1>7. req' = [req EXCEPT ![q] = t]
  BY <1>5 DEF ToResolve
<1>8. /\ \A p \in Requests : req'[p].pc \in Trip => req'[p] = req[p] /\ p # q
  BY <1>6, <1>7 DEF TypeInv, Inv, HandlersOK
<1>9. \A p \in Requests \ {q} : req[p].pc \in Taken => req[p].doc # f
  BY DEF FlowInv
<1>10. \A g \in Flows : /\ flows'[g].answers <= 1
                        /\ flows'[g].pending => flows'[g].config # None
                        /\ flows'[g].pending \/ flows'[g].config = None => flows'[g].answers = 0
                        /\ flows'[g] # NoFlow => flows'[g].config # None
  BY <1>3, <1>4 DEF FlowInv, Begun
<1>11. \A p \in Requests : req'[p].pc \in Trip => flows'[req'[p].doc].config # None
  <2> SUFFICES ASSUME NEW p \in Requests, req'[p].pc \in Trip
               PROVE  flows'[req'[p].doc].config # None
    OBVIOUS
  <2>1. req'[p] = req[p] /\ req[p].doc \in Flows /\ flows[req[p].doc].config # None
    BY <1>8, OnTrip DEF FlowInv, Begun
  <2> QED BY <1>4, <2>1
<1>12. ASSUME NEW p \in Requests, req'[p].pc \in Taken
       PROVE  /\ ~flows'[req'[p].doc].pending /\ flows'[req'[p].doc].answers = 0
              /\ \A u \in Requests : req'[u].pc \in Taken /\ req'[u].doc = req'[p].doc => u = p
  <2>1. \A u \in Requests : req'[u].pc \in Taken =>
          req'[u] = req[u] /\ u # q /\ req[u].doc \in Flows \ {f}
    BY <1>1, <1>8, <1>9, OnTrip
  <2>2. flows'[req[p].doc] = flows[req[p].doc] /\ req'[p] = req[p]
    BY <1>4, <1>12, <2>1
  <2> QED BY <1>12, <2>1, <2>2 DEF FlowInv
<1> QED
  BY <1>10, <1>11, <1>12 DEF FlowInv, Begun

LEMMA FlowInvStep == TypeInv /\ FlowInv /\ [Next]_vars => FlowInv'
<1> SUFFICES ASSUME TypeInv, FlowInv, [Next]_vars PROVE FlowInv'
  OBVIOUS
<1>1. CASE UNCHANGED <<req, flows>>
  BY <1>1, FlowsUntouched
<1>2. CASE LinkingNext /\ UNCHANGED flows
  BY <1>2, LinkingOff, FlowsUntouched
<1>3. ASSUME NEW f \in Flows, NEW c \in Configs, BeginSAMLLogin(f, c) \/ BeginOIDCLogin(f, c)
      PROVE  FlowInv'
  <2>1. UNCHANGED req
    BY <1>3 DEF BeginSAMLLogin, BeginOIDCLogin, linking
  <2> QED BY <1>3, <2>1, FlowBeginsFresh DEF BeginSAMLLogin, BeginOIDCLogin
<1>4. ASSUME NEW f \in Flows, NEW c \in Configs, NEW q \in Requests,
             HandleACS(q, f, c) \/ HandleCallback(q, f, c)
      PROVE  FlowInv'
  BY <1>4, AnswerTaken DEF HandleACS, HandleCallback
<1>5. ASSUME NEW q \in Requests, req[q].pc \in Taken
      PROVE  req[q].doc \in Flows /\ flows[req[q].doc] \in FlowRows
  BY <1>5, OnTrip DEF Taken, Trip
<1>6. ASSUME NEW q \in Requests, NEW s \in Subjects, NEW e \in Emails, MarkAssertionSeen(q, s, e)
      PROVE  FlowInv'
  <2>1. PICK f : f = req[q].doc
    OBVIOUS
  <2>2. req[q].pc \in Taken /\ f \in Flows /\ flows[f] \in FlowRows
    BY <1>5, <1>6, <2>1 DEF MarkAssertionSeen, Taken
  <2>3. PICK m : m = [flows[f] EXCEPT !.seen = TRUE]
    OBVIOUS
  <2>4. PICK r : r = [m EXCEPT !.answers = @ + 1]
    OBVIOUS
  <2>5. m \in FlowRows /\ m.answers = flows[f].answers /\ m.config = flows[f].config
        /\ m.pending = flows[f].pending
    BY <2>2, <2>3 DEF FlowRows
  <2>6. r.answers = flows[f].answers + 1 /\ r.config = flows[f].config
        /\ r.pending = flows[f].pending
    BY <2>4, <2>5 DEF FlowRows
  <2>7. flows' = [flows EXCEPT ![f] = r]
    BY <1>6, <2>1, <2>2, <2>3, <2>4 DEF MarkAssertionSeen, TypeInv, FlowsOK, FlowRows
  <2>8. ToResolve(q, s, e, req[q].trusted)
    BY <1>6 DEF MarkAssertionSeen
  <2> QED BY <2>1, <2>2, <2>6, <2>7, <2>8, AnsweredOnce
<1>7. ASSUME NEW q \in Requests, NEW s \in Subjects, NEW e \in Emails, NEW v \in BOOLEAN,
             Exchange(q, s, e, v)
      PROVE  FlowInv'
  <2>1. PICK f : f = req[q].doc
    OBVIOUS
  <2>2. req[q].pc \in Taken /\ f \in Flows /\ flows[f] \in FlowRows
    BY <1>5, <1>7, <2>1 DEF Exchange, Taken
  <2>3. PICK r : r = [flows[f] EXCEPT !.answers = @ + 1]
    OBVIOUS
  <2>4. r.answers = flows[f].answers + 1 /\ r.config = flows[f].config
        /\ r.pending = flows[f].pending
    BY <2>2, <2>3 DEF FlowRows
  <2>5. flows' = [flows EXCEPT ![f] = r]
    BY <1>7, <2>1, <2>3 DEF Exchange
  <2>6. ToResolve(q, s, e, req[q].trusted /\ v)
    BY <1>7 DEF Exchange
  <2> QED BY <2>1, <2>2, <2>4, <2>5, <2>6, AnsweredOnce
<1>8. CASE SAMLStep
  BY <1>3, <1>4, <1>6, <1>8, ConsumedOnce DEF SAMLStep
<1>9. CASE OIDCStep
  BY <1>3, <1>4, <1>7, <1>9, ConsumedOnce DEF OIDCStep
<1>10. CASE ConfigStep
  BY <1>1, <1>10
  DEF ConfigStep, CreateSAMLConfig, UpdateSAMLConfig, CreateOIDCConfig, UpdateOIDCConfig,
      BeginDelete, DeleteSAMLConfig, DeleteOIDCConfig
<1>11. CASE UNCHANGED vars
  BY <1>1, <1>11 DEF vars, linking
<1> QED
  BY <1>2, <1>8, <1>9, <1>10, <1>11 DEF Next

\* However often the answer of a flow is posted, to however many requests, one
\* of them consumes the record, and only that one resolves a login.
THEOREM FlowsTakenOnce == Spec => []FlowTakenOnce
<1>1. FlowInv => FlowTakenOnce
  BY DEF FlowInv, FlowTakenOnce
<1> QED
  BY <1>1, FlowInvInit, FlowInvStep, TypeInvariant, PTL DEF Spec

-----------------------------------------------------------------------------
(***************************************************************************)
(* Deleted configurations.                                                 *)
(***************************************************************************)

LEMMA DeleteInvInit == Init => DeleteInv
  BY DEF Init, LinkingInit, DeleteInv, Key

\* What has been counted is past its count, or the configuration is gone.
LEMMA LateIdentity ==
  ASSUME Next, NEW i \in identities' \ late', i \notin identities, i.key.provider # Local
  PROVE  ~Counted(i.key.provider)
BY DEF Next, Remember

\* A configuration that is deleted was about to be.
LEMMA DeletedStep ==
  ASSUME ConfigsOK, [Next]_vars, NEW c \in Configs, configs'[c] = Deleted, configs[c] # Deleted
  PROVE  \E a \in Admins : adm[a].pc = "delete" /\ adm[a].config = c
<1>1. Deleted.type = "deleted"
  BY DEF Deleted, NoConfig
<1>2. ASSUME NEW d, NEW t \in {"saml", "oidc"}, NEW b, NEW en,
             configs' = [configs EXCEPT ![d] = Config(t, b, en)]
      PROVE  FALSE
  <2>1. Config(t, b, en).type = t
    BY DEF Config
  <2> QED BY <1>1, <1>2, <2>1 DEF ConfigsOK
<1>3. ASSUME NEW a \in Admins, DeleteSAMLConfig(a) \/ DeleteOIDCConfig(a)
      PROVE  adm[a].pc = "delete" /\ adm[a].config = c
  BY <1>3 DEF DeleteSAMLConfig, DeleteOIDCConfig, RemoveSAMLConfig, RemoveOIDCConfig, ConfigsOK
<1>4. configs' # configs
  OBVIOUS
<1>5. ~SAMLStep
  BY <1>4 DEF SAMLStep, BeginSAMLLogin, HandleACS, ConsumeRequest, MarkAssertionSeen
<1>6. ~OIDCStep
  BY <1>4 DEF OIDCStep, BeginOIDCLogin, HandleCallback, ConsumeState, Exchange
<1>7. ASSUME NEW d \in Configs, NEW b \in BOOLEAN, NEW en \in BOOLEAN,
             \/ CreateSAMLConfig(d, b, en) \/ UpdateSAMLConfig(d, b, en)
             \/ CreateOIDCConfig(d, b, en) \/ UpdateOIDCConfig(d, b, en)
      PROVE  FALSE
  BY <1>2, <1>7
  DEF CreateSAMLConfig, UpdateSAMLConfig, CreateOIDCConfig, UpdateOIDCConfig,
      InsertSAMLConfig, InsertOIDCConfig, ReplaceSAMLConfig, ReplaceOIDCConfig
<1>8. ConfigStep
  BY <1>4, <1>5, <1>6 DEF Next, vars
<1> QED
  BY <1>3, <1>4, <1>7, <1>8 DEF ConfigStep, BeginDelete

LEMMA DeleteInvStep == TypeInv /\ DeleteInv /\ [Next]_vars => DeleteInv'
<1> SUFFICES ASSUME TypeInv, DeleteInv, [Next]_vars,
                    NEW i \in identities' \ late', i.key.provider # Local
             PROVE  /\ configs'[i.key.provider] # Deleted
                    /\ \A a \in Admins :
                         adm'[a].pc = "delete" => adm'[a].config # i.key.provider
  BY DEF DeleteInv
<1>1. PICK c : c = i.key.provider
  OBVIOUS
<1>2. c \in Configs
  <2>1. i \in IdentityRows
    BY TypeInvStep DEF TypeInv, Inv, IdentitiesOK
  <2>2. i.key \in Keys
    BY <2>1 DEF IdentityRows
  <2> QED BY <1>1, <2>2 DEF Keys, Key
<1>3. late \subseteq late'
  BY DEF Next, Remember, vars
\* It was no late one, and the deletion of c had not begun.
<1>4. configs[c] # Deleted /\ \A a \in Admins : adm[a].pc = "delete" => adm[a].config # c
  <2>1. CASE i \in identities
    BY <1>1, <1>3, <2>1 DEF DeleteInv
  <2>2. CASE i \notin identities
    <3>1. Next
      BY <2>2 DEF vars, linking, tables
    <3> QED BY <1>1, <2>2, <3>1, LateIdentity DEF Counted
  <2> QED BY <2>1, <2>2
<1>5. configs'[c] # Deleted
  BY <1>2, <1>4, DeletedStep DEF TypeInv
<1>6. ASSUME NEW a \in Admins, adm'[a].pc = "delete", adm'[a].config = c
      PROVE  FALSE
  <2>1. adm \in [Admins -> Orders]
    BY DEF TypeInv, AdminOK
  <2>2. adm'[a] # adm[a]
    BY <1>4, <1>6
  <2>3. Off.pc = "off"
    BY DEF Off
  <2>4. ASSUME NEW b \in Admins, NEW o, o.pc # "delete", adm' = [adm EXCEPT ![b] = o] PROVE FALSE
    BY <1>6, <2>1, <2>2, <2>4
  <2>5. ASSUME NEW b \in Admins, Settle(b) \/ AbortOrder(b) PROVE FALSE
    <3>1. ASSUME NEW p \in Patches, BeginPatch(b, p) PROVE FALSE
      <4>1. PICK o : o = [Off EXCEPT !.pc = "patch", !.patch = p, !.read = settings]
        OBVIOUS
      <4>2. o.pc = "patch"
        BY <4>1 DEF Off
      <4> QED BY <2>4, <3>1, <4>1, <4>2 DEF BeginPatch, Order
    <3> QED BY <2>3, <2>4, <2>5, <3>1 DEF Settle, WritePatch, AbortOrder
  <2>6. ASSUME NEW b \in Admins, DeleteSAMLConfig(b) \/ DeleteOIDCConfig(b) PROVE FALSE
    BY <2>3, <2>4, <2>6 DEF DeleteSAMLConfig, DeleteOIDCConfig
  <2>7. ASSUME NEW b \in Admins, NEW d \in Configs, BeginDelete(b, d) PROVE FALSE
    <3>1. PICK o : o = [Off EXCEPT !.pc = "delete", !.config = d]
      OBVIOUS
    <3>2. o.config = d
      BY <3>1 DEF Off
    <3>3. adm' = [adm EXCEPT ![b] = o]
      BY <2>7, <3>1 DEF BeginDelete, Order
    <3>4. d = c
      BY <1>6, <2>1, <2>2, <3>2, <3>3
    <3>5. UNCHANGED identities
      BY <2>7 DEF BeginDelete, tables
    <3> DEFINE S == {j \in identities : j.key.provider = c}
    <3>6. IsFiniteSet(S)
      BY FS_Subset DEF TypeInv, Inv, IdentitiesOK
    <3>7. S = {}
      BY <2>7, <3>4, <3>6, FS_EmptySet DEF BeginDelete, CountAuthIdentitiesForConfig
    <3> QED BY <1>1, <3>5, <3>7
  <2>8. adm' # adm
    BY <2>2
  <2> QED BY <2>5, <2>6, <2>7, <2>8, AdminMoves DEF admin
<1> QED
  BY <1>1, <1>5, <1>6

\* A deletion that has counted no identities leaves none that was there then:
\* what comes after the count is a login or a confirmation that was under way,
\* or a link that was still pending.
THEOREM DeletedAreUnused == Spec => []DeletedUnused
<1>1. DeleteInv => DeletedUnused
  BY DEF DeleteInv, DeletedUnused
<1> QED
  BY <1>1, DeleteInvInit, DeleteInvStep, TypeInvariant, PTL DEF Spec
=============================================================================
