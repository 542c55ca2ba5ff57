------------------------ MODULE SingleSignOnHandlers -------------------------
(***************************************************************************)
(* What the handlers of SingleSignOn know at each of their steps, proved   *)
(* for any accounts, providers, requests and flows.                        *)
(*                                                                         *)
(* A handler decides by what a statement returned some statements ago,     *)
(* while the others go on.  What it may rely on is what cannot be taken    *)
(* back: the tables only grow (Grows), so what a handler has learnt from   *)
(* them stays true (Knows).  SingleSignOnProofs builds on it.              *)
(***************************************************************************)
EXTENDS SingleSignOn, FiniteSetTheorems, SequenceTheorems, TLAPS

-----------------------------------------------------------------------------
(***************************************************************************)
(* The invariant.                                                          *)
(***************************************************************************)

\* The steps of a handler, by what it has in hand: the answer to a flow; a
\* verification record; a subject and an account's address.
Trip       == {"request id", "assertion", "state", "exchange"}
Storing    == {"store", "mail"}
Resolving  == {"find", "lookup", "create", "count", "attach", "request", "notify"}
Confirming == {"link", "mark"}
Named      == Resolving \cup Confirming \cup {"password", "forget", "dismiss", "session"}

Steps == {"idle"} \cup Trip \cup Storing \cup Named

\* The steps at which the account is known to be there.
Joined == Named \ {"find", "lookup", "create"}

\* The steps that come from a verification mail, if they do.
Verifying == Resolving \cup {"password", "forget", "dismiss"}

\* A local key is the address of the account it belongs to.
Own(k, u) == k.provider = Local => k.subject = u

HasIdentity(u) == \E i \in identities : i.user = u

\* What a handler r has learnt from the tables.
Knows(r) ==
  /\ r.pc \in Joined => r.email \in users
  /\ r.pc \in Resolving /\ r.claimed => HasIdentity(r.email)
  /\ r.pc \in Verifying /\ r.from = "verify" =>
       r.doc \in DOMAIN signups /\ r.key = Key(Local, signups[r.doc].email)
  /\ r.pc = "mail" => r.doc \in DOMAIN signups
  /\ r.pc = "forget" => r.email \in creds
  /\ r.pc \in {"notify", "dismiss"} => r.link \in DOMAIN links /\ links[r.link].key = r.key
  /\ r.pc \in Confirming =>
       /\ r.link \in DOMAIN links
       /\ links[r.link].key = r.key /\ links[r.link].user = r.email
       /\ r.from = "mail" => links[r.link].mailed = "token"
       /\ r.from = "approved" => r.email \in signedIn
  /\ r.pc = "mark" => \E i \in identities : i.key = r.key /\ i.user = r.email

\* What it has in hand, and how it came to where it is.
Carries(r) ==
  /\ r.pc \in Trip => r.doc \in Flows /\ \E c \in Configs : r.key = Key(c, None)
  /\ r.pc \in Storing \cup Named => r.email \in Emails
  /\ r.pc \in Named => r.key \in Keys /\ Own(r.key, r.email)
  /\ r.pc \in Resolving => r.from \in {"sso", "signup", "verify"}
  /\ r.pc = "attach" => r.via \in {"new", "first", "trusted"}
  /\ r.pc = "attach" /\ r.claimed => r.via = "trusted"
  /\ r.pc \in {"forget", "dismiss"} => r.from = "verify"
  /\ r.pc \in Confirming => r.from \in {"mail", "approved"}

HandlersOK ==
  /\ req \in [Requests -> Handlers]
  /\ \A q \in Requests : Carries(req[q]) /\ Knows(req[q])

AccountsOK ==
  /\ users \subseteq Emails /\ creds \subseteq users /\ signedIn \subseteq users

IdentitiesOK ==
  /\ identities \subseteq IdentityRows /\ IsFiniteSet(identities)
  /\ \A i \in identities : i.user \in users /\ Own(i.key, i.user)

LinksOK ==
  /\ links \in Seq(LinkRows)
  /\ \A l \in DOMAIN links : links[l].user \in users /\ Own(links[l].key, links[l].user)

SignupsOK == signups \in Seq(SignupRows)

\* Whoever is about to mail a link is alone with it: the link has not been
\* mailed, and its token, once mailed, stays so.
NoticesOK ==
  \A q \in Requests : req[q].pc = "notify" =>
    /\ links[req[q].link].mailed = "nothing"
    /\ \A p \in Requests : req[p].pc = "notify" /\ req[p].link = req[q].link => p = q

Inv ==
  /\ AccountsOK /\ IdentitiesOK /\ LinksOK /\ SignupsOK /\ HandlersOK /\ NoticesOK

\* The tables only grow, and what matters in their rows stays.
Grows ==
  /\ users \subseteq users' /\ creds \subseteq creds' /\ signedIn \subseteq signedIn'
  /\ identities \subseteq identities'
  /\ DOMAIN links \subseteq DOMAIN links' /\ DOMAIN signups \subseteq DOMAIN signups'
  /\ \A l \in DOMAIN links :
       /\ links'[l].key = links[l].key /\ links'[l].user = links[l].user
       /\ links[l].mailed = "token" => links'[l].mailed = "token"
  /\ \A i \in DOMAIN signups : signups'[i].email = signups[i].email

TablesOK == AccountsOK /\ IdentitiesOK /\ LinksOK /\ SignupsOK

-----------------------------------------------------------------------------
(***************************************************************************)
(* One handler moves.                                                      *)
(***************************************************************************)

\* What has been learnt stays true.
LEMMA KnowsKeep ==
  ASSUME NEW r, Knows(r), Grows
  PROVE  Knows(r)'
<1>1. \A u : HasIdentity(u) => HasIdentity(u)'
  BY DEF HasIdentity, Grows
<1>2. r.pc = "mark" => (\E i \in identities : i.key = r.key /\ i.user = r.email)'
  BY DEF Knows, Grows
<1>3. r.pc \in Confirming =>
        (/\ r.link \in DOMAIN links
         /\ links[r.link].key = r.key /\ links[r.link].user = r.email
         /\ r.from = "mail" => links[r.link].mailed = "token"
         /\ r.from = "approved" => r.email \in signedIn)'
  BY DEF Knows, Grows
<1> QED
  BY <1>1, <1>2, <1>3 DEF Knows, Grows

LEMMA IdleFits == Idle \in Handlers /\ Carries(Idle) /\ Knows(Idle)
  BY DEF Idle, Handlers, Carries, Knows, Trip, Storing, Named, Resolving, Confirming,
         Joined, Verifying

\* The handler q moves on to r; the tables may have grown.
LEMMA HandlerMoves ==
  ASSUME Inv, NEW q \in Requests, NEW r \in Handlers, req' = [req EXCEPT ![q] = r],
         TablesOK', Grows, Carries(r), Knows(r)', r.pc # "notify",
         \A p \in Requests \ {q} : req[p].pc = "notify" => links'[req[p].link].mailed = "nothing"
  PROVE  Inv'
<1>1. req'[q] = r /\ \A p \in Requests \ {q} : req'[p] = req[p]
  BY DEF Inv, HandlersOK
<1>2. req' \in [Requests -> Handlers]
  BY DEF Inv, HandlersOK
<1>3. ASSUME NEW p \in Requests PROVE Carries(req'[p]) /\ Knows(req[p])'
  <2>1. CASE p = q
    BY <1>1, <2>1 DEF Knows
  <2>2. CASE p # q
    <3>1. req'[p] = req[p] /\ Carries(req[p]) /\ Knows(req[p])
      BY <1>1, <2>2 DEF Inv, HandlersOK
    <3>2. PICK s : s = req[p]
      OBVIOUS
    <3>3. Knows(s)'
      BY <3>1, <3>2, KnowsKeep
    <3> QED BY <3>1, <3>2, <3>3 DEF Knows
  <2> QED BY <2>1, <2>2
<1>4. HandlersOK'
  BY <1>2, <1>3 DEF HandlersOK
<1>5. NoticesOK'
  BY <1>1 DEF Inv, NoticesOK
<1> QED
  BY <1>4, <1>5 DEF Inv, TablesOK

LEMMA TablesKeep ==
  ASSUME Inv, UNCHANGED tables
  PROVE  TablesOK' /\ Grows
<1>1. UNCHANGED <<users, identities, links, signups, creds, signedIn>>
  BY DEF tables
<1> QED
  BY <1>1 DEF Inv, TablesOK, AccountsOK, IdentitiesOK, LinksOK, SignupsOK, Grows

\* The same with the tables as they were.
LEMMA HandlerMovesAlone ==
  ASSUME Inv, NEW q \in Requests, NEW r \in Handlers, req' = [req EXCEPT ![q] = r],
         UNCHANGED tables, Carries(r), Knows(r), r.pc # "notify"
  PROVE  Inv' /\ Grows
<1>1. TablesOK' /\ Grows
  BY TablesKeep
<1>2. links' = links
  BY DEF tables
<1>3. Knows(r)'
  BY <1>1, KnowsKeep
<1> QED
  BY <1>1, <1>2, <1>3, HandlerMoves DEF Inv, NoticesOK

\* A handler that goes to the step pc takes along what it has.
LEMMA GotoFits ==
  ASSUME Inv, NEW q \in Requests, NEW pc, Goto(q, pc),
         pc \in Steps, NEW r, r = [req[q] EXCEPT !.pc = pc]
  PROVE  /\ r \in Handlers /\ req' = [req EXCEPT ![q] = r]
         /\ r.pc = pc /\ r.from = req[q].from /\ r.key = req[q].key /\ r.email = req[q].email
         /\ r.trusted = req[q].trusted /\ r.via = req[q].via /\ r.doc = req[q].doc
         /\ r.link = req[q].link /\ r.claimed = req[q].claimed
         /\ Carries(req[q]) /\ Knows(req[q])
<1>1. req[q] \in Handlers /\ Carries(req[q]) /\ Knows(req[q])
  BY DEF Inv, HandlersOK
<1>2. r \in Handlers
  BY <1>1 DEF Handlers, Steps, Trip, Storing, Named, Resolving, Confirming
<1>3. req' = [req EXCEPT ![q] = r]
  BY DEF Goto
<1>4. /\ r.pc = pc /\ r.from = req[q].from /\ r.key = req[q].key /\ r.email = req[q].email
      /\ r.trusted = req[q].trusted /\ r.via = req[q].via /\ r.doc = req[q].doc
      /\ r.link = req[q].link /\ r.claimed = req[q].claimed
  BY <1>1 DEF Handlers
<1> QED
  BY <1>1, <1>2, <1>3, <1>4

LEMMA DoneKeeps ==
  ASSUME Inv, NEW q \in Requests, Done(q), UNCHANGED tables
  PROVE  Inv' /\ Grows
<1>1. Idle.pc # "notify"
  BY DEF Idle
<1> QED
  BY <1>1, IdleFits, HandlerMovesAlone DEF Done

-----------------------------------------------------------------------------
(***************************************************************************)
(* Requests that arrive.                                                   *)
(***************************************************************************)

LEMMA ClaimedHasIdentity ==
  ASSUME NEW u, CountAuthIdentitiesForUser(u) > 0
  PROVE  HasIdentity(u)
<1> SUFFICES ASSUME ~HasIdentity(u) PROVE FALSE
  OBVIOUS
<1>1. {i \in identities : i.user = u} = {}
  BY DEF HasIdentity
<1> QED
  BY <1>1, FS_EmptySet DEF CountAuthIdentitiesForUser

LEMMA AttemptFits ==
  ASSUME Inv, NEW from \in {"sso", "signup", "verify"}, NEW k \in Keys, NEW e \in Emails,
         NEW trusted \in BOOLEAN, NEW doc \in Nat \cup Flows \cup {None}, Own(k, e),
         from = "verify" => doc \in DOMAIN signups /\ k = Key(Local, signups[doc].email),
         NEW r, r = Attempt(from, k, e, trusted, doc)
  PROVE  r \in Handlers /\ Carries(r) /\ Knows(r) /\ r.pc = "find"
<1> DEFINE flag == CountAuthIdentitiesForUser(e) > 0
<1>1. flag \in BOOLEAN /\ (flag => HasIdentity(e))
  BY ClaimedHasIdentity
<1>2. r = [pc |-> "find", from |-> from, key |-> k, email |-> e, trusted |-> trusted,
           via |-> None, doc |-> doc, link |-> None, claimed |-> flag]
  BY DEF Attempt, Idle
<1> HIDE DEF flag
<1>3. r \in Handlers
  BY <1>1, <1>2 DEF Handlers
<1> QED
  BY <1>1, <1>2, <1>3
  DEF Carries, Knows, Trip, Storing, Named, Resolving, Confirming, Joined, Verifying

LEMMA LocalKey == ASSUME NEW e \in Emails PROVE Key(Local, e) \in Keys /\ Own(Key(Local, e), e)
  BY DEF Keys, Key, Own

LEMMA BeginSignupKeeps ==
  ASSUME Inv, NEW q \in Requests, NEW e \in Emails, BeginSignup(q, e)
  PROVE  Inv' /\ Grows
<1> DEFINE r == Start(settings["confirm"], e)
<1>1. r \in Handlers /\ Carries(r) /\ Knows(r) /\ r.pc # "notify"
  <2>1. CASE settings["confirm"]
    <3>1. r = [pc |-> "store", from |-> None, key |-> None, email |-> e, trusted |-> FALSE,
               via |-> None, doc |-> None, link |-> None, claimed |-> FALSE]
      BY <2>1 DEF Start, Idle
    <3>2. r \in Handlers
      BY <3>1 DEF Handlers
    <3> QED
      BY <3>1, <3>2
      DEF Carries, Knows, Trip, Storing, Named, Resolving, Confirming, Joined, Verifying
  <2>2. CASE ~settings["confirm"]
    <3>1. r = Attempt("signup", Key(Local, e), e, FALSE, None)
      BY <2>2 DEF Start
    <3> HIDE DEF r
    <3> QED BY <3>1, AttemptFits, LocalKey
  <2> QED BY <2>1, <2>2
<1>2. req' = [req EXCEPT ![q] = r] /\ UNCHANGED tables
  BY DEF BeginSignup, Accept
<1> QED
  BY <1>1, <1>2, HandlerMovesAlone

LEMMA BeginVerifyKeeps ==
  ASSUME Inv, NEW q \in Requests, NEW i \in DOMAIN signups, BeginVerify(q, i)
  PROVE  Inv' /\ Grows
<1> DEFINE e == signups[i].email
           r == Attempt("verify", Key(Local, e), e, FALSE, i)
<1>1. e \in Emails /\ i \in Nat
  <2>1. signups[i] \in SignupRows /\ i \in Nat
    BY ElementOfSeq DEF Inv, SignupsOK
  <2> QED BY <2>1 DEF SignupRows
<1>2. req' = [req EXCEPT ![q] = r] /\ UNCHANGED tables
  BY DEF BeginVerify, Accept
<1>3. r \in Handlers /\ Carries(r) /\ Knows(r) /\ r.pc # "notify"
  <2>1. PICK k : k = Key(Local, e)
    OBVIOUS
  <2>2. k \in Keys /\ Own(k, e)
    BY <1>1, <2>1, LocalKey
  <2>3. r = Attempt("verify", k, e, FALSE, i)
    BY <2>1
  <2> HIDE DEF r
  <2> QED BY <1>1, <2>1, <2>2, <2>3, AttemptFits
<1> QED
  BY <1>2, <1>3, HandlerMovesAlone

\* A link is for an account, and its key is that account's if it is local.
LEMMA LinkRow ==
  ASSUME Inv, NEW l \in DOMAIN links
  PROVE  /\ links[l] \in LinkRows /\ links[l].key \in Keys /\ l \in Nat
         /\ links[l].user \in users /\ links[l].user \in Emails
         /\ Own(links[l].key, links[l].user)
<1>1. links[l] \in LinkRows /\ l \in Nat
  BY ElementOfSeq DEF Inv, LinksOK
<1> QED
  BY <1>1 DEF Inv, LinksOK, LinkRows, AccountsOK

LEMMA LinkingFits ==
  ASSUME Inv, NEW l \in DOMAIN links, NEW from \in {"mail", "approved"},
         from = "mail" => links[l].mailed = "token",
         from = "approved" => links[l].user \in signedIn,
         NEW r, r = Linking(l, links[l].user, from)
  PROVE  r \in Handlers /\ Carries(r) /\ Knows(r) /\ r.pc # "notify"
<1>1. r = [pc |-> "link", from |-> from, key |-> links[l].key, email |-> links[l].user,
           trusted |-> FALSE, via |-> None, doc |-> None, link |-> l, claimed |-> FALSE]
  BY DEF Linking, Idle
<1>2. r \in Handlers
  BY <1>1, LinkRow DEF Handlers
<1> QED
  BY <1>1, <1>2, LinkRow
  DEF Carries, Knows, Trip, Storing, Named, Resolving, Confirming, Joined, Verifying

LEMMA LinkArrivesKeeps ==
  ASSUME Inv, NEW q \in Requests, LinkArrives(q)
  PROVE  Inv' /\ Grows
<1>1. PICK l \in DOMAIN links : BeginConfirm(q, l) \/ \E u \in users : BeginApprove(q, l, u)
  BY DEF LinkArrives
<1>2. CASE BeginConfirm(q, l)
  <2>1. links[l].mailed = "token"
    BY <1>2 DEF BeginConfirm, FindPendingLinkRequestByToken
  <2>2. req' = [req EXCEPT ![q] = Linking(l, links[l].user, "mail")] /\ UNCHANGED tables
    BY <1>2 DEF BeginConfirm, Accept
  <2> QED BY <2>1, <2>2, LinkingFits, HandlerMovesAlone
<1>3. ASSUME NEW u \in users, BeginApprove(q, l, u) PROVE Inv' /\ Grows
  <2>1. u = links[l].user /\ u \in signedIn
    BY <1>3 DEF BeginApprove, CanApprove
  <2>2. req' = [req EXCEPT ![q] = Linking(l, links[l].user, "approved")] /\ UNCHANGED tables
    BY <1>3, <2>1 DEF BeginApprove, Accept
  <2> QED BY <2>1, <2>2, LinkingFits, HandlerMovesAlone
<1> QED
  BY <1>1, <1>2, <1>3

\* An answer to a flow.
LEMMA AnswerKeeps ==
  ASSUME Inv, NEW q \in Requests, NEW f \in Flows, NEW c \in Configs,
         NEW pc \in {"request id", "state"}, Answer(q, f, c, pc), UNCHANGED tables,
         configs[c].trusted \in BOOLEAN
  PROVE  Inv' /\ Grows
<1>1. PICK r : r = [Idle EXCEPT !.pc = pc, !.from = "sso", !.doc = f, !.key = Key(c, None),
                                !.trusted = configs[c].trusted]
  OBVIOUS
<1>2. r = [pc |-> pc, from |-> "sso", key |-> Key(c, None), email |-> None,
           trusted |-> configs[c].trusted, via |-> None, doc |-> f, link |-> None,
           claimed |-> FALSE]
  BY <1>1 DEF Idle
<1>3. r \in Handlers
  <2>1. Key(c, None) \in {Key(d, None) : d \in Configs}
    OBVIOUS
  <2> QED BY <1>2, <2>1 DEF Handlers
<1>4. Carries(r) /\ Knows(r) /\ r.pc # "notify"
  BY <1>2 DEF Carries, Knows, Trip, Storing, Named, Resolving, Confirming, Joined, Verifying
<1>5. req' = [req EXCEPT ![q] = r]
  BY <1>1 DEF Answer, Accept
<1> QED
  BY <1>3, <1>4, <1>5, HandlerMovesAlone

\* The request or the state is consumed, and it is this provider's or not.
LEMMA ConsumeKeeps ==
  ASSUME Inv, NEW q \in Requests, ConsumeRequest(q) \/ ConsumeState(q)
  PROVE  Inv' /\ Grows
<1>1. UNCHANGED tables /\ req[q].pc \in {"request id", "state"}
  BY DEF ConsumeRequest, ConsumeState
<1>2. ASSUME NEW pc \in {"assertion", "exchange"}, Goto(q, pc) PROVE Inv' /\ Grows
  <2>1. PICK r : r = [req[q] EXCEPT !.pc = pc]
    OBVIOUS
  <2>2. pc \in Steps
    BY DEF Steps, Trip
  <2>3. /\ r \in Handlers /\ req' = [req EXCEPT ![q] = r] /\ r.pc = pc
        /\ r.key = req[q].key /\ r.doc = req[q].doc /\ Carries(req[q])
    BY <1>2, <2>1, <2>2, GotoFits
  <2>4. Carries(r) /\ Knows(r)
    BY <1>1, <2>3
    DEF Carries, Knows, Trip, Storing, Named, Resolving, Confirming, Joined, Verifying
  <2> QED BY <1>1, <2>3, <2>4, HandlerMovesAlone
<1>3. CASE Done(q)
  BY <1>1, <1>3, DoneKeeps
<1> QED
  BY <1>2, <1>3 DEF ConsumeRequest, ConsumeState

LEMMA ToResolveKeeps ==
  ASSUME Inv, NEW q \in Requests, req[q].pc \in Trip, UNCHANGED tables,
         NEW s \in Subjects, NEW e \in Emails, NEW trusted \in BOOLEAN,
         ToResolve(q, s, e, trusted)
  PROVE  Inv' /\ Grows
<1>1. PICK c \in Configs : req[q].key = Key(c, None)
  BY DEF Inv, HandlersOK, Carries
<1>2. PICK k : k = Key(req[q].key.provider, s)
  OBVIOUS
<1>3. k = Key(c, s)
  BY <1>1, <1>2 DEF Key
<1>4. k \in Keys /\ Own(k, e)
  BY <1>3, LinkingAssumption DEF Keys, Key, Own
<1>5. PICK r : r = Attempt("sso", k, e, trusted, None)
  OBVIOUS
<1>6. r \in Handlers /\ Carries(r) /\ Knows(r) /\ r.pc # "notify"
  BY <1>4, <1>5, AttemptFits
<1>7. req' = [req EXCEPT ![q] = r]
  BY <1>2, <1>5 DEF ToResolve
<1> QED
  BY <1>6, <1>7, HandlerMovesAlone

-----------------------------------------------------------------------------
(***************************************************************************)
(* What a statement does to its table.                                     *)
(***************************************************************************)

LEMMA UserAdded ==
  ASSUME Inv, NEW e \in Emails, CreateUser(e),
         UNCHANGED <<identities, links, signups, creds, signedIn>>
  PROVE  TablesOK' /\ Grows
BY DEF Inv, CreateUser, TablesOK, AccountsOK, IdentitiesOK, LinksOK, SignupsOK, Grows

LEMMA IdentityAdded ==
  ASSUME Inv, NEW k \in Keys, NEW u \in users, NEW via \in Vias, NEW claimed \in BOOLEAN,
         Own(k, u), CreateAuthIdentity(k, u, via, claimed),
         UNCHANGED <<users, links, signups, creds, signedIn>>
  PROVE  TablesOK' /\ Grows /\ \E i \in identities' : i.key = k /\ i.user = u
<1> DEFINE new == [key |-> k, user |-> u, via |-> via, claimed |-> claimed]
<1>1. identities' = identities \cup {new}
  BY DEF CreateAuthIdentity
<1>2. new \in IdentityRows
  BY DEF Inv, AccountsOK, IdentityRows
<1>3. new.key = k /\ new.user = u
  OBVIOUS
<1> HIDE DEF new
<1>4. IsFiniteSet(identities')
  BY <1>1, FS_AddElement DEF Inv, IdentitiesOK
<1>5. IdentitiesOK'
  BY <1>1, <1>2, <1>3, <1>4 DEF Inv, IdentitiesOK, Own
<1> QED
  BY <1>1, <1>3, <1>5 DEF Inv, TablesOK, AccountsOK, LinksOK, SignupsOK, Grows

LEMMA LinkAdded ==
  ASSUME Inv, NEW k \in Keys, NEW u \in users, Own(k, u), CreatePendingLinkRequest(k, u),
         UNCHANGED <<users, identities, signups, creds, signedIn>>
  PROVE  /\ TablesOK' /\ Grows
         /\ Len(links) + 1 \in DOMAIN links' /\ Len(links) + 1 \notin DOMAIN links
         /\ links'[Len(links) + 1].key = k /\ links'[Len(links) + 1].user = u
         /\ links'[Len(links) + 1].mailed = "nothing"
         /\ \A l \in DOMAIN links : links'[l] = links[l]
<1> DEFINE new == [key |-> k, user |-> u, mailed |-> "nothing", confirmed |-> FALSE,
                   expired |-> FALSE]
           n == Len(links) + 1
<1>1. links' = Append(links, new) /\ links \in Seq(LinkRows)
  BY DEF CreatePendingLinkRequest, Inv, LinksOK
<1>2. new \in LinkRows
  BY DEF Inv, AccountsOK, LinkRows
<1>3. new.key = k /\ new.user = u /\ new.mailed = "nothing"
  OBVIOUS
<1> HIDE DEF new
<1>4. links' \in Seq(LinkRows) /\ DOMAIN links' = 1..n /\ links'[n] = new
  BY <1>1, <1>2
<1>5. DOMAIN links = 1..Len(links) /\ \A l \in DOMAIN links : links'[l] = links[l]
  BY <1>1, <1>2
<1>6. n \in Nat \ {0} /\ DOMAIN links' = DOMAIN links \cup {n} /\ n \notin DOMAIN links
  BY <1>1, <1>4, <1>5
<1>7. LinksOK'
  BY <1>3, <1>4, <1>5, <1>6 DEF Inv, LinksOK
<1>8. Grows
  BY <1>5, <1>6 DEF Grows
<1> QED
  BY <1>3, <1>4, <1>5, <1>6, <1>7, <1>8 DEF Inv, TablesOK, AccountsOK, IdentitiesOK, SignupsOK

LEMMA LinkChanged ==
  ASSUME Inv, NEW l \in DOMAIN links, NEW new \in LinkRows,
         new.key = links[l].key, new.user = links[l].user,
         links[l].mailed = "token" => new.mailed = "token",
         links' = [links EXCEPT ![l] = new],
         UNCHANGED <<users, identities, signups, creds, signedIn>>
  PROVE  /\ TablesOK' /\ Grows /\ links'[l] = new
         /\ \A m \in DOMAIN links \ {l} : links'[m] = links[m]
<1>1. links \in Seq(LinkRows) /\ DOMAIN links = 1..Len(links)
  BY DEF Inv, LinksOK
<1>2. links' \in Seq(LinkRows)
  BY <1>1, ExceptSeq
<1>3. DOMAIN links' = DOMAIN links /\ links'[l] = new /\ \A m \in DOMAIN links \ {l} : links'[m] = links[m]
  OBVIOUS
<1>4. LinksOK'
  BY <1>2, <1>3 DEF Inv, LinksOK
<1>5. Grows
  BY <1>3 DEF Grows
<1> QED
  BY <1>3, <1>4, <1>5 DEF Inv, TablesOK, AccountsOK, IdentitiesOK, SignupsOK

LEMMA SignupAdded ==
  ASSUME Inv, NEW e \in Emails, CreatePendingSignup(e),
         UNCHANGED <<users, identities, links, creds, signedIn>>
  PROVE  TablesOK' /\ Grows /\ Len(signups) + 1 \in DOMAIN signups' /\ Len(signups) + 1 \in Nat
<1> DEFINE new == [email |-> e, mailed |-> FALSE, expired |-> FALSE, stored |-> TRUE]
<1>1. signups' = Append(signups, new) /\ signups \in Seq(SignupRows)
  BY DEF CreatePendingSignup, Inv, SignupsOK
<1>2. new \in SignupRows
  BY DEF SignupRows
<1> HIDE DEF new
<1>3. /\ signups' \in Seq(SignupRows) /\ DOMAIN signups' = 1..(Len(signups) + 1)
      /\ DOMAIN signups = 1..Len(signups) /\ Len(signups) \in Nat
      /\ \A i \in DOMAIN signups : signups'[i] = signups[i]
  BY <1>1, <1>2
<1>4. DOMAIN signups \subseteq DOMAIN signups'
  BY <1>3
<1>5. Grows
  BY <1>3, <1>4 DEF Grows
<1> QED
  BY <1>3, <1>5 DEF Inv, TablesOK, AccountsOK, IdentitiesOK, LinksOK, SignupsOK

LEMMA SignupChanged ==
  ASSUME Inv, NEW i \in DOMAIN signups, NEW new \in SignupRows, new.email = signups[i].email,
         signups' = [signups EXCEPT ![i] = new],
         UNCHANGED <<users, identities, links, creds, signedIn>>
  PROVE  /\ TablesOK' /\ Grows /\ signups'[i] = new
         /\ \A m \in DOMAIN signups \ {i} : signups'[m] = signups[m]
<1>1. signups \in Seq(SignupRows) /\ DOMAIN signups = 1..Len(signups)
  BY DEF Inv, SignupsOK
<1>2. signups' \in Seq(SignupRows)
  BY <1>1, ExceptSeq
<1>3. /\ DOMAIN signups' = DOMAIN signups /\ signups'[i] = new
      /\ \A m \in DOMAIN signups \ {i} : signups'[m] = signups[m]
  OBVIOUS
<1>4. Grows
  BY <1>3 DEF Grows
<1> QED
  BY <1>2, <1>3, <1>4 DEF Inv, TablesOK, AccountsOK, IdentitiesOK, LinksOK, SignupsOK

-----------------------------------------------------------------------------
(***************************************************************************)
(* Resolve.                                                                *)
(***************************************************************************)

LEMMA FindIdentityKeeps ==
  ASSUME Inv, NEW q \in Requests, FindIdentity(q)
  PROVE  Inv' /\ Grows
<1>1. req[q].pc = "find" /\ UNCHANGED tables
  BY DEF FindIdentity
<1>2. req[q] \in Handlers /\ Carries(req[q]) /\ Knows(req[q])
  BY DEF Inv, HandlersOK
<1>3. CASE Goto(q, "lookup")
  <2>1. PICK r : r = [req[q] EXCEPT !.pc = "lookup"]
    OBVIOUS
  <2>2. "lookup" \in Steps
    BY DEF Steps, Named, Resolving
  <2>3. /\ r \in Handlers /\ req' = [req EXCEPT ![q] = r]
        /\ r.pc = "lookup" /\ r.from = req[q].from /\ r.key = req[q].key /\ r.email = req[q].email
        /\ r.doc = req[q].doc /\ r.claimed = req[q].claimed
    BY <1>3, <2>1, <2>2, GotoFits
  <2>4. Carries(r) /\ Knows(r)
    BY <1>1, <1>2, <2>3
    DEF Carries, Knows, Trip, Storing, Named, Resolving, Confirming, Joined, Verifying
  <2> QED BY <1>1, <2>3, <2>4, HandlerMovesAlone
<1>4. ASSUME NEW i \in FindAuthIdentity(req[q].key), i.user = req[q].email, Goto(q, Resolved(q))
      PROVE  Inv' /\ Grows
  <2>1. PICK pc : pc = Resolved(q)
    OBVIOUS
  <2>2. PICK r : r = [req[q] EXCEPT !.pc = pc]
    OBVIOUS
  <2>3. pc \in {"session", "password"}
    BY <2>1 DEF Resolved
  <2>4. pc \in Steps
    BY <2>3 DEF Steps, Named
  <2>5. /\ r \in Handlers /\ req' = [req EXCEPT ![q] = r]
        /\ r.pc = pc /\ r.from = req[q].from /\ r.key = req[q].key /\ r.email = req[q].email
        /\ r.doc = req[q].doc
    BY <1>4, <2>1, <2>2, <2>4, GotoFits
  <2>6. req[q].email \in users
    BY <1>4 DEF FindAuthIdentity, Inv, IdentitiesOK
  <2>7. Carries(r) /\ Knows(r)
    BY <1>1, <1>2, <2>3, <2>5, <2>6
    DEF Carries, Knows, Trip, Storing, Named, Resolving, Confirming, Joined, Verifying
  <2> QED BY <1>1, <2>3, <2>5, <2>7, HandlerMovesAlone
<1>5. ASSUME NEW i \in FindAuthIdentity(req[q].key), i.user # req[q].email,
             req' = [req EXCEPT ![q].pc = "request", ![q].email = i.user]
      PROVE  Inv' /\ Grows
  <2>1. i \in identities /\ i.key = req[q].key /\ i.user \in users /\ Own(i.key, i.user)
    BY <1>5 DEF FindAuthIdentity, Inv, IdentitiesOK
  <2>2. i.user \in Emails /\ HasIdentity(i.user)
    BY <2>1 DEF Inv, AccountsOK, HasIdentity
  <2>3. PICK r : r = [req[q] EXCEPT !.pc = "request", !.email = i.user]
    OBVIOUS
  <2>4. /\ r \in Handlers /\ r.pc = "request" /\ r.from = req[q].from /\ r.key = req[q].key
        /\ r.email = i.user /\ r.doc = req[q].doc /\ r.claimed = req[q].claimed
    BY <1>2, <2>2, <2>3 DEF Handlers
  <2>5. req' = [req EXCEPT ![q] = r]
    BY <1>5, <2>3 DEF Inv, HandlersOK
  <2>6. Carries(r) /\ Knows(r)
    BY <1>1, <1>2, <2>1, <2>2, <2>4
    DEF Carries, Knows, Trip, Storing, Named, Resolving, Confirming, Joined, Verifying
  <2> QED BY <1>1, <2>4, <2>5, <2>6, HandlerMovesAlone
<1> QED
  BY <1>3, <1>4, <1>5 DEF FindIdentity

LEMMA LookupUserKeeps ==
  ASSUME Inv, NEW q \in Requests, LookupUser(q)
  PROVE  Inv' /\ Grows
<1>1. req[q].pc = "lookup" /\ UNCHANGED tables
  BY DEF LookupUser
<1>2. PICK pc : pc = IF FindUserByEmail(req[q].email) = {} THEN "create" ELSE "count"
  OBVIOUS
<1>3. PICK r : r = [req[q] EXCEPT !.pc = pc]
  OBVIOUS
<1>4. pc \in {"create", "count"} /\ (pc = "count" => req[q].email \in users)
  BY <1>2 DEF FindUserByEmail
<1>5. pc \in Steps /\ Goto(q, pc)
  BY <1>2, <1>4 DEF Steps, Named, Resolving, LookupUser
<1>6. /\ r \in Handlers /\ req' = [req EXCEPT ![q] = r] /\ Carries(req[q]) /\ Knows(req[q])
      /\ r.pc = pc /\ r.from = req[q].from /\ r.key = req[q].key /\ r.email = req[q].email
      /\ r.doc = req[q].doc /\ r.claimed = req[q].claimed
  BY <1>3, <1>5, GotoFits
<1>7. Carries(r) /\ Knows(r)
  BY <1>1, <1>4, <1>6
  DEF Carries, Knows, Trip, Storing, Named, Resolving, Confirming, Joined, Verifying
<1> QED
  BY <1>1, <1>4, <1>6, <1>7, HandlerMovesAlone

\* Goes on to attach, by the way via.
LEMMA AttachFits ==
  ASSUME Inv, NEW q \in Requests, req[q].pc \in {"create", "count"},
         NEW via \in {"new", "first", "trusted"}, req[q].claimed => via = "trusted",
         req' = [req EXCEPT ![q].pc = "attach", ![q].via = via],
         TablesOK', Grows, req[q].email \in users', links' = links
  PROVE  Inv'
<1>1. req[q] \in Handlers /\ Carries(req[q]) /\ Knows(req[q])
  BY DEF Inv, HandlersOK
<1>2. PICK s : s = req[q]
  OBVIOUS
<1>3. PICK r : r = [s EXCEPT !.pc = "attach", !.via = via]
  OBVIOUS
<1>4. /\ r \in Handlers /\ r.pc = "attach" /\ r.via = via /\ r.from = s.from /\ r.key = s.key
      /\ r.email = s.email /\ r.doc = s.doc /\ r.claimed = s.claimed
  <2>1. s \in Handlers /\ via \in Vias
    BY <1>1, <1>2 DEF Vias
  <2> QED BY <1>3, <2>1 DEF Handlers
<1>5. req' = [req EXCEPT ![q] = r]
  BY <1>2, <1>3 DEF Inv, HandlersOK
<1>6. Knows(s)'
  BY <1>1, <1>2, KnowsKeep
<1>7. Carries(r) /\ Knows(r)'
  BY <1>1, <1>2, <1>4, <1>6
  DEF Carries, Knows, Trip, Storing, Named, Resolving, Confirming, Joined, Verifying
<1> QED
  BY <1>4, <1>5, <1>7, HandlerMoves DEF Inv, NoticesOK

LEMMA CreateAccountKeeps ==
  ASSUME Inv, NEW q \in Requests, CreateAccount(q)
  PROVE  Inv' /\ Grows
<1>1. req[q] \in Handlers /\ Carries(req[q]) /\ Knows(req[q]) /\ req[q].pc = "create"
  BY DEF Inv, HandlersOK, CreateAccount
<1>2. req[q].email \in Emails
  BY <1>1 DEF Carries, Named, Resolving
<1>3. ~req[q].claimed
  BY <1>1 DEF Knows, Resolving, HasIdentity, Inv, IdentitiesOK, CreateAccount, CreateUser
<1>4. TablesOK' /\ Grows
  BY <1>2, UserAdded DEF CreateAccount
<1> QED
  BY <1>1, <1>3, <1>4, AttachFits DEF CreateAccount, CreateUser

LEMMA CountIdentitiesKeeps ==
  ASSUME Inv, NEW q \in Requests, CountIdentities(q)
  PROVE  Inv' /\ Grows
<1> DEFINE n == CountAuthIdentitiesForUser(req[q].email)
<1>1. /\ req[q] \in Handlers /\ Carries(req[q]) /\ Knows(req[q]) /\ req[q].pc = "count"
      /\ UNCHANGED tables
  BY DEF Inv, HandlersOK, CountIdentities
<1>2. TablesOK' /\ Grows /\ links' = links /\ req[q].email \in users'
  BY <1>1, TablesKeep DEF tables, Knows, Joined, Named, Resolving
<1>3. n = 0 => ~req[q].claimed
  <2> SUFFICES ASSUME n = 0, req[q].claimed PROVE FALSE
    OBVIOUS
  <2> DEFINE S == {i \in identities : i.user = req[q].email}
  <2>1. IsFiniteSet(S)
    BY FS_Subset DEF Inv, IdentitiesOK
  <2>2. S = {}
    BY <2>1, FS_EmptySet DEF CountAuthIdentitiesForUser
  <2> QED BY <1>1, <2>2 DEF Knows, Resolving, HasIdentity
<1>4. CASE n = 0 /\ req' = [req EXCEPT ![q].pc = "attach", ![q].via = "first"]
  BY <1>1, <1>2, <1>3, <1>4, AttachFits
<1>5. CASE req' = [req EXCEPT ![q].pc = "attach", ![q].via = "trusted"]
  BY <1>1, <1>2, <1>5, AttachFits
<1>6. CASE Goto(q, "request")
  <2>1. PICK r : r = [req[q] EXCEPT !.pc = "request"]
    OBVIOUS
  <2>2. "request" \in Steps
    BY DEF Steps, Named, Resolving
  <2>3. /\ r \in Handlers /\ req' = [req EXCEPT ![q] = r]
        /\ r.pc = "request" /\ r.from = req[q].from /\ r.key = req[q].key /\ r.email = req[q].email
        /\ r.doc = req[q].doc /\ r.claimed = req[q].claimed
    BY <1>6, <2>1, <2>2, GotoFits
  <2>4. Carries(r) /\ Knows(r)
    BY <1>1, <2>3
    DEF Carries, Knows, Trip, Storing, Named, Resolving, Confirming, Joined, Verifying
  <2> QED BY <1>1, <2>3, <2>4, HandlerMovesAlone
<1> QED
  BY <1>4, <1>5, <1>6 DEF CountIdentities

LEMMA AttachIdentityKeeps ==
  ASSUME Inv, NEW q \in Requests, AttachIdentity(q)
  PROVE  Inv' /\ Grows
<1>1. PICK s : s = req[q]
  OBVIOUS
<1>2. s \in Handlers /\ Carries(s) /\ Knows(s) /\ s.pc = "attach"
  BY <1>1 DEF Inv, HandlersOK, AttachIdentity
<1>3. /\ s.key \in Keys /\ s.email \in users /\ s.via \in Vias /\ s.claimed \in BOOLEAN
      /\ Own(s.key, s.email)
  BY <1>2 DEF Carries, Knows, Joined, Named, Resolving, Handlers, Vias
<1>4. TablesOK' /\ Grows
  BY <1>1, <1>3, IdentityAdded DEF AttachIdentity
<1>5. PICK pc : pc = Resolved(q)
  OBVIOUS
<1>6. pc \in {"session", "password"}
  BY <1>5 DEF Resolved
<1>7. PICK r : r = [req[q] EXCEPT !.pc = pc]
  OBVIOUS
<1>8. pc \in Steps /\ Goto(q, pc)
  BY <1>5, <1>6 DEF Steps, Named, AttachIdentity
<1>9. /\ r \in Handlers /\ req' = [req EXCEPT ![q] = r]
      /\ r.pc = pc /\ r.from = s.from /\ r.key = s.key /\ r.email = s.email /\ r.doc = s.doc
  BY <1>1, <1>7, <1>8, GotoFits
<1>10. Knows(s)'
  BY <1>2, <1>4, KnowsKeep
<1>11. Carries(r) /\ Knows(r)'
  BY <1>2, <1>6, <1>9, <1>10
  DEF Carries, Knows, Trip, Storing, Named, Resolving, Confirming, Joined, Verifying
<1>12. links' = links
  BY DEF AttachIdentity
<1> QED
  BY <1>4, <1>6, <1>9, <1>11, <1>12, HandlerMoves DEF Inv, NoticesOK

LEMMA RequestConfirmationKeeps ==
  ASSUME Inv, NEW q \in Requests, RequestConfirmation(q)
  PROVE  Inv' /\ Grows
<1>1. PICK s : s = req[q]
  OBVIOUS
<1>2. s \in Handlers /\ Carries(s) /\ Knows(s) /\ s.pc = "request"
  BY <1>1 DEF Inv, HandlersOK, RequestConfirmation
<1>3. s.key \in Keys /\ s.email \in users /\ Own(s.key, s.email)
  BY <1>2 DEF Carries, Knows, Joined, Named, Resolving
<1>4. PICK n : n = Len(links) + 1
  OBVIOUS
<1>5. /\ TablesOK' /\ Grows
      /\ n \in DOMAIN links' /\ n \notin DOMAIN links
      /\ links'[n].key = s.key /\ links'[n].user = s.email /\ links'[n].mailed = "nothing"
      /\ \A l \in DOMAIN links : links'[l] = links[l]
  BY <1>1, <1>3, <1>4, LinkAdded DEF RequestConfirmation
<1>6. PICK r : r = [s EXCEPT !.pc = "notify", !.link = n]
  OBVIOUS
<1>7. n \in Nat
  BY <1>4 DEF Inv, LinksOK
<1>8. /\ r \in Handlers /\ r.pc = "notify" /\ r.link = n /\ r.from = s.from /\ r.key = s.key
      /\ r.email = s.email /\ r.doc = s.doc /\ r.claimed = s.claimed
  BY <1>2, <1>6, <1>7 DEF Handlers
<1>9. req' = [req EXCEPT ![q] = r]
  BY <1>1, <1>4, <1>6 DEF RequestConfirmation, Inv, HandlersOK
<1>10. Knows(s)'
  BY <1>2, <1>5, KnowsKeep
<1>11. Carries(r) /\ Knows(r)'
  BY <1>2, <1>5, <1>8, <1>10
  DEF Carries, Knows, Trip, Storing, Named, Resolving, Confirming, Joined, Verifying
<1>12. req'[q] = r /\ \A p \in Requests \ {q} : req'[p] = req[p]
  BY <1>9 DEF Inv, HandlersOK
<1>13. \A p \in Requests : Carries(req'[p]) /\ Knows(req[p])'
  <2> SUFFICES ASSUME NEW p \in Requests PROVE Carries(req'[p]) /\ Knows(req[p])'
    OBVIOUS
  <2>1. CASE p = q
    BY <1>11, <1>12, <2>1 DEF Knows
  <2>2. CASE p # q
    <3>1. PICK t : t = req[p]
      OBVIOUS
    <3>2. Carries(t) /\ Knows(t) /\ req'[p] = t
      BY <1>12, <2>2, <3>1 DEF Inv, HandlersOK
    <3>3. Knows(t)'
      BY <1>5, <3>2, KnowsKeep
    <3> QED BY <3>2, <3>3 DEF Knows
  <2> QED BY <2>1, <2>2
<1>14. HandlersOK'
  BY <1>8, <1>9, <1>13 DEF Inv, HandlersOK
<1>15. \A p \in Requests \ {q} : req[p].pc = "notify" => req[p].link \in DOMAIN links
  BY DEF Inv, HandlersOK, Knows
<1>16. NoticesOK'
  BY <1>5, <1>8, <1>12, <1>15 DEF Inv, NoticesOK
<1> QED
  BY <1>5, <1>14, <1>16 DEF Inv, TablesOK

LEMMA NotifyKeeps ==
  ASSUME Inv, NEW q \in Requests, Notify(q)
  PROVE  Inv' /\ Grows
<1>1. PICK s : s = req[q]
  OBVIOUS
<1>2. s \in Handlers /\ Carries(s) /\ Knows(s) /\ s.pc = "notify"
  BY <1>1 DEF Inv, HandlersOK, Notify
<1>3. PICK l : l = s.link
  OBVIOUS
<1>4. l \in DOMAIN links /\ links[l].mailed = "nothing"
  BY <1>1, <1>2, <1>3 DEF Knows, Inv, NoticesOK
<1>5. PICK mail : mail = IF settings["reauth"] THEN "notice" ELSE "token"
  OBVIOUS
<1>6. PICK new : new = [links[l] EXCEPT !.mailed = mail]
  OBVIOUS
<1>7. new \in LinkRows /\ new.key = links[l].key /\ new.user = links[l].user
  BY <1>4, <1>5, <1>6, LinkRow DEF LinkRows
<1>8. links' = [links EXCEPT ![l] = new]
  BY <1>1, <1>3, <1>5, <1>6 DEF Notify
<1>9. /\ TablesOK' /\ Grows
      /\ \A m \in DOMAIN links \ {l} : links'[m] = links[m]
  BY <1>4, <1>7, <1>8, LinkChanged DEF Notify
<1>10. \A p \in Requests \ {q} : req[p].pc = "notify" =>
         links'[req[p].link].mailed = "nothing"
  <2> SUFFICES ASSUME NEW p \in Requests \ {q}, req[p].pc = "notify"
               PROVE  links'[req[p].link].mailed = "nothing"
    OBVIOUS
  <2>1. req[p].link \in DOMAIN links /\ links[req[p].link].mailed = "nothing"
    BY DEF Inv, HandlersOK, NoticesOK, Knows
  <2>2. req[p].link # l
    BY <1>1, <1>2, <1>3 DEF Inv, NoticesOK
  <2> QED BY <1>9, <2>1, <2>2
<1>11. Knows(s)'
  BY <1>2, <1>9, KnowsKeep
<1>12. CASE s.from = "verify" /\ Goto(q, "dismiss")
  <2>1. PICK r : r = [req[q] EXCEPT !.pc = "dismiss"]
    OBVIOUS
  <2>2. "dismiss" \in Steps
    BY DEF Steps, Named
  <2>3. /\ r \in Handlers /\ req' = [req EXCEPT ![q] = r]
        /\ r.pc = "dismiss" /\ r.from = s.from /\ r.key = s.key /\ r.email = s.email
        /\ r.doc = s.doc /\ r.link = s.link
    BY <1>1, <1>12, <2>1, <2>2, GotoFits
  <2>4. Carries(r) /\ Knows(r)'
    BY <1>2, <1>11, <1>12, <2>3
    DEF Carries, Knows, Trip, Storing, Named, Resolving, Confirming, Joined, Verifying
  <2> QED BY <1>9, <1>10, <2>3, <2>4, HandlerMoves
<1>13. CASE Done(q)
  <2>1. Knows(Idle)' /\ Idle.pc # "notify"
    BY <1>9, IdleFits, KnowsKeep DEF Idle
  <2> QED BY <1>9, <1>10, <1>13, <2>1, IdleFits, HandlerMoves DEF Done
<1> QED
  BY <1>1, <1>12, <1>13 DEF Notify

-----------------------------------------------------------------------------
(***************************************************************************)
(* What the callers of Resolve do, and the links.                          *)
(***************************************************************************)

LEMMA StoreSignupKeeps ==
  ASSUME Inv, NEW q \in Requests, StoreSignup(q)
  PROVE  Inv' /\ Grows
<1>1. PICK s : s = req[q]
  OBVIOUS
<1>2. s \in Handlers /\ Carries(s) /\ Knows(s) /\ s.pc = "store"
  BY <1>1 DEF Inv, HandlersOK, StoreSignup
<1>3. PICK n : n = Len(signups) + 1
  OBVIOUS
<1>4. TablesOK' /\ Grows /\ n \in DOMAIN signups' /\ n \in Nat /\ links' = links
  BY <1>1, <1>2, <1>3, SignupAdded DEF StoreSignup, Carries, Storing
<1>5. PICK r : r = [s EXCEPT !.pc = "mail", !.doc = n]
  OBVIOUS
<1>6. r \in Handlers /\ r.pc = "mail" /\ r.doc = n /\ r.email = s.email
  BY <1>2, <1>4, <1>5 DEF Handlers
<1>7. req' = [req EXCEPT ![q] = r]
  BY <1>1, <1>3, <1>5 DEF StoreSignup, Inv, HandlersOK
<1>8. Carries(r) /\ Knows(r)'
  BY <1>2, <1>4, <1>6
  DEF Carries, Knows, Trip, Storing, Named, Resolving, Confirming, Joined, Verifying
<1> QED
  BY <1>4, <1>6, <1>7, <1>8, HandlerMoves DEF Inv, NoticesOK

\* A request ends with a statement that left the links' mails alone.
LEMMA EndsKeep ==
  ASSUME Inv, NEW q \in Requests, Done(q), TablesOK', Grows,
         \A l \in DOMAIN links : links'[l].mailed = links[l].mailed
  PROVE  Inv'
<1>1. Idle.pc # "notify"
  BY DEF Idle
<1>2. Knows(Idle)'
  BY IdleFits, KnowsKeep
<1>3. \A p \in Requests \ {q} : req[p].pc = "notify" => links'[req[p].link].mailed = "nothing"
  BY DEF Inv, HandlersOK, NoticesOK, Knows
<1> QED
  BY <1>1, <1>2, <1>3, IdleFits, HandlerMoves DEF Done

\* One that goes on after it.
LEMMA GoesOn ==
  ASSUME Inv, NEW q \in Requests, NEW pc \in Steps, pc # "notify", Goto(q, pc), TablesOK', Grows,
         \A l \in DOMAIN links : links'[l].mailed = links[l].mailed,
         NEW r, r = [req[q] EXCEPT !.pc = pc], Carries(r), Knows(r)'
  PROVE  Inv'
<1>1. r \in Handlers /\ req' = [req EXCEPT ![q] = r] /\ r.pc = pc
  BY GotoFits
<1>2. \A p \in Requests \ {q} : req[p].pc = "notify" => links'[req[p].link].mailed = "nothing"
  BY DEF Inv, HandlersOK, NoticesOK, Knows
<1> QED
  BY <1>1, <1>2, HandlerMoves

\* A change of one verification record that leaves its address.
LEMMA SignupRow ==
  ASSUME Inv, NEW i \in DOMAIN signups, NEW b \in BOOLEAN
  PROVE  /\ [signups[i] EXCEPT !.mailed = b] \in SignupRows
         /\ [signups[i] EXCEPT !.expired = b] \in SignupRows
         /\ [signups[i] EXCEPT !.stored = b] \in SignupRows
         /\ [signups[i] EXCEPT !.mailed = b].email = signups[i].email
         /\ [signups[i] EXCEPT !.expired = b].email = signups[i].email
         /\ [signups[i] EXCEPT !.stored = b].email = signups[i].email
<1>1. signups[i] \in SignupRows
  BY ElementOfSeq DEF Inv, SignupsOK
<1> QED
  BY <1>1 DEF SignupRows

LEMMA MailSignupKeeps ==
  ASSUME Inv, NEW q \in Requests, MailSignup(q)
  PROVE  Inv' /\ Grows
<1>1. PICK i : i = req[q].doc
  OBVIOUS
<1>2. i \in DOMAIN signups
  BY <1>1 DEF Inv, HandlersOK, MailSignup, Knows
<1>3. PICK new : new = [signups[i] EXCEPT !.mailed = TRUE]
  OBVIOUS
<1>4. new \in SignupRows /\ new.email = signups[i].email
  BY <1>2, <1>3, SignupRow
<1>5. signups' = [signups EXCEPT ![i] = new]
  BY <1>1, <1>3 DEF MailSignup
<1>6. TablesOK' /\ Grows /\ links' = links
  BY <1>2, <1>4, <1>5, SignupChanged DEF MailSignup
<1> QED
  BY <1>6, EndsKeep DEF MailSignup

\* An account gets a password or a session.
LEMMA AccountChanged ==
  ASSUME Inv, creds \subseteq creds', creds' \subseteq users, signedIn \subseteq signedIn',
         signedIn' \subseteq users, UNCHANGED <<users, identities, links, signups>>
  PROVE  TablesOK' /\ Grows
BY DEF Inv, TablesOK, AccountsOK, IdentitiesOK, LinksOK, SignupsOK, Grows

LEMMA SetPasswordKeeps ==
  ASSUME Inv, NEW q \in Requests, SetPassword(q)
  PROVE  Inv' /\ Grows
<1>1. PICK s : s = req[q]
  OBVIOUS
<1>2. s \in Handlers /\ Carries(s) /\ Knows(s) /\ s.pc = "password"
  BY <1>1 DEF Inv, HandlersOK, SetPassword
<1>3. s.email \in users
  BY <1>2 DEF Knows, Joined, Named
<1>4. TablesOK' /\ Grows /\ links' = links /\ s.email \in creds'
  BY <1>1, <1>3, AccountChanged DEF SetPassword, Inv, AccountsOK
<1>5. PICK pc : pc = IF s.from = "verify" THEN "forget" ELSE "session"
  OBVIOUS
<1>6. PICK r : r = [req[q] EXCEPT !.pc = pc]
  OBVIOUS
<1>7. pc \in Steps /\ pc # "notify" /\ Goto(q, pc)
  BY <1>1, <1>5 DEF Steps, Named, SetPassword
<1>8. r.pc = pc /\ r.from = s.from /\ r.key = s.key /\ r.email = s.email /\ r.doc = s.doc
  BY <1>1, <1>6, <1>7, GotoFits
<1>9. Knows(s)'
  BY <1>2, <1>4, KnowsKeep
<1>10. Carries(r) /\ Knows(r)'
  BY <1>2, <1>4, <1>5, <1>8, <1>9
  DEF Carries, Knows, Trip, Storing, Named, Resolving, Confirming, Joined, Verifying
<1> QED
  BY <1>4, <1>6, <1>7, <1>10, GoesOn

LEMMA ForgetKeeps ==
  ASSUME Inv, NEW q \in Requests, Forget(q)
  PROVE  Inv' /\ Grows
<1>1. PICK s : s = req[q]
  OBVIOUS
<1>2. s \in Handlers /\ Carries(s) /\ Knows(s) /\ s.pc \in {"forget", "dismiss"}
  BY <1>1 DEF Inv, HandlersOK, Forget
<1>3. PICK i : i = s.doc
  OBVIOUS
<1>4. i \in DOMAIN signups
  BY <1>2, <1>3 DEF Carries, Knows, Verifying
<1>5. PICK new : new = [signups[i] EXCEPT !.stored = FALSE]
  OBVIOUS
<1>6. new \in SignupRows /\ new.email = signups[i].email
  BY <1>4, <1>5, SignupRow
<1>7. signups' = [signups EXCEPT ![i] = new]
  BY <1>1, <1>3, <1>5 DEF Forget, DeletePendingSignup
<1>8. TablesOK' /\ Grows /\ links' = links
  BY <1>4, <1>6, <1>7, SignupChanged DEF Forget
<1>9. CASE Done(q)
  BY <1>8, <1>9, EndsKeep
<1>10. CASE s.pc = "forget" /\ Goto(q, "session")
  <2>1. PICK r : r = [req[q] EXCEPT !.pc = "session"]
    OBVIOUS
  <2>2. "session" \in Steps
    BY DEF Steps, Named
  <2>3. r.pc = "session" /\ r.key = s.key /\ r.email = s.email
    BY <1>1, <1>10, <2>1, <2>2, GotoFits
  <2>4. Knows(s)'
    BY <1>2, <1>8, KnowsKeep
  <2>5. Carries(r) /\ Knows(r)'
    BY <1>2, <1>10, <2>3, <2>4
    DEF Carries, Knows, Trip, Storing, Named, Resolving, Confirming, Joined, Verifying
  <2> QED BY <1>8, <1>10, <2>1, <2>2, <2>5, GoesOn
<1> QED
  BY <1>1, <1>9, <1>10 DEF Forget

LEMMA OpenSessionKeeps ==
  ASSUME Inv, NEW q \in Requests, OpenSession(q)
  PROVE  Inv' /\ Grows
<1>1. req[q].email \in users
  BY DEF Inv, HandlersOK, OpenSession, Knows, Joined, Named
<1>2. TablesOK' /\ Grows /\ links' = links
  BY <1>1, AccountChanged DEF OpenSession, Inv, AccountsOK
<1> QED
  BY <1>2, EndsKeep DEF OpenSession

LEMMA LinkIdentityKeeps ==
  ASSUME Inv, NEW q \in Requests, LinkIdentity(q)
  PROVE  Inv' /\ Grows
<1>1. PICK s : s = req[q]
  OBVIOUS
<1>2. s \in Handlers /\ Carries(s) /\ Knows(s) /\ s.pc = "link"
  BY <1>1 DEF Inv, HandlersOK, LinkIdentity
<1>3. s.key \in Keys /\ s.email \in users /\ Own(s.key, s.email) /\ s.from \in Vias
  BY <1>2 DEF Carries, Knows, Joined, Named, Confirming, Vias
<1>4. TablesOK' /\ Grows /\ \E i \in identities' : i.key = s.key /\ i.user = s.email
  BY <1>1, <1>3, IdentityAdded DEF LinkIdentity
<1>5. PICK r : r = [req[q] EXCEPT !.pc = "mark"]
  OBVIOUS
<1>6. "mark" \in Steps /\ Goto(q, "mark") /\ links' = links
  BY DEF Steps, Named, Confirming, LinkIdentity
<1>7. /\ r.pc = "mark" /\ r.from = s.from /\ r.key = s.key /\ r.email = s.email
      /\ r.link = s.link
  BY <1>1, <1>5, <1>6, GotoFits
<1>8. Knows(s)'
  BY <1>2, <1>4, KnowsKeep
<1>9. Carries(r) /\ Knows(r)'
  BY <1>2, <1>4, <1>7, <1>8
  DEF Carries, Knows, Trip, Storing, Named, Resolving, Confirming, Joined, Verifying
<1> QED
  BY <1>4, <1>5, <1>6, <1>9, GoesOn

\* A change of one link that leaves its key, its account and its mail.
LEMMA LinkFlagged ==
  ASSUME Inv, NEW l \in DOMAIN links, NEW new \in {[links[l] EXCEPT !.confirmed = TRUE],
                                                   [links[l] EXCEPT !.expired = TRUE]},
         links' = [links EXCEPT ![l] = new],
         UNCHANGED <<users, identities, signups, creds, signedIn>>
  PROVE  /\ TablesOK' /\ Grows
         /\ \A m \in DOMAIN links : links'[m].mailed = links[m].mailed
<1>1. /\ new \in LinkRows /\ new.key = links[l].key /\ new.user = links[l].user
      /\ new.mailed = links[l].mailed
  BY LinkRow DEF LinkRows
<1>2. TablesOK' /\ Grows /\ links'[l] = new /\ \A m \in DOMAIN links \ {l} : links'[m] = links[m]
  BY <1>1, LinkChanged
<1> QED
  BY <1>1, <1>2

LEMMA MarkConfirmedKeeps ==
  ASSUME Inv, NEW q \in Requests, MarkConfirmed(q)
  PROVE  Inv' /\ Grows
<1>1. PICK s : s = req[q]
  OBVIOUS
<1>2. s \in Handlers /\ Carries(s) /\ Knows(s) /\ s.pc = "mark"
  BY <1>1 DEF Inv, HandlersOK, MarkConfirmed
<1>3. PICK l : l = s.link
  OBVIOUS
<1>4. l \in DOMAIN links
  BY <1>2, <1>3 DEF Knows, Confirming
<1>5. links' = [links EXCEPT ![l] = [links[l] EXCEPT !.confirmed = TRUE]]
  BY <1>1, <1>3 DEF MarkConfirmed, ConfirmPendingLinkRequest
<1>6. TablesOK' /\ Grows /\ \A m \in DOMAIN links : links'[m].mailed = links[m].mailed
  BY <1>4, <1>5, LinkFlagged DEF MarkConfirmed
<1>7. CASE Done(q)
  BY <1>6, <1>7, EndsKeep
<1>8. CASE Goto(q, "session")
  <2>1. PICK r : r = [req[q] EXCEPT !.pc = "session"]
    OBVIOUS
  <2>2. "session" \in Steps
    BY DEF Steps, Named
  <2>3. r.pc = "session" /\ r.key = s.key /\ r.email = s.email
    BY <1>1, <1>8, <2>1, <2>2, GotoFits
  <2>4. Knows(s)'
    BY <1>2, <1>6, KnowsKeep
  <2>5. Carries(r) /\ Knows(r)'
    BY <1>2, <2>3, <2>4
    DEF Carries, Knows, Trip, Storing, Named, Resolving, Confirming, Joined, Verifying
  <2> QED BY <1>6, <1>8, <2>1, <2>2, <2>5, GoesOn
<1> QED
  BY <1>7, <1>8 DEF MarkConfirmed

\* No handler moves.
LEMMA NobodyMoves ==
  ASSUME Inv, req' = req, TablesOK', Grows,
         \A l \in DOMAIN links : links'[l].mailed = links[l].mailed
  PROVE  Inv'
<1>1. ASSUME NEW p \in Requests PROVE Carries(req'[p]) /\ Knows(req[p])'
  <2>1. PICK t : t = req[p]
    OBVIOUS
  <2>2. Carries(t) /\ Knows(t) /\ req'[p] = t
    BY <2>1 DEF Inv, HandlersOK
  <2>3. Knows(t)'
    BY <2>2, KnowsKeep
  <2> QED BY <2>2, <2>3 DEF Knows
<1>2. HandlersOK'
  BY <1>1 DEF Inv, HandlersOK
<1>3. NoticesOK'
  BY DEF Inv, HandlersOK, NoticesOK, Knows
<1> QED
  BY <1>2, <1>3 DEF Inv, TablesOK

LEMMA ElsewhereKeeps ==
  ASSUME Inv, Elsewhere
  PROVE  Inv' /\ Grows
<1>1. ASSUME NEW e \in Emails, InviteUser(e) PROVE Inv' /\ Grows
  <2>1. TablesOK' /\ Grows
    BY <1>1, UserAdded DEF InviteUser
  <2> QED BY <1>1, <2>1, NobodyMoves DEF InviteUser
<1>2. ASSUME NEW e \in Emails, SetOwnPassword(e) PROVE Inv' /\ Grows
  <2>1. TablesOK' /\ Grows
    BY <1>2, AccountChanged DEF SetOwnPassword, Inv, AccountsOK
  <2> QED BY <1>2, <2>1, NobodyMoves DEF SetOwnPassword
<1>3. ASSUME NEW l \in DOMAIN links, ExpireLink(l) PROVE Inv' /\ Grows
  <2>1. TablesOK' /\ Grows /\ \A m \in DOMAIN links : links'[m].mailed = links[m].mailed
    BY <1>3, LinkFlagged DEF ExpireLink
  <2> QED BY <1>3, <2>1, NobodyMoves DEF ExpireLink
<1>4. ASSUME NEW i \in DOMAIN signups, ExpireSignup(i) PROVE Inv' /\ Grows
  <2>1. PICK new : new = [signups[i] EXCEPT !.expired = TRUE]
    OBVIOUS
  <2>2. new \in SignupRows /\ new.email = signups[i].email
    BY <2>1, SignupRow
  <2>3. TablesOK' /\ Grows
    BY <1>4, <2>1, <2>2, SignupChanged DEF ExpireSignup
  <2> QED BY <1>4, <2>3, NobodyMoves DEF ExpireSignup
<1> QED
  BY <1>1, <1>2, <1>3, <1>4 DEF Elsewhere

\* Nothing of what handlers know is touched.
LEMMA UntouchedKeeps ==
  ASSUME Inv, UNCHANGED <<tables, req>>
  PROVE  Inv' /\ Grows
<1>1. TablesOK' /\ Grows /\ links' = links /\ req' = req
  BY TablesKeep DEF tables
<1> QED
  BY <1>1, NobodyMoves

LEMMA LinkingStepKeeps ==
  ASSUME Inv, LinkingNext
  PROVE  Inv' /\ Grows
<1>1. ASSUME NEW q \in Requests, SignupArrives(q) PROVE Inv' /\ Grows
  BY <1>1, BeginSignupKeeps, BeginVerifyKeeps DEF SignupArrives
<1>2. ASSUME NEW q \in Requests, Resolve(q) PROVE Inv' /\ Grows
  BY <1>2, FindIdentityKeeps, LookupUserKeeps, CreateAccountKeeps, CountIdentitiesKeeps,
     AttachIdentityKeeps, RequestConfirmationKeeps, NotifyKeeps DEF Resolve
<1>3. ASSUME NEW q \in Requests, Finish(q) PROVE Inv' /\ Grows
  BY <1>3, StoreSignupKeeps, MailSignupKeeps, SetPasswordKeeps, ForgetKeeps, OpenSessionKeeps,
     LinkIdentityKeeps, MarkConfirmedKeeps DEF Finish
<1>4. ASSUME NEW q \in Requests, Abort(q) PROVE Inv' /\ Grows
  BY <1>4, DoneKeeps DEF Abort
<1>5. ASSUME NEW a \in Admins, Settle(a) \/ AbortOrder(a) PROVE Inv' /\ Grows
  BY <1>5, UntouchedKeeps DEF Settle, BeginPatch, WritePatch, AbortOrder
<1> QED
  BY <1>1, <1>2, <1>3, <1>4, <1>5, LinkArrivesKeeps, ElsewhereKeeps DEF LinkingNext

-----------------------------------------------------------------------------
(***************************************************************************)
(* The step.                                                               *)
(***************************************************************************)

ConfigsOK == configs \in [Configs -> ConfigRows]

LEMMA ConfigRow == ASSUME NEW c \in ConfigRows PROVE c.trusted \in BOOLEAN
<1>1. CASE c \in LiveConfigs
  <2>1. PICK t \in {"saml", "oidc"}, tr \in BOOLEAN, en \in BOOLEAN : c = Config(t, tr, en)
    BY <1>1 DEF LiveConfigs
  <2>2. c.trusted = tr
    BY <2>1 DEF Config
  <2> QED BY <2>2
<1>2. CASE c = NoConfig
  BY <1>2 DEF NoConfig
<1>3. CASE c = Deleted
  <2>1. PICK n : n = NoConfig
    OBVIOUS
  <2>2. n = [type |-> "none", trusted |-> FALSE, enabled |-> FALSE]
    BY <2>1 DEF NoConfig
  <2>3. c = [n EXCEPT !.type = "deleted"]
    BY <1>3, <2>1 DEF Deleted
  <2>4. c.trusted = FALSE
    BY <2>2, <2>3
  <2> QED BY <2>4
<1> QED
  BY <1>1, <1>2, <1>3 DEF ConfigRows

LEMMA InvStep ==
  ASSUME Inv, ConfigsOK, [Next]_vars
  PROVE  Inv' /\ Grows
<1>1. \A c \in Configs : configs[c].trusted \in BOOLEAN
  BY ConfigRow DEF ConfigsOK
<1>2. CASE SAMLStep
  <2>1. ASSUME NEW f \in Flows, NEW c \in Configs, BeginSAMLLogin(f, c) PROVE Inv' /\ Grows
    BY <2>1, UntouchedKeeps DEF BeginSAMLLogin, linking
  <2>2. ASSUME NEW f \in Flows, NEW c \in Configs, NEW q \in Requests, HandleACS(q, f, c)
        PROVE  Inv' /\ Grows
    BY <1>1, <2>2, AnswerKeeps DEF HandleACS
  <2>3. ASSUME NEW q \in Requests, NEW s \in Subjects, NEW e \in Emails, MarkAssertionSeen(q, s, e)
        PROVE  Inv' /\ Grows
    <3>1. req[q].trusted \in BOOLEAN
      BY DEF Inv, HandlersOK, Handlers
    <3> QED BY <2>3, <3>1, ToResolveKeeps DEF MarkAssertionSeen, Trip
  <2> QED BY <1>2, <2>1, <2>2, <2>3, ConsumeKeeps DEF SAMLStep
<1>3. CASE OIDCStep
  <2>1. ASSUME NEW f \in Flows, NEW c \in Configs, BeginOIDCLogin(f, c) PROVE Inv' /\ Grows
    BY <2>1, UntouchedKeeps DEF BeginOIDCLogin, linking
  <2>2. ASSUME NEW f \in Flows, NEW c \in Configs, NEW q \in Requests, HandleCallback(q, f, c)
        PROVE  Inv' /\ Grows
    BY <1>1, <2>2, AnswerKeeps DEF HandleCallback
  <2>3. ASSUME NEW q \in Requests, NEW s \in Subjects, NEW e \in Emails, NEW v \in BOOLEAN,
               Exchange(q, s, e, v)
        PROVE  Inv' /\ Grows
    <3>1. (req[q].trusted /\ v) \in BOOLEAN
      BY DEF Inv, HandlersOK, Handlers
    <3> QED BY <2>3, <3>1, ToResolveKeeps DEF Exchange, Trip
  <2> QED BY <1>3, <2>1, <2>2, <2>3, ConsumeKeeps DEF OIDCStep
<1>4. CASE ConfigStep
  BY <1>4, UntouchedKeeps
  DEF ConfigStep, CreateSAMLConfig, UpdateSAMLConfig, CreateOIDCConfig, UpdateOIDCConfig,
      BeginDelete, DeleteSAMLConfig, DeleteOIDCConfig
<1>5. CASE UNCHANGED vars
  BY <1>5, UntouchedKeeps DEF vars, linking
<1> QED
  BY <1>2, <1>3, <1>4, <1>5, LinkingStepKeeps DEF Next

-----------------------------------------------------------------------------
(***************************************************************************)
(* Types.                                                                  *)
(***************************************************************************)

AdminOK ==
  /\ settings \in [Settings -> BOOLEAN] /\ asked \in [Settings -> BOOLEAN]
  /\ adm \in [Admins -> Orders]
  /\ \A a \in Admins :
       /\ adm[a].pc = "patch" => adm[a].patch \in Patches /\ adm[a].read \in [Settings -> BOOLEAN]
       /\ adm[a].pc = "delete" => adm[a].config \in Configs
  /\ overlapped \in BOOLEAN /\ lax \in BOOLEAN
  /\ arrived \in 0..MaxArrivals

FlowsOK == flows \in [Flows -> FlowRows]

TypeInv == Inv /\ AdminOK /\ ConfigsOK /\ FlowsOK /\ late \subseteq identities

LEMMA TypeInvImplies == TypeInv => TypeOK
BY DEF TypeInv, Inv, AccountsOK, IdentitiesOK, LinksOK, SignupsOK, HandlersOK, AdminOK,
       ConfigsOK, FlowsOK, TypeOK

LEMMA LateKeeps ==
  ASSUME TypeInv, Next
  PROVE  late' \subseteq identities'
<1>1. identities \subseteq identities'
  BY InvStep DEF TypeInv, Grows
<1> QED
  BY <1>1 DEF TypeInv, Next, Remember

LEMMA MergeType ==
  ASSUME NEW p \in Patches, NEW row \in [Settings -> BOOLEAN]
  PROVE  Merge(p, row) \in [Settings -> BOOLEAN]
BY PatchesAssumption DEF Merge

\* A request is taken in.
LEMMA OneMore == ASSUME AdminOK, arrived < MaxArrivals PROVE arrived + 1 \in 0..MaxArrivals
BY LinkingAssumption DEF AdminOK

\* What an administrator's request has in hand.
OrderOK(o) ==
  /\ o \in Orders
  /\ o.pc = "patch" => o.patch \in Patches /\ o.read \in [Settings -> BOOLEAN]
  /\ o.pc = "delete" => o.config \in Configs

LEMMA AdmChanged ==
  ASSUME AdminOK, NEW a \in Admins, NEW o, OrderOK(o), adm' = [adm EXCEPT ![a] = o],
         settings' \in [Settings -> BOOLEAN], asked' \in [Settings -> BOOLEAN],
         overlapped' \in BOOLEAN, lax' \in BOOLEAN, arrived' \in 0..MaxArrivals
  PROVE  AdminOK'
<1>1. adm' \in [Admins -> Orders]
  BY DEF AdminOK, OrderOK
<1>2. adm'[a] = o /\ \A b \in Admins \ {a} : adm'[b] = adm[b]
  BY DEF AdminOK
<1> QED
  BY <1>1, <1>2 DEF AdminOK, OrderOK

LEMMA OffFits == OrderOK(Off)
BY DEF Off, OrderOK, Orders

LEMMA SettleKeeps ==
  ASSUME AdminOK, NEW a \in Admins, Settle(a) \/ AbortOrder(a)
  PROVE  AdminOK'
<1>1. ASSUME NEW p \in Patches, BeginPatch(a, p) PROVE AdminOK'
  <2>1. PICK o : o = [Off EXCEPT !.pc = "patch", !.patch = p, !.read = settings]
    OBVIOUS
  <2>2. o = [pc |-> "patch", config |-> None, patch |-> p, read |-> settings]
    BY <2>1 DEF Off
  <2>3. OrderOK(o)
    BY <2>2 DEF OrderOK, Orders, AdminOK
  <2>4. adm' = [adm EXCEPT ![a] = o] /\ arrived' \in 0..MaxArrivals
    BY <1>1, <2>1, OneMore DEF BeginPatch, Order
  <2>5. overlapped' \in BOOLEAN /\ UNCHANGED <<settings, asked, lax>>
    BY <1>1 DEF BeginPatch, AdminOK
  <2> QED BY <2>3, <2>4, <2>5, AdmChanged DEF AdminOK
<1>2. CASE AbortOrder(a)
  BY <1>2, OffFits, AdmChanged DEF AbortOrder, AdminOK, history
<1>3. CASE WritePatch(a)
  <2>1. adm[a].patch \in Patches /\ adm[a].read \in [Settings -> BOOLEAN]
    BY <1>3 DEF WritePatch, AdminOK
  <2>2. settings' \in [Settings -> BOOLEAN] /\ asked' \in [Settings -> BOOLEAN]
    BY <1>3, <2>1, MergeType DEF WritePatch, AdminOK
  <2>3. lax' \in BOOLEAN
    BY <1>3 DEF WritePatch, AdminOK
  <2> QED BY <1>3, <2>2, <2>3, OffFits, AdmChanged DEF WritePatch, AdminOK
<1> QED
  BY <1>1, <1>2, <1>3 DEF Settle

LEMMA BeginDeleteKeeps ==
  ASSUME AdminOK, NEW a \in Admins, NEW c \in Configs, BeginDelete(a, c)
  PROVE  AdminOK'
<1>1. PICK o : o = [Off EXCEPT !.pc = "delete", !.config = c]
  OBVIOUS
<1>2. o = [pc |-> "delete", config |-> c, patch |-> None, read |-> None]
  BY <1>1 DEF Off
<1>3. OrderOK(o)
  BY <1>2 DEF OrderOK, Orders
<1>4. /\ adm' = [adm EXCEPT ![a] = o] /\ arrived' \in 0..MaxArrivals
      /\ UNCHANGED <<settings, history>>
  BY <1>1, OneMore DEF BeginDelete, Order
<1> QED
  BY <1>3, <1>4, AdmChanged DEF AdminOK, history

LEMMA DeleteConfigKeeps ==
  ASSUME AdminOK, NEW a \in Admins, DeleteSAMLConfig(a) \/ DeleteOIDCConfig(a)
  PROVE  AdminOK'
BY OffFits, AdmChanged DEF AdminOK, DeleteSAMLConfig, DeleteOIDCConfig, history

\* A request that is taken in and no administrator's.
LEMMA AdminUntouched ==
  ASSUME AdminOK, UNCHANGED admin,
         arrived' = arrived \/ (arrived < MaxArrivals /\ arrived' = arrived + 1)
  PROVE  AdminOK'
BY OneMore DEF AdminOK, admin, history

LEMMA AdminStep ==
  ASSUME AdminOK, [Next]_vars
  PROVE  AdminOK'
<1>1. ASSUME NEW q \in Requests, SignupArrives(q) \/ LinkArrives(q) PROVE AdminOK'
  BY <1>1, AdminUntouched
  DEF SignupArrives, LinkArrives, BeginSignup, BeginVerify, BeginConfirm, BeginApprove, Accept
<1>2. ASSUME NEW q \in Requests, Resolve(q) PROVE AdminOK'
  BY <1>2, AdminUntouched
  DEF Resolve, FindIdentity, LookupUser, CreateAccount, CountIdentities, AttachIdentity,
      RequestConfirmation, Notify
<1>3. ASSUME NEW q \in Requests, Finish(q) \/ Abort(q) PROVE AdminOK'
  BY <1>3, AdminUntouched
  DEF Finish, StoreSignup, MailSignup, SetPassword, Forget, OpenSession, LinkIdentity,
      MarkConfirmed, Abort
<1>4. CASE Elsewhere
  BY <1>4, AdminUntouched DEF Elsewhere, InviteUser, SetOwnPassword, ExpireLink, ExpireSignup
<1>5. CASE LinkingNext
  BY <1>1, <1>2, <1>3, <1>4, <1>5, SettleKeeps DEF LinkingNext
<1>6. CASE SAMLStep
  BY <1>6, AdminUntouched
  DEF SAMLStep, BeginSAMLLogin, HandleACS, Answer, Accept, ConsumeRequest, MarkAssertionSeen,
      linking
<1>7. CASE OIDCStep
  BY <1>7, AdminUntouched
  DEF OIDCStep, BeginOIDCLogin, HandleCallback, Answer, Accept, ConsumeState, Exchange, linking
<1>8. ASSUME NEW c \in Configs, NEW b \in BOOLEAN, NEW en \in BOOLEAN,
             \/ CreateSAMLConfig(c, b, en) \/ UpdateSAMLConfig(c, b, en)
             \/ CreateOIDCConfig(c, b, en) \/ UpdateOIDCConfig(c, b, en)
      PROVE  AdminOK'
  BY <1>8, AdminUntouched
  DEF CreateSAMLConfig, UpdateSAMLConfig, CreateOIDCConfig, UpdateOIDCConfig, OrderNow
<1>9. CASE ConfigStep
  BY <1>8, <1>9, BeginDeleteKeeps, DeleteConfigKeeps DEF ConfigStep
<1>10. CASE UNCHANGED vars
  BY <1>10, AdminUntouched DEF vars, linking
<1> QED
  BY <1>5, <1>6, <1>7, <1>9, <1>10 DEF Next

-----------------------------------------------------------------------------
LEMMA ConfigChanged ==
  ASSUME ConfigsOK, NEW c, NEW t \in {"saml", "oidc"}, NEW b \in BOOLEAN, NEW en \in BOOLEAN,
         configs' = [configs EXCEPT ![c] = Config(t, b, en)]
  PROVE  ConfigsOK'
<1>1. Config(t, b, en) \in ConfigRows
  BY DEF ConfigRows, LiveConfigs
<1> QED
  BY <1>1 DEF ConfigsOK

LEMMA ConfigsStep ==
  ASSUME ConfigsOK, [Next]_vars
  PROVE  ConfigsOK'
<1>1. CASE configs' = configs
  BY <1>1 DEF ConfigsOK
<1>2. CASE ConfigStep
  <2>1. ASSUME NEW c \in Configs, NEW b \in BOOLEAN, NEW en \in BOOLEAN,
               \/ CreateSAMLConfig(c, b, en) \/ UpdateSAMLConfig(c, b, en)
               \/ CreateOIDCConfig(c, b, en) \/ UpdateOIDCConfig(c, b, en)
        PROVE  ConfigsOK'
    BY <2>1, ConfigChanged
    DEF CreateSAMLConfig, UpdateSAMLConfig, CreateOIDCConfig, UpdateOIDCConfig,
        InsertSAMLConfig, InsertOIDCConfig, ReplaceSAMLConfig, ReplaceOIDCConfig
  <2>2. ASSUME NEW a \in Admins, DeleteSAMLConfig(a) \/ DeleteOIDCConfig(a) PROVE ConfigsOK'
    BY <2>2
    DEF DeleteSAMLConfig, DeleteOIDCConfig, RemoveSAMLConfig, RemoveOIDCConfig, ConfigsOK,
        ConfigRows
  <2> QED BY <1>1, <1>2, <2>1, <2>2 DEF ConfigStep, BeginDelete
<1>3. CASE SAMLStep
  BY <1>1, <1>3 DEF SAMLStep, BeginSAMLLogin, HandleACS, ConsumeRequest, MarkAssertionSeen
<1>4. CASE OIDCStep
  BY <1>1, <1>4 DEF OIDCStep, BeginOIDCLogin, HandleCallback, ConsumeState, Exchange
<1> QED
  BY <1>1, <1>2, <1>3, <1>4 DEF Next, vars

\* A flow begins, or its record is changed.
LEMMA FlowChanged ==
  ASSUME FlowsOK, NEW f \in Flows, NEW r \in FlowRows, flows' = [flows EXCEPT ![f] = r]
  PROVE  FlowsOK'
BY DEF FlowsOK

LEMMA FlowBegins ==
  ASSUME FlowsOK, NEW f \in Flows, NEW c \in Configs, CreateRequest(f, c) \/ CreateState(f, c)
  PROVE  FlowsOK'
<1>1. PICK r : r = [NoFlow EXCEPT !.config = c, !.pending = TRUE]
  OBVIOUS
<1>2. r = [config |-> c, pending |-> TRUE, seen |-> FALSE, answers |-> 0]
  BY <1>1 DEF NoFlow
<1>3. r \in FlowRows
  BY <1>2 DEF FlowRows
<1>4. flows' = [flows EXCEPT ![f] = r]
  BY <1>1 DEF CreateRequest, CreateState
<1> QED
  BY <1>3, <1>4, FlowChanged

LEMMA FlowsStep ==
  ASSUME Inv, FlowsOK, [Next]_vars
  PROVE  FlowsOK'
<1>1. CASE flows' = flows
  BY <1>1 DEF FlowsOK
<1>2. ASSUME NEW q \in Requests, req[q].pc \in Trip
      PROVE  req[q].doc \in Flows /\ flows[req[q].doc] \in FlowRows
  BY <1>2 DEF Inv, HandlersOK, Carries, FlowsOK
<1>3. ASSUME NEW q \in Requests, ConsumeRequest(q) \/ ConsumeState(q) PROVE FlowsOK'
  <2>1. PICK f : f = req[q].doc
    OBVIOUS
  <2>2. f \in Flows /\ flows[f] \in FlowRows
    BY <1>2, <1>3, <2>1 DEF ConsumeRequest, ConsumeState, Trip
  <2>3. [flows[f] EXCEPT !.pending = FALSE] \in FlowRows
    BY <2>2 DEF FlowRows
  <2>4. flows' = [flows EXCEPT ![f] = [flows[f] EXCEPT !.pending = FALSE]]
    BY <1>3, <2>1 DEF ConsumeRequest, ConsumeState
  <2> QED BY <2>2, <2>3, <2>4, FlowChanged
<1>4. ASSUME NEW q \in Requests, NEW s \in Subjects, NEW e \in Emails, MarkAssertionSeen(q, s, e)
      PROVE  FlowsOK'
  <2>1. PICK f : f = req[q].doc
    OBVIOUS
  <2>2. f \in Flows /\ flows[f] \in FlowRows
    BY <1>2, <1>4, <2>1 DEF MarkAssertionSeen, Trip
  <2>3. PICK r : r = [flows[f] EXCEPT !.seen = TRUE, !.answers = @ + 1]
    OBVIOUS
  <2>4. r \in FlowRows
    <3>1. PICK s1 : s1 = [flows[f] EXCEPT !.seen = TRUE]
      OBVIOUS
    <3>2. s1 \in FlowRows
      BY <2>2, <3>1 DEF FlowRows
    <3>3. [s1 EXCEPT !.answers = @ + 1] \in FlowRows
      BY <3>2 DEF FlowRows
    <3>4. r = [s1 EXCEPT !.answers = @ + 1]
      BY <2>3, <3>1
    <3> QED BY <3>3, <3>4
  <2>5. flows' = [flows EXCEPT ![f] = r]
    BY <1>4, <2>1, <2>2, <2>3 DEF MarkAssertionSeen, FlowsOK, FlowRows
  <2> QED BY <2>2, <2>4, <2>5, FlowChanged
<1>5. ASSUME NEW q \in Requests, NEW s \in Subjects, NEW e \in Emails, NEW v \in BOOLEAN,
             Exchange(q, s, e, v)
      PROVE  FlowsOK'
  <2>1. PICK f : f = req[q].doc
    OBVIOUS
  <2>2. f \in Flows /\ flows[f] \in FlowRows
    BY <1>2, <1>5, <2>1 DEF Exchange, Trip
  <2>3. PICK r : r = [flows[f] EXCEPT !.answers = @ + 1]
    OBVIOUS
  <2>4. r \in FlowRows
    BY <2>2, <2>3 DEF FlowRows
  <2>5. flows' = [flows EXCEPT ![f] = r]
    BY <1>5, <2>1, <2>3 DEF Exchange
  <2> QED BY <2>2, <2>4, <2>5, FlowChanged
<1>6. CASE SAMLStep
  BY <1>1, <1>3, <1>4, <1>6, FlowBegins DEF SAMLStep, BeginSAMLLogin, HandleACS
<1>7. CASE OIDCStep
  BY <1>1, <1>3, <1>5, <1>7, FlowBegins DEF OIDCStep, BeginOIDCLogin, HandleCallback
<1>8. CASE ConfigStep
  BY <1>1, <1>8
  DEF ConfigStep, CreateSAMLConfig, UpdateSAMLConfig, CreateOIDCConfig, UpdateOIDCConfig,
      BeginDelete, DeleteSAMLConfig, DeleteOIDCConfig
<1> QED
  BY <1>1, <1>6, <1>7, <1>8 DEF Next, vars

-----------------------------------------------------------------------------
(***************************************************************************)
(* The invariant holds.                                                    *)
(***************************************************************************)

LEMMA TypeInvInit == Init => TypeInv
<1> SUFFICES ASSUME Init PROVE TypeInv
  OBVIOUS
<1>1. PICK members \in SUBSET Emails :
        /\ IsFiniteSet(members)
        /\ users = members /\ creds = members /\ signedIn = members
        /\ identities = {[key |-> Key(Local, e), user |-> e, via |-> "new", claimed |-> FALSE] :
                           e \in members}
  BY DEF Init, LinkingInit
<1>2. AccountsOK
  BY <1>1 DEF AccountsOK
<1>3. IdentitiesOK
  <2>1. ASSUME NEW i \in identities
        PROVE  i \in IdentityRows /\ i.user \in users /\ Own(i.key, i.user)
    <3>1. PICK e \in members :
            i = [key |-> Key(Local, e), user |-> e, via |-> "new", claimed |-> FALSE]
      BY <1>1, <2>1
    <3>2. e \in Emails /\ Key(Local, e) \in Keys /\ Own(Key(Local, e), e)
      BY LocalKey
    <3>3. PICK k : k = Key(Local, e)
      OBVIOUS
    <3> QED BY <1>1, <3>1, <3>2, <3>3 DEF IdentityRows, Vias
  <2>2. IsFiniteSet(identities)
    <3> DEFINE row(e) == [key |-> Key(Local, e), user |-> e, via |-> "new", claimed |-> FALSE]
               f == [e \in members |-> row(e)]
    <3> HIDE DEF row
    <3>1. identities = {row(e) : e \in members}
      BY <1>1 DEF row
    <3>2. f \in [members -> identities] /\ \A i \in identities : \E e \in members : f[e] = i
      BY <3>1
    <3>3. f \in Surjection(members, identities)
      BY <3>2 DEF Surjection
    <3> QED BY <1>1, <3>3, FS_Surjection
  <2> QED BY <2>1, <2>2 DEF IdentitiesOK
<1>4. LinksOK /\ SignupsOK
  BY EmptySeq DEF Init, LinkingInit, LinksOK, SignupsOK
<1>5. HandlersOK /\ NoticesOK
  <2>1. req = [q \in Requests |-> Idle] /\ Idle.pc # "notify"
    BY DEF Init, LinkingInit, Idle
  <2> QED BY <2>1, IdleFits DEF HandlersOK, NoticesOK
<1>6. AdminOK
  <2>1. adm = [a \in Admins |-> Off] /\ Off.pc = "off"
    BY DEF Init, LinkingInit, Off
  <2>2. Off \in Orders
    BY OffFits DEF OrderOK
  <2>3. settings \in [Settings -> BOOLEAN] /\ asked = settings
    BY DEF Init, LinkingInit
  <2>4. overlapped = FALSE /\ lax = FALSE /\ arrived = 0
    BY DEF Init, LinkingInit
  <2>5. adm \in [Admins -> Orders] /\ \A a \in Admins : adm[a].pc = "off"
    BY <2>1, <2>2
  <2>6. 0 \in 0..MaxArrivals
    BY LinkingAssumption
  <2> QED BY <2>3, <2>4, <2>5, <2>6 DEF AdminOK
<1>7. ConfigsOK
  BY DEF Init, ConfigsOK, ConfigRows
<1>8. FlowsOK
  BY DEF Init, FlowsOK, FlowRows, NoFlow
<1> QED
  BY <1>2, <1>3, <1>4, <1>5, <1>6, <1>7, <1>8 DEF Init, TypeInv, Inv

LEMMA TypeInvStep == TypeInv /\ [Next]_vars => TypeInv' /\ Grows
<1> SUFFICES ASSUME TypeInv, [Next]_vars PROVE TypeInv' /\ Grows
  OBVIOUS
<1>1. Inv' /\ Grows /\ AdminOK' /\ ConfigsOK' /\ FlowsOK'
  BY InvStep, AdminStep, ConfigsStep, FlowsStep DEF TypeInv
<1>2. late' \subseteq identities'
  <2>1. CASE Next
    BY <2>1, LateKeeps
  <2>2. CASE UNCHANGED vars
    BY <2>2 DEF vars, linking, tables, TypeInv
  <2> QED BY <2>1, <2>2
<1> QED
  BY <1>1, <1>2 DEF TypeInv

THEOREM TypeInvariant == Spec => []TypeInv
BY TypeInvInit, TypeInvStep, PTL DEF Spec

\* Tables, requests, flows and configurations hold what they should; whoever
\* has an identity, a password, a session or a pending link is a user, though
\* no statement of the program looks at two of the tables at once.
THEOREM TypeCorrect == Spec => []TypeOK
BY TypeInvariant, TypeInvImplies, PTL

\* Nothing a handler has learnt can be taken back: no account, identity,
\* password or link ever goes away or changes hands, and a token that was
\* mailed stays mailed.
THEOREM TablesGrow == Spec => [][Grows]_vars
<1>1. TypeInv /\ [Next]_vars => [Grows]_vars
  BY TypeInvStep
<1> QED
  BY <1>1, TypeInvariant, PTL DEF Spec
=============================================================================
