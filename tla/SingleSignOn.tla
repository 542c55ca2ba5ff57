---------------------------- MODULE SingleSignOn ----------------------------
(***************************************************************************)
(* Logins through an identity provider: internal/auth's SAML and OIDC      *)
(* services with their one-time records in Redis, the configurations that  *)
(* administrators keep, and what Resolve (module AccountLinking) makes of  *)
(* the answers.                                                            *)
(*                                                                         *)
(* A flow is one trip to the provider: the AuthnRequest id, or the OAuth2  *)
(* state with its nonce and verifier.  Its answer may be posted several    *)
(* times, by several requests.  Signatures, certificates, the code         *)
(* exchange and the ID token are the libraries' and the provider's: an     *)
(* answer that reaches Resolve is a genuine one to this flow, with any     *)
(* subject and address.  The ids of configurations are never reused.       *)
(* A flow that runs out is one that is never answered.                     *)
(***************************************************************************)
EXTENDS AccountLinking

CONSTANTS
  Flows        \* trips to a provider

VARIABLES
  configs,     \* idp_saml_configs and idp_oidc_configs
  flows,       \* the one-time records in Redis
  late         \* history: identities attached when the deletion of their
               \* configuration had counted them already

vars == <<linking, configs, flows, late>>

NoConfig == [type |-> "none", trusted |-> FALSE, enabled |-> FALSE]

Deleted == [NoConfig EXCEPT !.type = "deleted"]

\* trusted is the OIDC configuration's require_email_verified_claim.
Config(type, trusted, enabled) == [type |-> type, trusted |-> trusted, enabled |-> enabled]

LiveConfigs == {Config(t, tr, en) : t \in {"saml", "oidc"}, tr \in BOOLEAN, en \in BOOLEAN}

NoFlow == [config |-> None, pending |-> FALSE, seen |-> FALSE, answers |-> 0]

Init ==
  /\ LinkingInit
  /\ configs \in [Configs -> {i \in LiveConfigs : i.enabled} \cup {NoConfig}]
  /\ flows = [f \in Flows |-> NoFlow]
  /\ late = {}

-----------------------------------------------------------------------------
(* SAML.                                                                   *)

\* FindSAMLConfigByID, and its caller's test of enabled.
OpenSAML(c) == configs[c].type = "saml" /\ configs[c].enabled

\* RedisSAMLNonceStore.CreateRequest.
CreateRequest(f, c) ==
  /\ flows[f] = NoFlow
  /\ flows' = [flows EXCEPT ![f] = [NoFlow EXCEPT !.config = c, !.pending = TRUE]]

\* handleSAMLLoginRedirect and SAMLLoginService.BeginLogin.
BeginSAMLLogin(f, c) ==
  /\ OpenSAML(c)
  /\ CreateRequest(f, c)
  /\ UNCHANGED <<linking, configs>>

\* An answer to f arrives at the endpoint of c, which reads the configuration
\* once: trusted is what it says now.
Answer(q, f, c, pc) ==
  Accept(q, [Idle EXCEPT !.pc = pc, !.from = "sso", !.doc = f, !.key = Key(c, None),
                         !.trusted = configs[c].trusted])

\* handleSAMLACS and the start of SAMLLoginService.HandleACS.
HandleACS(q, f, c) ==
  /\ OpenSAML(c) /\ flows[f] # NoFlow
  /\ Answer(q, f, c, "request id")
  /\ UNCHANGED <<tables, admin, configs, flows>>

\* GETDEL of the request: it is gone even if it was another configuration's.
ConsumeRequest(q) ==
  /\ req[q].pc = "request id"
  /\ LET f == req[q].doc IN
     /\ flows[f].pending
     /\ flows' = [flows EXCEPT ![f].pending = FALSE]
     /\ IF flows[f].config = req[q].key.provider THEN Goto(q, "assertion") ELSE Done(q)
  /\ UNCHANGED <<tables, admin, arrived, configs>>

\* The answer's subject s and address e go to Resolve.
ToResolve(q, s, e, trusted) ==
  req' = [req EXCEPT ![q] = Attempt("sso", Key(req[q].key.provider, s), e, trusted, None)]

\* SET NX of the assertion's id, which belongs to the flow's request.
MarkAssertionSeen(q, s, e) ==
  /\ req[q].pc = "assertion"
  /\ LET f == req[q].doc IN
     /\ ~flows[f].seen
     /\ flows' = [flows EXCEPT ![f].seen = TRUE, ![f].answers = @ + 1]
  /\ ToResolve(q, s, e, req[q].trusted)
  /\ UNCHANGED <<tables, admin, arrived, configs>>

-----------------------------------------------------------------------------
(* OIDC.                                                                   *)

OpenOIDC(c) == configs[c].type = "oidc" /\ configs[c].enabled

CreateState(f, c) ==
  /\ flows[f] = NoFlow
  /\ flows' = [flows EXCEPT ![f] = [NoFlow EXCEPT !.config = c, !.pending = TRUE]]

\* handleOIDCLoginRedirect and OIDCLoginService.BeginLogin.
BeginOIDCLogin(f, c) ==
  /\ OpenOIDC(c)
  /\ CreateState(f, c)
  /\ UNCHANGED <<linking, configs>>

\* handleOIDCCallback and the start of OIDCLoginService.HandleCallback.
HandleCallback(q, f, c) ==
  /\ OpenOIDC(c) /\ flows[f] # NoFlow
  /\ Answer(q, f, c, "state")
  /\ UNCHANGED <<tables, admin, configs, flows>>

\* Mutant: the state is read with GET.
PeekState(q) ==
  /\ req[q].pc = "state"
  /\ flows[req[q].doc].pending
  /\ IF flows[req[q].doc].config = req[q].key.provider THEN Goto(q, "exchange") ELSE Done(q)
  /\ UNCHANGED <<tables, admin, arrived, configs, flows>>

ConsumeState(q) ==
  /\ req[q].pc = "state"
  /\ LET f == req[q].doc IN
     /\ flows[f].pending
     /\ flows' = [flows EXCEPT ![f].pending = FALSE]
     /\ IF flows[f].config = req[q].key.provider THEN Goto(q, "exchange") ELSE Done(q)
  /\ UNCHANGED <<tables, admin, arrived, configs>>

\* The code is exchanged, the ID token carries the flow's nonce and a claim
\* that the address is verified, or not.
Exchange(q, s, e, verified) ==
  /\ req[q].pc = "exchange"
  /\ flows' = [flows EXCEPT ![req[q].doc].answers = @ + 1]
  /\ ToResolve(q, s, e, req[q].trusted /\ verified)
  /\ UNCHANGED <<tables, admin, arrived, configs>>

-----------------------------------------------------------------------------
(* The configurations.                                                     *)

\* A request of an administrator that is one statement.
OrderNow == arrived < MaxArrivals /\ arrived' = arrived + 1

\* The statements: an id is inserted once, and each table has its own rows.
InsertSAMLConfig(c, trusted, enabled) ==
  /\ configs[c] = NoConfig
  /\ configs' = [configs EXCEPT ![c] = Config("saml", trusted, enabled)]

InsertOIDCConfig(c, required, enabled) ==
  /\ configs[c] = NoConfig
  /\ configs' = [configs EXCEPT ![c] = Config("oidc", required, enabled)]

ReplaceSAMLConfig(c, trusted, enabled) ==
  /\ configs[c].type = "saml"
  /\ configs' = [configs EXCEPT ![c] = Config("saml", trusted, enabled)]

ReplaceOIDCConfig(c, required, enabled) ==
  /\ configs[c].type = "oidc"
  /\ configs' = [configs EXCEPT ![c] = Config("oidc", required, enabled)]

RemoveSAMLConfig(c) ==
  /\ configs[c].type = "saml"
  /\ configs' = [configs EXCEPT ![c] = Deleted]

RemoveOIDCConfig(c) ==
  /\ configs[c].type = "oidc"
  /\ configs' = [configs EXCEPT ![c] = Deleted]

CreateSAMLConfig(c, trusted, enabled) ==
  /\ OrderNow /\ InsertSAMLConfig(c, trusted, enabled)
  /\ UNCHANGED <<tables, req, admin, flows>>

CreateOIDCConfig(c, required, enabled) ==
  /\ OrderNow /\ InsertOIDCConfig(c, required, enabled)
  /\ UNCHANGED <<tables, req, admin, flows>>

\* A full replacement; an OIDC secret that is left out is kept.
UpdateSAMLConfig(c, trusted, enabled) ==
  /\ OrderNow /\ ReplaceSAMLConfig(c, trusted, enabled)
  /\ UNCHANGED <<tables, req, admin, flows>>

UpdateOIDCConfig(c, required, enabled) ==
  /\ OrderNow /\ ReplaceOIDCConfig(c, required, enabled)
  /\ UNCHANGED <<tables, req, admin, flows>>

CountAuthIdentitiesForConfig(c) == Cardinality({i \in identities : i.key.provider = c})

\* Mutant: identities are not counted.
DeleteUncounted(a, c) ==
  /\ configs[c] \in LiveConfigs
  /\ Order(a, [Off EXCEPT !.pc = "delete", !.config = c])
  /\ UNCHANGED <<tables, settings, history, req, configs, flows>>

\* Delete counts the identities that use the configuration; with some it is
\* refused.
BeginDelete(a, c) ==
  /\ configs[c] \in LiveConfigs /\ CountAuthIdentitiesForConfig(c) = 0
  /\ Order(a, [Off EXCEPT !.pc = "delete", !.config = c])
  /\ UNCHANGED <<tables, settings, history, req, configs, flows>>

DeleteSAMLConfig(a) ==
  /\ adm[a].pc = "delete" /\ RemoveSAMLConfig(adm[a].config)
  /\ adm' = [adm EXCEPT ![a] = Off]
  /\ UNCHANGED <<tables, settings, history, req, arrived, flows>>

DeleteOIDCConfig(a) ==
  /\ adm[a].pc = "delete" /\ RemoveOIDCConfig(adm[a].config)
  /\ adm' = [adm EXCEPT ![a] = Off]
  /\ UNCHANGED <<tables, settings, history, req, arrived, flows>>

-----------------------------------------------------------------------------
SAMLStep ==
  \/ \E f \in Flows, c \in Configs :
       BeginSAMLLogin(f, c) \/ \E q \in Requests : HandleACS(q, f, c)
  \/ \E q \in Requests :
       ConsumeRequest(q) \/ \E s \in Subjects, e \in Emails : MarkAssertionSeen(q, s, e)

OIDCStep ==
  \/ \E f \in Flows, c \in Configs :
       BeginOIDCLogin(f, c) \/ \E q \in Requests : HandleCallback(q, f, c)
  \/ \E q \in Requests :
       \/ ConsumeState(q)
       \/ \E s \in Subjects, e \in Emails, v \in BOOLEAN : Exchange(q, s, e, v)

ConfigStep ==
  \/ \E c \in Configs, b, en \in BOOLEAN :
       \/ CreateSAMLConfig(c, b, en) \/ UpdateSAMLConfig(c, b, en)
       \/ CreateOIDCConfig(c, b, en) \/ UpdateOIDCConfig(c, b, en)
  \/ \E a \in Admins :
       \/ \E c \in Configs : BeginDelete(a, c)
       \/ DeleteSAMLConfig(a) \/ DeleteOIDCConfig(a)

\* A deletion of c is past its count, or c is gone.
Counted(c) ==
  configs[c] = Deleted \/ \E a \in Admins : adm[a].pc = "delete" /\ adm[a].config = c

Remember ==
  late' = late \cup {i \in identities' \ identities :
                       i.key.provider # Local /\ Counted(i.key.provider)}

Next ==
  /\ SAMLStep \/ OIDCStep \/ ConfigStep \/ (LinkingNext /\ UNCHANGED <<configs, flows>>)
  /\ Remember

Spec == Init /\ [][Next]_vars

-----------------------------------------------------------------------------
(* Properties.                                                             *)

ConfigRows == LiveConfigs \cup {NoConfig, Deleted}

FlowRows ==
  [config : Configs \cup {None}, pending : BOOLEAN, seen : BOOLEAN, answers : Nat]

Handlers ==
  [pc : {"idle", "request id", "assertion", "state", "exchange", "find", "lookup", "create",
         "count", "attach", "request", "notify", "store", "mail", "password", "forget",
         "dismiss", "session", "link", "mark"},
   from : {None, "sso", "signup", "verify", "mail", "approved"},
   key : Keys \cup {Key(c, None) : c \in Configs} \cup {None},
   email : Emails \cup {None}, trusted : BOOLEAN, via : Vias \cup {None},
   doc : Nat \cup Flows \cup {None}, link : Nat \cup {None}, claimed : BOOLEAN]

Orders ==
  [pc : {"off", "patch", "delete"}, config : Configs \cup {None},
   patch : Patches \cup {None}, read : [Settings -> BOOLEAN] \cup {None}]

\* Every variable has its type; whoever has an identity, a password, a session
\* or a pending link is a user.
TypeOK ==
  /\ users \subseteq Emails
  /\ identities \subseteq IdentityRows
  /\ links \in Seq(LinkRows) /\ signups \in Seq(SignupRows)
  /\ creds \cup signedIn \cup {i.user : i \in identities} \subseteq users
  /\ \A l \in DOMAIN links : links[l].user \in users
  /\ settings \in [Settings -> BOOLEAN] /\ asked \in [Settings -> BOOLEAN]
  /\ req \in [Requests -> Handlers]
  /\ adm \in [Admins -> Orders]
  /\ configs \in [Configs -> ConfigRows]
  /\ flows \in [Flows -> FlowRows]
  /\ late \subseteq identities
  /\ {overlapped, lax} \subseteq BOOLEAN
  /\ arrived \in 0..MaxArrivals

\* One trip to a provider is at most one login, however often and by however
\* many requests its answer is posted.
FlowTakenOnce == \A f \in Flows : flows[f].answers <= 1

\* Deleting a configuration leaves no identity dangling that was there when
\* the deletion counted: the comment on ErrSAMLConfigInUse, but for logins and
\* confirmations that are under way at that moment or pending until later.
DeletedUnused ==
  \A i \in identities \ late :
    i.key.provider # Local => configs[i.key.provider] # Deleted
=============================================================================
