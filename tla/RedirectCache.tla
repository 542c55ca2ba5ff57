--------------------------- MODULE RedirectCache ---------------------------
(***************************************************************************)
(* The redirect hot path: cmd/redirect resolves a short code through the   *)
(* in-process tier and Redis (internal/cache) and falls back to PostgreSQL;*)
(* cmd/api edits or disables the short URL and purges the cache.           *)
(*                                                                         *)
(* One short code is modelled: cache keys never interact.  A cached value  *)
(* is the long URL of the code.  The api process's own in-process tier is  *)
(* never filled, so Invalidate's local.Del is a no-op there.               *)
(***************************************************************************)
EXTENDS Naturals, FiniteSets

CONSTANTS Instances,  \* cmd/redirect processes, each with an in-process tier
          Requests,   \* request goroutines, over all instances
          Editors,    \* request goroutines of cmd/api
          Targets,    \* long URLs
          None,       \* no cached value; also the outcome "not found"
          Expiries,   \* the expires_at values in use: never, later, past
          MaxEdits,   \* bound: edits and disables
          MaxFaults   \* bound: failed calls, lost replies, cancelled handlers

ASSUME CacheAssumption ==
  /\ None \notin Targets
  /\ Expiries \subseteq {"never", "later", "past"}
  /\ MaxEdits \in Nat
  /\ MaxFaults \in Nat

VARIABLES
  row,      \* the short_urls row: long_url, status = active, expires_at against now
  redis,    \* the Redis entry, which has no expiry (redisTTL is 0)
  local,    \* each instance's in-process entry
  inbox,    \* invalidation messages on their way to each instance
  rpc,      \* where each redirect request is in handleRedirect
  at,       \* the instance that serves it
  held,     \* the value it has read
  epc,      \* where each editing handler is: idle, purge (row written), publish
  edits,    \* edits so far
  faults,   \* faults so far
  causes    \* history: why the Redis entry may differ from the row

dbVars     == <<row, edits>>
cacheVars  == <<redis, local, inbox>>
reqVars    == <<rpc, at, held>>
vars       == <<dbVars, cacheVars, reqVars, epc, faults, causes>>

\* FindRedirectTarget: only an active, unexpired row has a target.
Target ==
  IF row.active /\ row.expires # "past" THEN row.long ELSE None

Init ==
  /\ \E x \in Expiries, v \in Targets : row = [long |-> v, active |-> TRUE, expires |-> x]
  /\ redis = None
  /\ local = [r \in Instances |-> None]
  /\ inbox = [r \in Instances |-> 0]
  /\ rpc = [q \in Requests |-> "idle"]
  /\ at \in [Requests -> Instances]
  /\ held = [q \in Requests |-> None]
  /\ epc = [e \in Editors |-> "idle"]
  /\ edits = 0
  /\ faults = 0
  /\ causes = {}

Fault == faults < MaxFaults /\ faults' = faults + 1

NoFault == faults' = faults

-----------------------------------------------------------------------------
(* cmd/redirect: handleRedirect and Cache.Get / Cache.Set.                 *)

\* What a request that arrives at r now is answered when nothing else happens
\* and no call fails: a long URL, or None for a 404.
Lookup(r) ==
  IF local[r] # None THEN local[r] ELSE IF redis # None THEN redis ELSE Target

\* The response is written; the request slot is free for the next request.
Respond(q) ==
  /\ rpc' = [rpc EXCEPT ![q] = "idle"]
  /\ held' = [held EXCEPT ![q] = None]

\* A request that hits its instance's in-process tier is answered from there
\* and changes nothing (see Lookup); one that misses goes on to Redis.
LocalMiss(q) ==
  /\ rpc[q] = "idle" /\ local[at[q]] = None
  /\ rpc' = [rpc EXCEPT ![q] = "get"]
  /\ UNCHANGED <<dbVars, cacheVars, at, held, epc, faults, causes>>

\* Mutant: redis.Nil is not told from a value.
RedisGetNilIsHit(q) ==
  /\ rpc[q] = "get"
  /\ NoFault
  /\ rpc' = [rpc EXCEPT ![q] = "put"]
  /\ held' = [held EXCEPT ![q] = redis]
  /\ UNCHANGED <<dbVars, cacheVars, at, epc, causes>>

\* The Redis GET of Cache.Get; an error falls back to storage like a miss.
RedisGet(q) ==
  /\ rpc[q] = "get"
  /\ \/ /\ redis # None /\ NoFault
        /\ rpc' = [rpc EXCEPT ![q] = "put"]
        /\ held' = [held EXCEPT ![q] = redis]
     \/ /\ (redis = None /\ NoFault) \/ Fault
        /\ rpc' = [rpc EXCEPT ![q] = "find"]
        /\ UNCHANGED held
  /\ UNCHANGED <<dbVars, cacheVars, at, epc, causes>>

\* Mutant: the query forgets status and expires_at.
FindAnyRow(q) ==
  /\ rpc[q] = "find"
  /\ NoFault
  /\ rpc' = [rpc EXCEPT ![q] = "set"]
  /\ held' = [held EXCEPT ![q] = row.long]
  /\ UNCHANGED <<dbVars, cacheVars, at, epc, causes>>

\* FindRedirectTarget; no row and a failed query are both a 404.
Find(q) ==
  /\ rpc[q] = "find"
  /\ \/ /\ Target # None /\ NoFault
        /\ rpc' = [rpc EXCEPT ![q] = "set"]
        /\ held' = [held EXCEPT ![q] = Target]
     \/ /\ (Target = None /\ NoFault) \/ Fault
        /\ Respond(q)
  /\ UNCHANGED <<dbVars, cacheVars, at, epc, causes>>

\* The Redis SET of Cache.Set, without expiry.  On an error, which may come
\* after the value was stored, the in-process tier is left alone and the
\* redirect is answered anyway.
RedisSet(q) ==
  /\ rpc[q] = "set"
  /\ \/ /\ NoFault
        /\ redis' = held[q]
        /\ rpc' = [rpc EXCEPT ![q] = "put"]
        /\ UNCHANGED held
     \/ /\ Fault
        /\ redis' \in {redis, held[q]}
        /\ Respond(q)
  /\ causes' = IF redis' # redis /\ redis' # Target THEN causes \cup {"race"} ELSE causes
  /\ UNCHANGED <<dbVars, local, inbox, at, epc>>

\* SetWithTTL on the in-process tier, which may drop the entry, then the 302.
LocalPut(q) ==
  /\ rpc[q] = "put"
  /\ \/ local' = [local EXCEPT ![at[q]] = held[q]]
     \/ UNCHANGED local
  /\ Respond(q)
  /\ UNCHANGED <<dbVars, redis, inbox, at, epc, faults, causes>>

\* Mutant: in-process entries are stored without a TTL.
LocalExpireNever(r) == FALSE /\ local[r] # None /\ UNCHANGED vars

\* The in-process entry reaches localTTL or is evicted.
LocalExpire(r) ==
  /\ local[r] # None
  /\ local' = [local EXCEPT ![r] = None]
  /\ UNCHANGED <<dbVars, redis, inbox, reqVars, epc, faults, causes>>

\* Subscribe: one invalidation message arrives.
Receive(r) ==
  /\ inbox[r] > 0
  /\ inbox' = [inbox EXCEPT ![r] = @ - 1]
  /\ local' = [local EXCEPT ![r] = None]
  /\ UNCHANGED <<dbVars, redis, reqVars, epc, faults, causes>>

-----------------------------------------------------------------------------
(* cmd/api: the edit and delete handlers, and Cache.Invalidate.            *)

\* Mutant: the handler writes the row and forgets to purge.
WriteRowOnly(e, new) ==
  /\ epc[e] = "idle"
  /\ edits < MaxEdits
  /\ row' = new
  /\ edits' = edits + 1
  /\ UNCHANGED <<cacheVars, reqVars, epc, faults, causes>>

WriteRow(e, new) ==
  /\ epc[e] = "idle"
  /\ edits < MaxEdits
  /\ row' = new
  /\ edits' = edits + 1
  /\ epc' = [epc EXCEPT ![e] = "purge"]
  /\ UNCHANGED <<cacheVars, reqVars, faults, causes>>

\* handleUpdateShortURL: long_url and expires_at are replaced, status is not.
Update(e) ==
  \E v \in Targets, x \in Expiries :
    WriteRow(e, [row EXCEPT !.long = v, !.expires = x])

\* handleDeleteShortURL: status becomes disabled.
Disable(e) == WriteRow(e, [row EXCEPT !.active = FALSE])

\* Invalidate's Redis DEL.  An error is only logged and skips the publish; so
\* does a handler whose request context is cancelled or whose process dies.
Purge(e) ==
  /\ epc[e] = "purge"
  /\ \/ /\ NoFault
        /\ redis' = None
        /\ causes' = {}
        /\ epc' = [epc EXCEPT ![e] = "publish"]
     \/ /\ Fault
        /\ redis' \in {redis, None}
        /\ causes' = causes \cup {"purge"}
        /\ epc' = [epc EXCEPT ![e] = "idle"]
  /\ UNCHANGED <<dbVars, local, inbox, reqVars>>

\* Invalidate's PUBLISH.  Pub/Sub is at most once: whoever is not connected
\* never gets the message, and a failed publish reaches nobody.
Publish(e) ==
  /\ epc[e] = "publish"
  /\ \E S \in SUBSET Instances :
       inbox' = [r \in Instances |-> IF r \in S THEN inbox[r] + 1 ELSE inbox[r]]
  /\ epc' = [epc EXCEPT ![e] = "idle"]
  /\ UNCHANGED <<dbVars, redis, local, reqVars, faults, causes>>

\* now() passes expires_at; nothing runs in the program.
Expire ==
  /\ row.expires = "later"
  /\ row' = [row EXCEPT !.expires = "past"]
  /\ causes' = causes \cup {"expiry"}
  /\ UNCHANGED <<edits, cacheVars, reqVars, epc, faults>>

-----------------------------------------------------------------------------
RequestStep(q) ==
  LocalMiss(q) \/ RedisGet(q) \/ Find(q) \/ RedisSet(q) \/ LocalPut(q)

EditorStep(e) == Purge(e) \/ Publish(e)

Next ==
  \/ \E q \in Requests : RequestStep(q)
  \/ \E r \in Instances : LocalExpire(r) \/ Receive(r)
  \/ \E e \in Editors : Update(e) \/ Disable(e) \/ EditorStep(e)
  \/ Expire

Spec == Init /\ [][Next]_vars

\* Calls return or fail (their contexts have deadlines), in-process entries
\* have a TTL that a hit does not refresh, and delivered messages are handled.
\* Nothing makes anybody edit, and nothing makes a request arrive.
Fairness ==
  /\ \A q \in Requests : WF_vars(rpc[q] # "idle" /\ RequestStep(q))
  /\ \A r \in Instances : WF_vars(LocalExpire(r)) /\ WF_vars(Receive(r))
  /\ \A e \in Editors : WF_vars(EditorStep(e))

FairSpec == Spec /\ Fairness

-----------------------------------------------------------------------------
(* Properties.                                                             *)

\* Every variable has its type; a request that is past its lookup holds a
\* value.
TypeOK ==
  /\ row \in [long : Targets, active : BOOLEAN, expires : {"never", "later", "past"}]
  /\ redis \in Targets \cup {None}
  /\ local \in [Instances -> Targets \cup {None}]
  /\ inbox \in [Instances -> 0..MaxEdits]
  /\ rpc \in [Requests -> {"idle", "get", "find", "set", "put"}]
  /\ at \in [Requests -> Instances]
  /\ held \in [Requests -> Targets \cup {None}]
  /\ \A q \in Requests : held[q] # None <=> rpc[q] \in {"set", "put"}
  /\ epc \in [Editors -> {"idle", "purge", "publish"}]
  /\ edits \in 0..MaxEdits
  /\ faults \in 0..MaxFaults
  /\ causes \subseteq {"race", "purge", "expiry"}

\* Redis disagrees with the row only while an edit has not purged yet, after a
\* fill that stored what it had read before an edit, after a purge that
\* failed, or after the row's expiry: the edit and delete handlers purge what
\* they change, after they change it.
StaleRedisExplained ==
  redis \in {None, Target} \/ causes # {} \/ \E e \in Editors : epc[e] = "purge"

\* No copy of a target is left anywhere.
Gone ==
  /\ Target = None /\ redis = None
  /\ \A r \in Instances : local[r] = None
  /\ \A q \in Requests : held[q] = None

\* Once a disabled or expired code has left both tiers and the requests under
\* way, it cannot come back while the row stays dead: neither Get nor Set
\* brings back what FindRedirectTarget does not return.
DeadStaysDead == [][Gone /\ Target' = None => Gone']_vars

Forgotten(v) ==
  /\ Target # v /\ redis # v
  /\ \A q \in Requests : held[q] # v

\* The comment on localTTL: a target that PostgreSQL and Redis no longer hold
\* is not served for ever from an in-process tier, even when the instance
\* missed the invalidation.
LocalForgets ==
  \A v \in Targets :
    <>[]Forgotten(v) => <>[](\A r \in Instances : local[r] # v)

\* Every edit has purged, nothing has failed and no request is under way.
Settled ==
  /\ \A e \in Editors : epc[e] = "idle"
  /\ \A q \in Requests : rpc[q] = "idle"
  /\ faults = 0

\* What invalidateShortURLCache promises: an edit or disable has taken effect
\* once its handler is through, so Redis holds no older mapping.
EditTakesEffect == Settled => redis \in {None, Target}

\* What FindRedirectTarget's comment says: a request for an expired or
\* disabled code gets a 404 like one that never existed.
ExpiredIs404 ==
  Settled /\ Target = None => \A r \in Instances : Lookup(r) = None
=============================================================================
