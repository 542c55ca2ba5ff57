------------------------- MODULE RedirectCacheProofs -------------------------
(***************************************************************************)
(* Theorems about RedirectCache, for any instances, requests, editors and  *)
(* long URLs, and any number of edits and faults.                          *)
(***************************************************************************)
EXTENDS RedirectCache, FiniteSetTheorems, TLAPS

-----------------------------------------------------------------------------
(***************************************************************************)
(* Types.                                                                  *)
(***************************************************************************)

\* The types of all but the messages.
RowOK ==
  /\ row \in [long : Targets, active : BOOLEAN, expires : {"never", "later", "past"}]
  /\ edits \in 0..MaxEdits /\ faults \in 0..MaxFaults
  /\ causes \subseteq {"race", "purge", "expiry"}

TiersOK ==
  /\ redis \in Targets \cup {None}
  /\ local \in [Instances -> Targets \cup {None}]

RequestsOK ==
  /\ rpc \in [Requests -> {"idle", "get", "find", "set", "put"}]
  /\ at \in [Requests -> Instances]
  /\ held \in [Requests -> Targets \cup {None}]
  /\ \A q \in Requests : held[q] # None <=> rpc[q] \in {"set", "put"}

\* Handlers that have written the row and are not through.
Busy == {e \in Editors : epc[e] # "idle"}

\* Every message is of an edit that is over, so that there are no more of them
\* in an inbox than edits.
InboxOK ==
  /\ epc \in [Editors -> {"idle", "purge", "publish"}]
  /\ inbox \in [Instances -> Nat]
  /\ IsFiniteSet(Busy)
  /\ \A r \in Instances : inbox[r] + Cardinality(Busy) <= edits

TypeInv == RowOK /\ TiersOK /\ RequestsOK /\ InboxOK

LEMMA TypeInvImplies == TypeInv => TypeOK
<1> SUFFICES ASSUME TypeInv PROVE inbox \in [Instances -> 0..MaxEdits]
  BY DEF TypeInv, TypeOK, RowOK, TiersOK, RequestsOK, InboxOK
<1>1. Cardinality(Busy) \in Nat
  BY FS_CardinalityType DEF TypeInv, InboxOK
<1> QED
  BY <1>1, CacheAssumption DEF TypeInv, InboxOK, RowOK

\* What PostgreSQL returns.
LEMMA TargetType == ASSUME RowOK PROVE Target \in Targets \cup {None}
BY DEF RowOK, Target

\* A handler that writes the row is one more that is not through.
LEMMA WriteRowInbox ==
  ASSUME TypeInv, NEW e \in Editors, NEW new, WriteRow(e, new)
  PROVE  InboxOK' /\ edits' \in 0..MaxEdits
<1>1. epc[e] = "idle" /\ epc' = [epc EXCEPT ![e] = "purge"] /\ inbox' = inbox /\ edits' = edits + 1
  BY DEF WriteRow, cacheVars
<1>2. Busy' = Busy \cup {e} /\ e \notin Busy
  BY <1>1 DEF Busy, TypeInv, InboxOK
<1>3. IsFiniteSet(Busy') /\ Cardinality(Busy') = Cardinality(Busy) + 1
  BY <1>2, FS_AddElement DEF TypeInv, InboxOK
<1>4. Cardinality(Busy) \in Nat
  BY FS_CardinalityType DEF TypeInv, InboxOK
<1>5. edits \in Nat /\ edits' \in 0..MaxEdits
  BY <1>1, CacheAssumption DEF TypeInv, RowOK, WriteRow
<1> QED
  BY <1>1, <1>3, <1>4, <1>5 DEF TypeInv, InboxOK

\* A handler that is through, having told every instance or some or none.
LEMMA ThroughInbox ==
  ASSUME TypeInv, NEW e \in Editors, epc[e] # "idle", epc' = [epc EXCEPT ![e] = "idle"],
         UNCHANGED edits, inbox' \in [Instances -> Nat],
         \A r \in Instances : inbox'[r] <= inbox[r] + 1
  PROVE  InboxOK'
<1>1. Busy' = Busy \ {e} /\ e \in Busy
  BY DEF Busy, TypeInv, InboxOK
<1>2. IsFiniteSet(Busy') /\ Cardinality(Busy') = Cardinality(Busy) - 1
  BY <1>1, FS_RemoveElement DEF TypeInv, InboxOK
<1>3. Cardinality(Busy) \in Nat
  BY FS_CardinalityType DEF TypeInv, InboxOK
<1>4. edits \in Nat
  BY CacheAssumption DEF TypeInv, RowOK
<1>5. ASSUME NEW r \in Instances PROVE inbox'[r] + Cardinality(Busy') <= edits'
  BY <1>2, <1>3, <1>4 DEF TypeInv, InboxOK
<1> QED
  BY <1>2, <1>5 DEF TypeInv, InboxOK

LEMMA TypeInvStep == TypeInv /\ [Next]_vars => TypeInv'
<1> SUFFICES ASSUME TypeInv, [Next]_vars PROVE TypeInv'
  OBVIOUS
<1> USE CacheAssumption DEF TypeInv
<1>1. ASSUME epc' = epc, inbox' = inbox, edits' = edits PROVE InboxOK'
  <2>1. Busy' = Busy
    BY <1>1 DEF Busy
  <2> QED BY <1>1, <2>1 DEF InboxOK
<1>2. ASSUME NEW q \in Requests, RequestStep(q) PROVE TypeInv'
  <2> USE DEF dbVars, cacheVars, reqVars
  <2>1. InboxOK'
    BY <1>1, <1>2 DEF RequestStep, LocalMiss, RedisGet, Find, RedisSet, LocalPut
  <2>2. faults' \in 0..MaxFaults
    BY <1>2 DEF RequestStep, LocalMiss, RedisGet, Find, RedisSet, LocalPut, RowOK, Fault, NoFault
  <2>3. CASE LocalMiss(q)
    BY <2>1, <2>2, <2>3 DEF LocalMiss, RowOK, TiersOK, RequestsOK
  <2>4. CASE RedisGet(q)
    BY <2>1, <2>2, <2>4 DEF RedisGet, RowOK, TiersOK, RequestsOK
  <2>5. CASE Find(q)
    BY <2>1, <2>2, <2>5, TargetType DEF Find, Respond, RowOK, TiersOK, RequestsOK
  <2>6. CASE RedisSet(q)
    BY <2>1, <2>2, <2>6 DEF RedisSet, Respond, RowOK, TiersOK, RequestsOK
  <2>7. CASE LocalPut(q)
    BY <2>1, <2>2, <2>7 DEF LocalPut, Respond, RowOK, TiersOK, RequestsOK
  <2> QED BY <1>2, <2>3, <2>4, <2>5, <2>6, <2>7 DEF RequestStep
<1>3. ASSUME NEW r \in Instances, LocalExpire(r) PROVE TypeInv'
  <2>1. InboxOK'
    BY <1>1, <1>3 DEF LocalExpire, dbVars
  <2> QED BY <1>3, <2>1 DEF LocalExpire, RowOK, TiersOK, RequestsOK, dbVars, reqVars
<1>4. ASSUME NEW r \in Instances, Receive(r) PROVE TypeInv'
  <2>1. Cardinality(Busy) \in Nat /\ edits \in Nat
    BY FS_CardinalityType DEF InboxOK, RowOK
  <2>2. UNCHANGED <<epc, edits>> /\ inbox[r] > 0 /\ inbox' = [inbox EXCEPT ![r] = @ - 1]
    BY <1>4 DEF Receive, dbVars
  <2>3. Busy' = Busy
    BY <2>2 DEF Busy
  <2>4. inbox' \in [Instances -> Nat] /\ \A s \in Instances : inbox'[s] <= inbox[s]
    BY <2>2 DEF InboxOK
  <2>5. InboxOK'
    BY <2>1, <2>2, <2>3, <2>4 DEF InboxOK
  <2> QED BY <1>4, <2>5 DEF Receive, RowOK, TiersOK, RequestsOK, dbVars, reqVars
<1>5. ASSUME NEW e \in Editors, NEW v \in Targets, NEW x \in Expiries,
             WriteRow(e, [row EXCEPT !.long = v, !.expires = x])
      PROVE  TypeInv'
  <2>1. row' \in [long : Targets, active : BOOLEAN, expires : {"never", "later", "past"}]
    BY <1>5 DEF WriteRow, RowOK
  <2> QED
    BY <1>5, <2>1, WriteRowInbox DEF WriteRow, RowOK, TiersOK, RequestsOK, cacheVars, reqVars
<1>6. ASSUME NEW e \in Editors, Disable(e) PROVE TypeInv'
  <2>1. row' \in [long : Targets, active : BOOLEAN, expires : {"never", "later", "past"}]
    BY <1>6 DEF Disable, WriteRow, RowOK
  <2> QED
    BY <1>6, <2>1, WriteRowInbox
    DEF Disable, WriteRow, RowOK, TiersOK, RequestsOK, cacheVars, reqVars
<1>7. ASSUME NEW e \in Editors, Purge(e) PROVE TypeInv'
  <2>1. InboxOK'
    <3>1. CASE epc' = [epc EXCEPT ![e] = "publish"]
      <4>1. Busy' = Busy
        BY <1>7, <3>1 DEF Purge, Busy, InboxOK
      <4> QED BY <1>7, <3>1, <4>1 DEF Purge, InboxOK, dbVars
    <3>2. CASE epc' = [epc EXCEPT ![e] = "idle"]
      <4>1. UNCHANGED <<edits, inbox>> /\ epc[e] # "idle"
        BY <1>7 DEF Purge, dbVars
      <4>2. \A r \in Instances : inbox'[r] <= inbox[r] + 1
        BY <4>1 DEF InboxOK
      <4> QED BY <3>2, <4>1, <4>2, ThroughInbox DEF InboxOK
    <3> QED BY <1>7, <3>1, <3>2 DEF Purge
  <2>2. faults' \in 0..MaxFaults
    BY <1>7 DEF Purge, RowOK, Fault, NoFault
  <2>3. RowOK'
    BY <1>7, <2>2 DEF Purge, RowOK, dbVars
  <2>4. TiersOK' /\ RequestsOK'
    BY <1>7 DEF Purge, TiersOK, RequestsOK, reqVars
  <2> QED BY <2>1, <2>3, <2>4
<1>8. ASSUME NEW e \in Editors, Publish(e) PROVE TypeInv'
  <2>1. inbox' \in [Instances -> Nat] /\ \A r \in Instances : inbox'[r] <= inbox[r] + 1
    BY <1>8 DEF Publish, InboxOK
  <2>2. InboxOK'
    BY <1>8, <2>1, ThroughInbox DEF Publish, dbVars
  <2> QED BY <1>8, <2>2 DEF Publish, RowOK, TiersOK, RequestsOK, dbVars, reqVars
<1>9. CASE Expire
  <2>1. InboxOK'
    BY <1>1, <1>9 DEF Expire, cacheVars
  <2>2. row' \in [long : Targets, active : BOOLEAN, expires : {"never", "later", "past"}]
    BY <1>9 DEF Expire, RowOK
  <2> QED BY <1>9, <2>1, <2>2 DEF Expire, RowOK, TiersOK, RequestsOK, cacheVars, reqVars
<1>10. CASE UNCHANGED vars
  <2>1. InboxOK'
    BY <1>1, <1>10 DEF vars, dbVars, cacheVars
  <2> QED
    BY <1>10, <2>1 DEF vars, dbVars, cacheVars, reqVars, RowOK, TiersOK, RequestsOK
<1> QED
  BY <1>2, <1>3, <1>4, <1>5, <1>6, <1>7, <1>8, <1>9, <1>10 DEF Next, EditorStep, Update

LEMMA TypeInvInit == Init => TypeInv
<1> SUFFICES ASSUME Init PROVE TypeInv
  OBVIOUS
<1>1. Busy = {}
  BY DEF Init, Busy
<1>2. InboxOK
  BY <1>1, FS_EmptySet DEF Init, InboxOK
<1> QED
  BY <1>2, CacheAssumption DEF Init, TypeInv, RowOK, TiersOK, RequestsOK

THEOREM TypeInvariant == Spec => []TypeInv
BY TypeInvInit, TypeInvStep, PTL DEF Spec

\* The row, both tiers and the requests hold what they should; a request that
\* is past its lookup holds a target, and an instance never has more messages
\* waiting than there were edits.
THEOREM TypeCorrect == Spec => []TypeOK
BY TypeInvariant, TypeInvImplies, PTL

-----------------------------------------------------------------------------
(***************************************************************************)
(* What Redis holds.                                                       *)
(***************************************************************************)

\* Redis disagrees with the row only while an edit has yet to purge, or for one
\* of three reasons: a fill that raced with an edit, a purge that failed, the
\* row's own expiry.  Both handlers write the row before they purge, so an edit
\* by itself leaves nothing stale behind.
THEOREM StaleRedisIsExplained == Spec => []StaleRedisExplained
<1>1. Init => StaleRedisExplained
  BY DEF Init, StaleRedisExplained
<1>2. TypeInv /\ StaleRedisExplained /\ [Next]_vars => StaleRedisExplained'
  <2> SUFFICES ASSUME TypeInv, StaleRedisExplained, [Next]_vars PROVE StaleRedisExplained'
    OBVIOUS
  <2> USE DEF StaleRedisExplained, dbVars, cacheVars, reqVars
  <2>1. CASE UNCHANGED <<row, redis, causes, epc>>
    BY <2>1 DEF Target
  <2>2. ASSUME NEW q \in Requests, RedisSet(q) PROVE StaleRedisExplained'
    <3>1. UNCHANGED <<row, epc>> /\ Target' = Target
      BY <2>2 DEF RedisSet, Target
    <3>2. causes' = IF redis' # redis /\ redis' # Target THEN causes \cup {"race"} ELSE causes
      BY <2>2 DEF RedisSet
    <3> QED BY <3>1, <3>2
  <2>3. ASSUME NEW q \in Requests, RequestStep(q) PROVE StaleRedisExplained'
    BY <2>1, <2>2, <2>3 DEF RequestStep, LocalMiss, RedisGet, Find, LocalPut
  <2>4. ASSUME NEW r \in Instances, LocalExpire(r) \/ Receive(r) PROVE StaleRedisExplained'
    BY <2>1, <2>4 DEF LocalExpire, Receive
  <2>5. ASSUME NEW e \in Editors, Update(e) \/ Disable(e) PROVE epc'[e] = "purge"
    BY <2>5 DEF Update, Disable, WriteRow, TypeInv, InboxOK
  <2>6. ASSUME NEW e \in Editors, Purge(e) PROVE StaleRedisExplained'
    BY <2>6 DEF Purge
  <2>7. ASSUME NEW e \in Editors, Publish(e) PROVE StaleRedisExplained'
    <3>1. ASSUME NEW f \in Editors, epc[f] = "purge" PROVE epc'[f] = "purge"
      BY <2>7, <3>1 DEF Publish, TypeInv, InboxOK
    <3>2. UNCHANGED <<redis, causes>> /\ Target' = Target
      BY <2>7 DEF Publish, Target
    <3> QED BY <3>1, <3>2
  <2>8. CASE Expire
    BY <2>8 DEF Expire
  <2> QED
    BY <2>1, <2>3, <2>4, <2>5, <2>6, <2>7, <2>8 DEF Next, EditorStep, vars
<1> QED
  BY <1>1, <1>2, TypeInvariant, PTL DEF Spec

\* What DeadStaysDead says of one step.
StaysDead == Gone /\ Target' = None => Gone'

\* A code that is gone from the row, both tiers and the requests stays gone as
\* long as the row is dead: the lookup returns nothing, and only what a lookup
\* returned is ever stored.
THEOREM DeadStays == Spec => DeadStaysDead
<1>1. TypeInv /\ [Next]_vars => [StaysDead]_vars
  <2> SUFFICES ASSUME TypeInv, [Next]_vars, Gone, Target' = None PROVE Gone'
    BY DEF StaysDead
  <2> USE DEF Gone, dbVars, cacheVars, reqVars
  <2>1. \A q \in Requests : rpc[q] \notin {"set", "put"}
    BY DEF TypeInv, RequestsOK
  <2>2. CASE UNCHANGED <<redis, local, held>>
    BY <2>2
  <2>3. ASSUME NEW q \in Requests, RequestStep(q) PROVE Gone'
    <3>1. CASE LocalMiss(q)
      BY <2>2, <3>1 DEF LocalMiss
    <3>2. CASE RedisGet(q)
      BY <2>2, <3>2 DEF RedisGet
    <3>3. CASE Find(q)
      BY <3>3 DEF Find, Respond, TypeInv, RequestsOK
    <3> QED BY <2>1, <2>3, <3>1, <3>2, <3>3 DEF RequestStep, RedisSet, LocalPut
  <2>4. ASSUME NEW r \in Instances, LocalExpire(r) \/ Receive(r) PROVE Gone'
    BY <2>4 DEF LocalExpire, Receive, TypeInv, TiersOK
  <2>5. ASSUME NEW e \in Editors, Update(e) \/ Disable(e) PROVE Gone'
    BY <2>2, <2>5 DEF Update, Disable, WriteRow
  <2>6. ASSUME NEW e \in Editors, EditorStep(e) PROVE Gone'
    BY <2>6 DEF EditorStep, Purge, Publish
  <2>7. CASE Expire
    BY <2>2, <2>7 DEF Expire
  <2> QED
    BY <2>2, <2>3, <2>4, <2>5, <2>6, <2>7 DEF Next, vars
<1> QED
  BY <1>1, TypeInvariant, PTL DEF Spec, DeadStaysDead, StaysDead
=============================================================================
