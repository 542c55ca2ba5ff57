------------------------ MODULE ClickPipelineProofs ------------------------
(***************************************************************************)
(* Proofs about ClickPipeline for every set of workers and keys, every     *)
(* batch size and every number of clicks and faults.                       *)
(***************************************************************************)
EXTENDS ClickPipeline, FiniteSetTheorems, SequenceTheorems, TLAPS

\* A worker runs only once the consumer group exists, and nothing is delivered
\* before that, so ensureGroup never moves a group that is in use.
GroupOK ==
  /\ group \/ delivered = 0
  /\ \A w \in Workers : pc[w] = "down" \/ group

TypeInv == TypeOK /\ GroupOK

(***************************************************************************)
(* Type correctness.                                                       *)
(***************************************************************************)

\* XREADGROUP's reply consists of entries of the stream behind the group's
\* last-delivered id.
LEMMA MessagesInStream ==
  ASSUME TypeOK
  PROVE  /\ LastMessage \in 0..Len(stream)
         /\ delivered <= LastMessage
         /\ NextMessages \subseteq Ids
         /\ 1..LastMessage = (1..delivered) \cup NextMessages
<1>1. Len(stream) \in Nat
  BY DEF TypeOK
<1>2. QED
  BY <1>1, PipelineAssumption DEF TypeOK, LastMessage, NextMessages, Ids

\* The places of the run loop keep their type through Leave and Return.
LEMMA LeaveType ==
  ASSUME TypeOK, NEW w \in Workers, NEW place \in Places, Leave(w, place)
  PROVE  /\ pc' \in [Workers -> Places]
         /\ after' \in [Workers -> {"top", "read", "claim"}]
         /\ cursor' \in [Workers -> Nat]
         /\ batch' \in [Workers -> SUBSET Ids]
         /\ todo' \in [Workers -> SUBSET Ids]
         /\ fresh' \in [Workers -> SUBSET Ids]
BY DEF TypeOK, Leave

\* So does Return, which keeps the place a worker was told to go back to.
LEMMA ReturnType ==
  ASSUME TypeOK, NEW w \in Workers, Return(w)
  PROVE  /\ pc' \in [Workers -> Places]
         /\ after' \in [Workers -> {"top", "read", "claim"}]
         /\ cursor' \in [Workers -> Nat]
         /\ batch' \in [Workers -> SUBSET Ids]
         /\ todo' \in [Workers -> SUBSET Ids]
         /\ fresh' \in [Workers -> SUBSET Ids]
BY DEF TypeOK, Return, Places

\* A batch of ids of the stream is typed as such.
LEMMA BeginBatchType ==
  ASSUME TypeOK, NEW w \in Workers, NEW B \in SUBSET Ids,
         NEW ret \in {"top", "read", "claim"}, BeginBatch(w, B, ret)
  PROVE  /\ pc' \in [Workers -> Places]
         /\ after' \in [Workers -> {"top", "read", "claim"}]
         /\ batch' \in [Workers -> SUBSET Ids]
         /\ todo' \in [Workers -> SUBSET Ids]
         /\ fresh' \in [Workers -> SUBSET Ids]
BY DEF TypeOK, BeginBatch, Places

\* A set of ids of the stream is finite, and so is its part of one key.
LEMMA IdsFinite ==
  ASSUME TypeOK, NEW S \in SUBSET Ids
  PROVE  /\ IsFiniteSet(S)
         /\ \A k : IsFiniteSet(OfKey(S, k)) /\ Cardinality(OfKey(S, k)) \in Nat
<1>1. Len(stream) \in Nat
  BY DEF TypeOK
<1>2. IsFiniteSet(Ids)
  BY <1>1, FS_Interval DEF Ids
<1>3. IsFiniteSet(S)
  BY <1>2, FS_Subset
<1>4. \A k : OfKey(S, k) \subseteq S
  BY DEF OfKey
<1>5. \A k : IsFiniteSet(OfKey(S, k))
  BY <1>3, <1>4, FS_Subset
<1>6. QED
  BY <1>3, <1>5, FS_CardinalityType

\* The daily counts stay natural numbers: they grow by a cardinality.
LEMMA AddDeltaType ==
  ASSUME TypeOK, NEW w \in Workers, NEW k \in Keys, AddDelta(w, k)
  PROVE  daily' \in [Keys -> Nat] /\ credited' \subseteq Ids
<1>1. fresh[w] \in SUBSET Ids
  BY DEF TypeOK
<1>2. Cardinality(OfKey(fresh[w], k)) \in Nat
  BY <1>1, IdsFinite
<1>3. OfKey(fresh[w], k) \subseteq Ids
  BY <1>1 DEF OfKey
<1>4. QED
  BY <1>2, <1>3 DEF AddDelta, TypeOK

\* The group, once created, stays, and only a started worker runs.
LEMMA GroupStep == TypeInv /\ [Next]_vars => GroupOK'
<1> SUFFICES ASSUME TypeOK, GroupOK, [Next]_vars
             PROVE  GroupOK'
  BY DEF TypeInv
<1>1. ASSUME NEW w \in Workers, pc[w] # "down", group' = group
      PROVE  GroupOK'
  BY <1>1 DEF GroupOK
<1>2. ASSUME NEW w \in Workers, Start(w)
      PROVE  GroupOK'
  BY <1>2 DEF Start, EnsureGroup, GroupOK
<1>3. ASSUME NEW w \in Workers, Crash(w) \/ WorkerStep(w)
      PROVE  pc[w] # "down" /\ group' = group
  BY <1>3 DEF Crash, WorkerStep, Read, Deliver, Tick, Claim, Insert, Upsert, Ack, redisVars
<1>4. CASE UNCHANGED <<group, delivered, pc>>
  BY <1>4 DEF GroupOK
<1>5. CASE (\E k \in Keys \cup {Malformed} : RecordClick(k)) \/ (\E i \in pel : Age(i))
            \/ UNCHANGED vars
  BY <1>4, <1>5 DEF RecordClick, Age, vars, redisVars, workerVars
<1>6. QED
  BY <1>1, <1>2, <1>3, <1>5 DEF Next

\* Every step keeps the type invariant.
LEMMA TypeStep == TypeInv /\ [Next]_vars => TypeOK'
<1> SUFFICES ASSUME TypeOK, GroupOK, [Next]_vars
             PROVE  TypeOK'
  BY DEF TypeInv
<1> USE PipelineAssumption
<1>1. CASE \E k \in Keys \cup {Malformed} : RecordClick(k)
  <2>1. PICK k \in Keys \cup {Malformed} : RecordClick(k)
    BY <1>1
  <2>2. /\ stream' \in Seq(Keys \cup {Malformed})
        /\ Len(stream') = Len(stream) + 1
        /\ Len(stream) \in Nat
    BY <2>1 DEF RecordClick, TypeOK
  <2>3. Ids \subseteq Ids'
    BY <2>2 DEF Ids
  <2>4. QED
    BY <2>1, <2>2, <2>3 DEF RecordClick, TypeOK, workerVars, dbVars
<1>2. ASSUME NEW w \in Workers, Start(w)
      PROVE  TypeOK'
  <2>1. /\ pc' \in [Workers -> Places]
        /\ after' \in [Workers -> {"top", "read", "claim"}]
        /\ cursor' \in [Workers -> Nat]
        /\ batch' \in [Workers -> SUBSET Ids]
        /\ todo' \in [Workers -> SUBSET Ids]
        /\ fresh' \in [Workers -> SUBSET Ids]
    BY <1>2, LeaveType DEF Start, Places
  <2>2. QED
    BY <1>2, <2>1 DEF Start, EnsureGroup, TypeOK, GroupOK, Ids, dbVars
<1>3. ASSUME NEW w \in Workers, Crash(w)
      PROVE  TypeOK'
  <2>1. Leave(w, "down")
    BY <1>3 DEF Crash
  <2>2. QED
    BY <1>3, <2>1, LeaveType DEF Crash, Fault, TypeOK, Ids, Places, redisVars, dbVars
<1>4. ASSUME NEW w \in Workers, Read(w)
      PROVE  TypeOK'
  <2>1. CASE Deliver /\ BeginBatch(w, NextMessages, "top") /\ UNCHANGED cursor /\ NoFault
    BY <1>4, <2>1, MessagesInStream, BeginBatchType
       DEF Read, Deliver, NoFault, TypeOK, Ids, dbVars
  <2>2. CASE Leave(w, "top") /\ UNCHANGED redisVars /\ (NoFault \/ Fault)
    <3>1. /\ pc' \in [Workers -> Places]
          /\ after' \in [Workers -> {"top", "read", "claim"}]
          /\ cursor' \in [Workers -> Nat]
          /\ batch' \in [Workers -> SUBSET Ids]
          /\ todo' \in [Workers -> SUBSET Ids]
          /\ fresh' \in [Workers -> SUBSET Ids]
      BY <2>2, LeaveType DEF Places
    <3>2. faults' \in Nat
      BY <2>2 DEF NoFault, Fault, TypeOK
    <3>3. UNCHANGED <<redisVars, dbVars>>
      BY <1>4, <2>2 DEF Read
    <3>4. QED
      BY <3>1, <3>2, <3>3 DEF TypeOK, Ids, redisVars, dbVars
  <2>3. CASE Leave(w, "top") /\ Deliver /\ Fault
    <3>1. /\ pc' \in [Workers -> Places]
          /\ after' \in [Workers -> {"top", "read", "claim"}]
          /\ cursor' \in [Workers -> Nat]
          /\ batch' \in [Workers -> SUBSET Ids]
          /\ todo' \in [Workers -> SUBSET Ids]
          /\ fresh' \in [Workers -> SUBSET Ids]
      BY <2>3, LeaveType DEF Places
    <3>2. UNCHANGED <<stream, group, stale, dbVars>> /\ faults' \in Nat
      BY <1>4, <2>3 DEF Read, Deliver, Fault, TypeOK
    <3>3. delivered' \in 0..Len(stream) /\ pel' \subseteq 1..delivered'
      BY <2>3, MessagesInStream DEF Deliver, TypeOK
    <3>4. stale' \subseteq pel'
      BY <2>3 DEF Deliver, TypeOK
    <3>5. QED
      BY <3>1, <3>2, <3>3, <3>4 DEF TypeOK, Ids, dbVars
  <2>4. QED
    BY <1>4, <2>1, <2>2, <2>3 DEF Read
<1>5. ASSUME NEW w \in Workers, Tick(w)
      PROVE  TypeOK'
  BY <1>5 DEF Tick, TypeOK, Ids, Places, redisVars, dbVars
<1>6. ASSUME NEW w \in Workers, Claim(w)
      PROVE  TypeOK'
  <2>1. PICK B \in Claims(w) :
             \/ Leave(w, "read") /\ (NoFault \/ Fault) /\ stale' \in {stale, stale \ B}
             \/ /\ NoFault
                /\ stale' = stale \ B
                /\ \/ BeginBatch(w, B, "read") /\ UNCHANGED cursor
                   \/ \E n \in Behind(B) : /\ BeginBatch(w, B, "claim")
                                           /\ cursor' = [cursor EXCEPT ![w] = n]
    BY <1>6 DEF Claim
  <2>2. B \subseteq stale /\ stale \subseteq Ids /\ Behind(B) \subseteq Ids
    <3>1. B \subseteq stale
      BY <2>1 DEF Claims, Claimable
    <3>2. pel \subseteq Ids /\ stale \subseteq pel
      BY DEF TypeOK, Ids
    <3>3. Behind(B) \subseteq pel
      BY DEF Behind
    <3>4. QED
      BY <3>1, <3>2, <3>3
  <2>3. /\ pc' \in [Workers -> Places]
        /\ after' \in [Workers -> {"top", "read", "claim"}]
        /\ cursor' \in [Workers -> Nat]
        /\ batch' \in [Workers -> SUBSET Ids]
        /\ todo' \in [Workers -> SUBSET Ids]
        /\ fresh' \in [Workers -> SUBSET Ids]
    <3>1. CASE Leave(w, "read")
      BY <3>1, LeaveType DEF Places
    <3>2. CASE BeginBatch(w, B, "read") /\ UNCHANGED cursor
      BY <3>2, <2>2, BeginBatchType DEF TypeOK
    <3>3. CASE \E n \in Behind(B) : /\ BeginBatch(w, B, "claim")
                                    /\ cursor' = [cursor EXCEPT ![w] = n]
      BY <3>3, <2>2, BeginBatchType DEF TypeOK, Ids
    <3>4. QED
      BY <2>1, <3>1, <3>2, <3>3
  <2>4. stale' \subseteq pel
    BY <2>1 DEF TypeOK
  <2>5. faults' \in Nat
    BY <2>1 DEF TypeOK, NoFault, Fault
  <2>6. QED
    BY <1>6, <2>3, <2>4, <2>5 DEF Claim, TypeOK, Ids, dbVars
<1>7. ASSUME NEW w \in Workers, Insert(w)
      PROVE  TypeOK'
  <2>1. PICK i \in todo[w] : InsertRow(w, i) \/ InsertFails(w, i) \/ InsertRefused(w, i)
    BY <1>7 DEF Insert
  <2>2. i \in Ids
    BY <2>1 DEF TypeOK
  <2>3. CASE InsertRow(w, i)
    BY <1>7, <2>2, <2>3 DEF Insert, InsertRow, NoFault, TypeOK, Ids, redisVars
  <2>4. CASE InsertFails(w, i) \/ InsertRefused(w, i)
    <3>1. Return(w) /\ events' \subseteq Ids /\ faults' \in Nat
      BY <2>2, <2>4 DEF InsertFails, InsertRefused, Fault, NoFault, TypeOK
    <3>2. QED
      BY <1>7, <3>1, ReturnType DEF Insert, TypeOK, Ids, redisVars
  <2>5. QED
    BY <2>1, <2>3, <2>4
<1>8. ASSUME NEW w \in Workers, Upsert(w)
      PROVE  TypeOK'
  <2>1. PICK k \in Keys :
             \/ /\ NoFault
                /\ AddDelta(w, k)
                /\ fresh' = [fresh EXCEPT ![w] = @ \ OfKey(@, k)]
                /\ UNCHANGED <<pc, after, cursor, batch, todo>>
             \/ /\ Fault
                /\ AddDelta(w, k) \/ UNCHANGED <<daily, credited>>
                /\ Return(w)
    BY <1>8 DEF Upsert
  <2>2. daily' \in [Keys -> Nat] /\ credited' \subseteq Ids
    BY <2>1, AddDeltaType DEF TypeOK
  <2>3. CASE /\ NoFault
             /\ fresh' = [fresh EXCEPT ![w] = @ \ OfKey(@, k)]
             /\ UNCHANGED <<pc, after, cursor, batch, todo>>
    BY <1>8, <2>2, <2>3 DEF Upsert, NoFault, TypeOK, Ids, redisVars
  <2>4. CASE Fault /\ Return(w)
    <3>1. /\ pc' \in [Workers -> Places]
          /\ after' \in [Workers -> {"top", "read", "claim"}]
          /\ cursor' \in [Workers -> Nat]
          /\ batch' \in [Workers -> SUBSET Ids]
          /\ todo' \in [Workers -> SUBSET Ids]
          /\ fresh' \in [Workers -> SUBSET Ids]
      BY <2>4, ReturnType
    <3>2. UNCHANGED <<redisVars, events>> /\ faults' \in Nat
      BY <1>8, <2>4 DEF Upsert, Fault, TypeOK
    <3>3. QED
      BY <2>2, <3>1, <3>2 DEF TypeOK, Ids, redisVars
  <2>5. QED
    BY <2>1, <2>3, <2>4
<1>9. ASSUME NEW w \in Workers, Ack(w)
      PROVE  TypeOK'
  <2>1. Return(w) /\ pel' \subseteq 1..delivered /\ stale' \subseteq pel' /\ faults' \in Nat
    <3>1. Return(w) /\ faults' \in Nat
      BY <1>9 DEF Ack, Fault, NoFault, TypeOK
    <3>2. \/ pel' = pel \ batch[w] /\ stale' = stale \ batch[w]
          \/ UNCHANGED <<pel, stale>>
      BY <1>9 DEF Ack
    <3>3. QED
      BY <3>1, <3>2 DEF TypeOK
  <2>2. QED
    BY <1>9, <2>1, ReturnType DEF Ack, TypeOK, Ids, dbVars
<1>10. ASSUME NEW i \in pel, Age(i)
       PROVE  TypeOK'
  BY <1>10 DEF Age, TypeOK, Ids, workerVars, dbVars
<1>11. CASE UNCHANGED vars
  BY <1>11 DEF vars, redisVars, workerVars, dbVars, TypeOK, Ids
<1>12. QED
  BY <1>1, <1>2, <1>3, <1>4, <1>5, <1>6, <1>7, <1>8, <1>9, <1>10, <1>11
     DEF Next, WorkerStep

\* The type invariant holds before anything has happened.
LEMMA InitTypeInv == Init => TypeInv
<1>1. Init => TypeOK
  <2> SUFFICES ASSUME Init PROVE TypeOK
    OBVIOUS
  <2>1. stream \in Seq(Keys \cup {Malformed}) /\ Len(stream) = 0
    BY DEF Init
  <2>2. daily \in [Keys -> Nat] /\ cursor \in [Workers -> Nat]
    BY DEF Init
  <2>3. pc \in [Workers -> Places] /\ after \in [Workers -> {"top", "read", "claim"}]
    BY DEF Init, Places
  <2>4. /\ batch \in [Workers -> SUBSET Ids]
        /\ todo \in [Workers -> SUBSET Ids]
        /\ fresh \in [Workers -> SUBSET Ids]
    BY DEF Init
  <2>5. delivered \in 0..Len(stream) /\ faults \in Nat
    BY <2>1 DEF Init
  <2>6. group \in BOOLEAN
    BY DEF Init
  <2>7. pel \subseteq 1..delivered /\ stale \subseteq pel
    BY DEF Init
  <2>8. events \subseteq Ids /\ credited \subseteq Ids
    BY DEF Init
  <2>9. QED
    BY <2>1, <2>2, <2>3, <2>4, <2>5, <2>6, <2>7, <2>8 DEF TypeOK
<1>2. Init => GroupOK
  BY DEF Init, GroupOK
<1>3. QED
  BY <1>1, <1>2 DEF TypeInv

\* It is inductive: no step of a worker, a crash or the clock breaks it.
LEMMA TypeInvStep == TypeInv /\ [Next]_vars => TypeInv'
BY TypeStep, GroupStep DEF TypeInv

\* The type invariant holds in every reachable state: all the ids the workers,
\* the group and the tables hold are ids of entries on the stream.
THEOREM TypeCorrect == Spec => []TypeOK
<1>1. TypeInv => TypeOK
  BY DEF TypeInv
<1>2. QED
  BY <1>1, InitTypeInv, TypeInvStep, PTL DEF Spec

(***************************************************************************)
(* No click is counted twice.  The deltas of the workers are disjoint and  *)
(* hold only rows that are in no count yet, and each count is exactly the  *)
(* number of its credited entries.                                         *)
(***************************************************************************)

FreshOK ==
  /\ credited \subseteq events
  /\ \A w \in Workers : fresh[w] \subseteq events \ credited
  /\ \A v, w \in Workers : v # w => fresh[v] \cap fresh[w] = {}

CountOK ==
  \A k \in Keys : daily[k] = Cardinality(OfKey(credited, k))

CountInv == FreshOK /\ CountOK

\* A step that only drops deltas and adds rows keeps them disjoint.
LEMMA FreshShrinks ==
  ASSUME FreshOK, credited' = credited, events \subseteq events',
         \A w \in Workers : fresh'[w] \subseteq fresh[w]
  PROVE  FreshOK'
BY DEF FreshOK

\* Leave and Return drop the deltas of one worker.
LEMMA DropDeltas ==
  ASSUME TypeOK, NEW w \in Workers, Return(w) \/ \E place : Leave(w, place)
  PROVE  \A v \in Workers : fresh'[v] = IF v = w THEN {} ELSE fresh[v]
BY DEF Return, Leave, TypeOK

\* Cardinalities of disjoint sets of ids add up.
LEMMA DisjointUnion ==
  ASSUME NEW A, NEW B, IsFiniteSet(A), IsFiniteSet(B), A \cap B = {}
  PROVE  Cardinality(A \cup B) = Cardinality(A) + Cardinality(B)
<1>1. Cardinality(A \cup B) = Cardinality(A) + Cardinality(B) - Cardinality(A \cap B)
  BY FS_Union
<1>2. Cardinality(A) \in Nat /\ Cardinality(B) \in Nat
  BY FS_CardinalityType
<1>3. Cardinality(A \cap B) = 0
  BY FS_EmptySet
<1>4. QED
  BY <1>1, <1>2, <1>3

\* AddDelta moves the entries of one key from a worker's deltas to the count.
LEMMA AddDeltaCounts ==
  ASSUME TypeOK, CountInv, NEW w \in Workers, NEW k \in Keys, AddDelta(w, k),
         UNCHANGED stream
  PROVE  CountOK'
<1> DEFINE S == OfKey(fresh[w], k)
<1>1. /\ fresh[w] \in SUBSET Ids
      /\ credited \in SUBSET Ids
  BY DEF TypeOK
<1>2. OfKey(credited, k) \cap S = {}
  BY DEF CountInv, FreshOK, OfKey
<1>3. IsFiniteSet(OfKey(credited, k)) /\ IsFiniteSet(S)
  BY <1>1, IdsFinite
<1>4. Cardinality(OfKey(credited, k) \cup S) =
        Cardinality(OfKey(credited, k)) + Cardinality(S)
  BY <1>2, <1>3, DisjointUnion
<1>5. daily' = [daily EXCEPT ![k] = @ + Cardinality(S)] /\ credited' = credited \cup S
  BY DEF AddDelta
<1>6. OfKey(credited, k)' = OfKey(credited, k) \cup S
  BY <1>5 DEF OfKey
<1>7. ASSUME NEW j \in Keys, j # k
      PROVE  OfKey(credited, j)' = OfKey(credited, j)
  BY <1>5, <1>7 DEF OfKey
<1>8. daily'[k] = Cardinality(OfKey(credited, k))'
  BY <1>4, <1>5, <1>6 DEF CountInv, CountOK, TypeOK
<1>9. ASSUME NEW j \in Keys, j # k
      PROVE  daily'[j] = Cardinality(OfKey(credited, j))'
  BY <1>5, <1>7, <1>9 DEF CountInv, CountOK, TypeOK
<1>10. QED
  BY <1>8, <1>9 DEF CountOK

\* A step that leaves counts and credits alone and at most extends the stream
\* keeps the counts exact.
LEMMA CountUnchanged ==
  ASSUME TypeOK, CountOK, UNCHANGED <<daily, credited>>,
         \A i \in Ids : stream'[i] = stream[i]
  PROVE  CountOK'
<1>1. ASSUME NEW k \in Keys
      PROVE  OfKey(credited, k)' = OfKey(credited, k)
  BY DEF OfKey, TypeOK
<1>2. QED
  BY <1>1 DEF CountOK

\* Every step keeps the deltas disjoint and the counts exact.
LEMMA CountStep == TypeInv /\ CountInv /\ [Next]_vars => CountInv'
<1> SUFFICES ASSUME TypeOK, CountInv, [Next]_vars
             PROVE  CountInv'
  BY DEF TypeInv
<1> USE DEF CountInv
<1>1. ASSUME NEW w \in Workers, Insert(w)
      PROVE  CountInv'
  <2>1. PICK i \in todo[w] : InsertRow(w, i) \/ InsertFails(w, i) \/ InsertRefused(w, i)
    BY <1>1 DEF Insert
  <2>2. CountOK'
    BY <1>1, CountUnchanged DEF Insert, redisVars
  <2>3. CASE InsertRow(w, i)
    <3>1. /\ events' = events \cup {i}
          /\ credited' = credited
          /\ \A v \in Workers :
               fresh'[v] = IF v = w /\ i \notin events THEN fresh[v] \cup {i} ELSE fresh[v]
      BY <1>1, <2>3 DEF Insert, InsertRow, TypeOK
    <3>2. credited' \subseteq events' /\ i \in events'
      BY <3>1 DEF FreshOK
    <3>3. ASSUME NEW v \in Workers
          PROVE  fresh'[v] \subseteq events' \ credited'
      BY <3>1 DEF FreshOK
    <3>4. ASSUME NEW u \in Workers, NEW v \in Workers, u # v
          PROVE  fresh'[u] \cap fresh'[v] = {}
      <4>1. fresh[u] \cap fresh[v] = {} /\ fresh[u] \subseteq events /\ fresh[v] \subseteq events
        BY <3>4 DEF FreshOK
      <4>2. CASE i \in events
        BY <3>1, <4>1, <4>2
      <4>3. CASE i \notin events
        <5>1. CASE u = w
          <6>1. fresh'[u] = fresh[u] \cup {i} /\ fresh'[v] = fresh[v]
            BY <3>1, <3>4, <4>3, <5>1
          <6>2. QED
            BY <4>1, <4>3, <6>1
        <5>2. CASE u # w
          <6>1. fresh'[u] = fresh[u] /\ fresh'[v] \subseteq fresh[v] \cup {i}
            BY <3>1, <5>2
          <6>2. QED
            BY <4>1, <4>3, <6>1
        <5>3. QED
          BY <5>1, <5>2
      <4>4. QED
        BY <4>2, <4>3
    <3>5. FreshOK'
      BY <3>2, <3>3, <3>4 DEF FreshOK
    <3>6. QED
      BY <2>2, <3>5
  <2>4. CASE InsertFails(w, i) \/ InsertRefused(w, i)
    <3>1. Return(w) /\ events \subseteq events' /\ credited' = credited
      BY <1>1, <2>4 DEF Insert, InsertFails, InsertRefused
    <3>2. QED
      BY <2>2, <3>1, DropDeltas, FreshShrinks
  <2>5. QED
    BY <2>1, <2>3, <2>4
<1>2. ASSUME NEW w \in Workers, Upsert(w)
      PROVE  CountInv'
  <2>1. PICK k \in Keys :
             \/ /\ AddDelta(w, k)
                /\ fresh' = [fresh EXCEPT ![w] = @ \ OfKey(@, k)]
             \/ /\ AddDelta(w, k) \/ UNCHANGED <<daily, credited>>
                /\ Return(w)
    BY <1>2 DEF Upsert
  <2>2. UNCHANGED <<stream, events>>
    BY <1>2 DEF Upsert, redisVars
  <2>3. CountOK'
    BY <2>1, <2>2, AddDeltaCounts, CountUnchanged
  <2>4. CASE AddDelta(w, k)
    <3>1. /\ credited' = credited \cup OfKey(fresh[w], k)
          /\ fresh'[w] \subseteq fresh[w] \ OfKey(fresh[w], k)
          /\ \A v \in Workers : fresh'[v] \subseteq fresh[v]
      BY <2>1, <2>4, DropDeltas DEF AddDelta, TypeOK
    <3>2. OfKey(fresh[w], k) \subseteq fresh[w]
      BY DEF OfKey
    <3>3. FreshOK'
      BY <2>2, <3>1, <3>2 DEF FreshOK
    <3>4. QED
      BY <2>3, <3>3
  <2>5. CASE UNCHANGED <<daily, credited>> /\ Return(w)
    BY <2>2, <2>3, <2>5, DropDeltas, FreshShrinks
  <2>6. QED
    BY <2>1, <2>4, <2>5
<1>3. ASSUME UNCHANGED <<events, daily, credited>>,
             \A i \in Ids : stream'[i] = stream[i],
             \A w \in Workers : fresh'[w] \subseteq fresh[w]
      PROVE  CountInv'
  BY <1>3, CountUnchanged, FreshShrinks
<1>4. ASSUME NEW k \in Keys \cup {Malformed}, RecordClick(k)
      PROVE  CountInv'
  <2>1. \A i \in Ids : stream'[i] = stream[i]
    BY <1>4 DEF RecordClick, TypeOK, Ids
  <2>2. QED
    BY <1>3, <1>4, <2>1 DEF RecordClick, workerVars, dbVars
<1>5. ASSUME NEW w \in Workers, Start(w) \/ Crash(w) \/ Read(w) \/ Claim(w) \/ Tick(w) \/ Ack(w)
      PROVE  CountInv'
  <2>1. UNCHANGED <<stream, events, daily, credited>>
    BY <1>5 DEF Start, Crash, Read, Deliver, Claim, Tick, Ack, redisVars, dbVars
  <2>2. \/ UNCHANGED fresh
        \/ Return(w)
        \/ \E place : Leave(w, place)
    BY <1>5 DEF Start, Crash, Read, Claim, Tick, Ack, BeginBatch
  <2>3. QED
    BY <1>3, <2>1, <2>2, DropDeltas
<1>6. CASE (\E i \in pel : Age(i)) \/ UNCHANGED vars
  BY <1>3, <1>6 DEF Age, vars, redisVars, workerVars, dbVars
<1>7. QED
  BY <1>1, <1>2, <1>4, <1>5, <1>6 DEF Next, WorkerStep

\* The deltas stay disjoint and the counts exact in every reachable state.
LEMMA CountCorrect == Spec => [](TypeInv /\ CountInv)
<1>1. Init => CountInv
  <2> SUFFICES ASSUME Init PROVE CountInv
    OBVIOUS
  <2>1. \A k \in Keys : OfKey(credited, k) = {} /\ daily[k] = 0
    BY DEF Init, OfKey
  <2>2. CountOK
    BY <2>1, FS_EmptySet DEF CountOK
  <2>3. FreshOK
    BY DEF Init, FreshOK
  <2>4. QED
    BY <2>2, <2>3 DEF CountInv
<1>2. QED
  BY <1>1, InitTypeInv, TypeInvStep, CountStep, PTL DEF Spec

\* For any number of workers, clicks and faults, a daily count never exceeds
\* the number of click_events rows of its key.
THEOREM NoOvercount == Spec => []NeverOvercounts
<1>1. ASSUME TypeInv, CountInv
      PROVE  NeverOvercounts
  <2>1. ASSUME NEW k \in Keys
        PROVE  daily[k] <= Cardinality(OfKey(events, k))
    <3>1. OfKey(credited, k) \subseteq OfKey(events, k)
      BY <1>1 DEF CountInv, FreshOK, OfKey
    <3>2. events \in SUBSET Ids /\ TypeOK
      BY <1>1 DEF TypeInv, TypeOK
    <3>3. IsFiniteSet(OfKey(events, k))
      BY <3>2, IdsFinite
    <3>4. Cardinality(OfKey(credited, k)) <= Cardinality(OfKey(events, k))
      BY <3>1, <3>3, FS_Subset
    <3>5. QED
      BY <1>1, <3>4 DEF CountInv, CountOK
  <2>2. QED
    BY <2>1 DEF NeverOvercounts
<1>2. QED
  BY <1>1, CountCorrect, PTL

(***************************************************************************)
(* Nothing is acknowledged before it is recorded.  A worker's batch holds  *)
(* delivered entries, and each of them is still to do, malformed, or       *)
(* recorded.                                                               *)
(***************************************************************************)

WorkOf(w) ==
  /\ pc[w] = "record" \/ batch[w] = {}
  /\ fresh[w] \subseteq batch[w]
  /\ todo[w] \subseteq batch[w]
  /\ batch[w] \subseteq 1..delivered
  /\ Cardinality(batch[w]) <= BatchSize
  /\ \A i \in batch[w] : i \in todo[w] \/ stream[i] = Malformed \/ i \in events

WorkOK == \A w \in Workers : WorkOf(w)

WorkInv == WorkOK /\ AckedIsRecorded

\* What the steps of other workers and of the redirect service may change.
LEMMA WorkFrame ==
  ASSUME TypeOK, NEW v \in Workers, WorkOf(v),
         pc'[v] = pc[v], batch'[v] = batch[v], todo'[v] = todo[v],
         fresh'[v] = fresh[v], events \subseteq events',
         delivered' \in Nat, delivered <= delivered',
         \A i \in Ids : stream'[i] = stream[i]
  PROVE  WorkOf(v)'
<1>1. batch[v] \subseteq Ids
  BY DEF TypeOK
<1>2. delivered \in Nat
  BY DEF TypeOK
<1>3. batch'[v] \subseteq 1..delivered'
  BY <1>2 DEF WorkOf
<1>4. \A i \in batch'[v] : i \in todo'[v] \/ stream'[i] = Malformed \/ i \in events'
  BY <1>1 DEF WorkOf
<1>5. QED
  BY <1>3, <1>4 DEF WorkOf

\* A worker that holds no batch satisfies its part of the invariant.
LEMMA IdleWork ==
  ASSUME TypeOK, NEW w \in Workers, Return(w) \/ \E place : Leave(w, place)
  PROVE  /\ WorkOf(w)'
         /\ \A v \in Workers \ {w} : /\ pc'[v] = pc[v] /\ batch'[v] = batch[v]
                                    /\ todo'[v] = todo[v] /\ fresh'[v] = fresh[v]
<1>1. batch'[w] = {} /\ todo'[w] = {} /\ fresh'[w] = {}
  BY DEF Return, Leave, TypeOK
<1>2. Cardinality(batch'[w]) <= BatchSize
  BY <1>1, FS_EmptySet, PipelineAssumption
<1>3. \A v \in Workers \ {w} : /\ pc'[v] = pc[v] /\ batch'[v] = batch[v]
                              /\ todo'[v] = todo[v] /\ fresh'[v] = fresh[v]
  BY DEF Return, Leave, TypeOK
<1>4. QED
  BY <1>1, <1>2, <1>3 DEF WorkOf

\* A batch of delivered entries, no larger than BatchSize, begins.
LEMMA NewWork ==
  ASSUME TypeOK, NEW w \in Workers, WorkOf(w), pc[w] # "record",
         NEW B \in SUBSET (1..delivered'), NEW ret, BeginBatch(w, B, ret),
         Cardinality(B) <= BatchSize, UNCHANGED stream
  PROVE  /\ WorkOf(w)'
         /\ \A v \in Workers \ {w} : /\ pc'[v] = pc[v] /\ batch'[v] = batch[v]
                                    /\ todo'[v] = todo[v] /\ fresh'[v] = fresh[v]
<1>1. /\ pc'[w] = "record" /\ batch'[w] = B /\ fresh'[w] = {}
      /\ todo'[w] = {i \in B : stream[i] # Malformed}
  BY DEF BeginBatch, TypeOK, WorkOf
<1>2. WorkOf(w)'
  BY <1>1 DEF WorkOf
<1>3. QED
  BY <1>2 DEF BeginBatch, TypeOK

\* A reply of XREADGROUP or XAUTOCLAIM has at most BatchSize messages.
LEMMA ReplySizes ==
  ASSUME TypeOK
  PROVE  /\ Cardinality(NextMessages) <= BatchSize
         /\ \A w : \A B \in Claims(w) : Cardinality(B) <= BatchSize
<1>1. delivered \in Nat /\ LastMessage \in Nat /\ LastMessage <= delivered + BatchSize
  BY PipelineAssumption DEF TypeOK, LastMessage
<1>2. Cardinality(NextMessages) =
        IF delivered + 1 > LastMessage THEN 0 ELSE LastMessage - (delivered + 1) + 1
  BY <1>1, FS_Interval DEF NextMessages
<1>3. Cardinality(NextMessages) <= BatchSize
  BY <1>1, <1>2, PipelineAssumption
<1>4. ASSUME NEW w, NEW B \in Claims(w)
      PROVE  Cardinality(B) <= BatchSize
  <2>1. CASE Cardinality(B) = BatchSize
    BY <2>1, PipelineAssumption
  <2>2. CASE Cardinality(B) < BatchSize
    <3>1. B \in SUBSET Ids
      BY DEF Claims, Claimable, TypeOK, Ids
    <3>2. Cardinality(B) \in Nat
      BY <3>1, IdsFinite, FS_CardinalityType
    <3>3. QED
      BY <2>2, <3>2, PipelineAssumption
  <2>3. QED
    BY <2>1, <2>2 DEF Claims
<1>5. QED
  BY <1>3, <1>4

\* Acknowledged entries stay handled while rows are only added, the pending
\* list only gains entries, and everything newly delivered is pending.
LEMMA AckedFrame ==
  ASSUME TypeOK, AckedIsRecorded, events \subseteq events', pel \subseteq pel',
         \A i \in Ids : stream'[i] = stream[i],
         delivered' \in Nat, 1..delivered' \subseteq (1..delivered) \cup pel'
  PROVE  AckedIsRecorded'
<1>1. 1..delivered \subseteq Ids
  BY DEF TypeOK, Ids
<1>2. QED
  BY <1>1 DEF AckedIsRecorded

\* Every step keeps the batches' bookkeeping and the acknowledgement rule.
LEMMA WorkStep == TypeInv /\ WorkInv /\ [Next]_vars => WorkInv'
<1> SUFFICES ASSUME TypeOK, GroupOK, WorkInv, [Next]_vars
             PROVE  WorkInv'
  BY DEF TypeInv
<1>1. delivered \in Nat /\ \A w \in Workers : WorkOf(w)
  BY DEF TypeOK, WorkInv, WorkOK
<1>2. ASSUME UNCHANGED <<delivered, pel, pc, batch, todo, fresh, events>>,
             \A i \in Ids : stream'[i] = stream[i]
      PROVE  WorkInv'
  BY <1>1, <1>2, WorkFrame, AckedFrame DEF WorkInv, WorkOK
<1>3. ASSUME NEW k \in Keys \cup {Malformed}, RecordClick(k)
      PROVE  WorkInv'
  <2>1. \A i \in Ids : stream'[i] = stream[i]
    BY <1>3 DEF RecordClick, TypeOK, Ids
  <2>2. QED
    BY <1>2, <1>3, <2>1 DEF RecordClick, workerVars, dbVars
<1>4. CASE (\E i \in pel : Age(i)) \/ UNCHANGED vars
  BY <1>2, <1>4 DEF Age, vars, redisVars, workerVars, dbVars
<1>5. ASSUME NEW w \in Workers, WorkOf(w)', UNCHANGED stream,
             events \subseteq events', delivered' \in Nat, delivered <= delivered',
             \A v \in Workers \ {w} : /\ pc'[v] = pc[v] /\ batch'[v] = batch[v]
                                    /\ todo'[v] = todo[v] /\ fresh'[v] = fresh[v]
      PROVE  WorkOK'
  <2>1. ASSUME NEW v \in Workers \ {w}
        PROVE  WorkOf(v)'
    BY <1>1, <1>5, <2>1, WorkFrame
  <2>2. QED
    BY <1>5, <2>1 DEF WorkOK
<1>6. ASSUME NEW w \in Workers, Start(w) \/ Crash(w)
      PROVE  WorkInv'
  <2>1. UNCHANGED <<stream, delivered, pel, events>>
    BY <1>6 DEF Start, Crash, EnsureGroup, GroupOK, redisVars, dbVars
  <2>2. \E place : Leave(w, place)
    BY <1>6 DEF Start, Crash
  <2>3. WorkOK'
    BY <1>1, <1>5, <2>1, <2>2, IdleWork
  <2>4. QED
    BY <1>1, <2>1, <2>3, AckedFrame DEF WorkInv
<1>7. ASSUME NEW w \in Workers, Read(w)
      PROVE  WorkInv'
  <2>1. UNCHANGED <<stream, events>> /\ pc[w] # "record"
    BY <1>7 DEF Read, Deliver, redisVars, dbVars
  <2>2. CASE Deliver
    <3>1. /\ delivered' = LastMessage /\ pel' = pel \cup NextMessages
          /\ delivered' \in Nat /\ delivered <= delivered'
          /\ 1..delivered' = (1..delivered) \cup NextMessages
      BY <1>1, <2>2, MessagesInStream DEF Deliver, TypeOK
    <3>2. AckedIsRecorded'
      BY <2>1, <3>1, AckedFrame DEF WorkInv
    <3>3. CASE Leave(w, "top")
      BY <1>5, <2>1, <3>1, <3>2, <3>3, IdleWork DEF WorkInv
    <3>4. CASE BeginBatch(w, NextMessages, "top")
      <4>1. NextMessages \in SUBSET (1..delivered')
        BY <3>1
      <4>2. Cardinality(NextMessages) <= BatchSize
        BY ReplySizes
      <4>3. QED
        BY <1>1, <1>5, <2>1, <3>1, <3>2, <3>4, <4>1, <4>2, NewWork DEF WorkInv
    <3>5. QED
      BY <1>7, <2>2, <3>3, <3>4 DEF Read
  <2>3. CASE UNCHANGED redisVars /\ Leave(w, "top")
    <3>1. UNCHANGED <<delivered, pel>>
      BY <2>3 DEF redisVars
    <3>2. WorkOK'
      BY <1>1, <1>5, <2>1, <2>3, <3>1, IdleWork
    <3>3. QED
      BY <1>1, <2>1, <3>1, <3>2, AckedFrame DEF WorkInv
  <2>4. QED
    BY <1>7, <2>2, <2>3 DEF Read
<1>8. ASSUME NEW w \in Workers, Tick(w)
      PROVE  WorkInv'
  <2>1. UNCHANGED <<stream, delivered, pel, events, batch, todo, fresh>>
    BY <1>8 DEF Tick, redisVars, dbVars
  <2>2. pc[w] # "record" /\ \A v \in Workers \ {w} : pc'[v] = pc[v]
    BY <1>8 DEF Tick, TypeOK
  <2>3. WorkOf(w)'
    BY <1>1, <2>1, <2>2 DEF WorkOf
  <2>4. WorkOK'
    BY <1>1, <1>5, <2>1, <2>2, <2>3
  <2>5. QED
    BY <1>1, <2>1, <2>4, AckedFrame DEF WorkInv
<1>9. ASSUME NEW w \in Workers, Claim(w)
      PROVE  WorkInv'
  <2>1. UNCHANGED <<stream, delivered, pel, events>> /\ pc[w] # "record"
    BY <1>9 DEF Claim, dbVars
  <2>2. PICK B \in Claims(w) : Leave(w, "read") \/ \E ret : BeginBatch(w, B, ret)
    BY <1>9 DEF Claim
  <2>3. AckedIsRecorded'
    BY <1>1, <2>1, AckedFrame DEF WorkInv
  <2>4. CASE Leave(w, "read")
    BY <1>1, <1>5, <2>1, <2>3, <2>4, IdleWork DEF WorkInv
  <2>5. CASE \E ret : BeginBatch(w, B, ret)
    <3>1. B \in SUBSET (1..delivered')
      BY <2>1, <2>2 DEF Claims, Claimable, TypeOK
    <3>2. Cardinality(B) <= BatchSize
      BY <2>2, ReplySizes
    <3>3. WorkOK'
      BY <1>1, <1>5, <2>1, <2>5, <3>1, <3>2, NewWork
    <3>4. QED
      BY <2>3, <3>3 DEF WorkInv
  <2>6. QED
    BY <2>2, <2>4, <2>5
<1>10. ASSUME NEW w \in Workers, Insert(w)
       PROVE  WorkInv'
  <2>1. PICK i \in todo[w] : InsertRow(w, i) \/ InsertFails(w, i) \/ InsertRefused(w, i)
    BY <1>10 DEF Insert
  <2>2. UNCHANGED <<stream, delivered, pel>> /\ events \subseteq events'
    BY <1>10, <2>1 DEF Insert, InsertRow, InsertFails, InsertRefused, redisVars
  <2>3. AckedIsRecorded'
    BY <1>1, <2>2, AckedFrame DEF WorkInv
  <2>4. CASE InsertRow(w, i)
    <3>1. /\ UNCHANGED <<pc, batch>>
          /\ i \in events'
          /\ todo'[w] = todo[w] \ {i}
          /\ fresh'[w] \subseteq fresh[w] \cup {i}
          /\ \A v \in Workers \ {w} : todo'[v] = todo[v] /\ fresh'[v] = fresh[v]
      BY <2>4 DEF InsertRow, TypeOK
    <3>2. WorkOf(w)'
      BY <1>1, <2>1, <2>2, <3>1 DEF WorkOf
    <3>3. WorkOK'
      BY <1>1, <1>5, <2>2, <3>1, <3>2
    <3>4. QED
      BY <2>3, <3>3 DEF WorkInv
  <2>5. CASE Return(w)
    BY <1>1, <1>5, <2>2, <2>3, <2>5, IdleWork DEF WorkInv
  <2>6. QED
    BY <2>1, <2>4, <2>5 DEF InsertFails, InsertRefused
<1>11. ASSUME NEW w \in Workers, Upsert(w)
       PROVE  WorkInv'
  <2>1. UNCHANGED <<stream, delivered, pel, events>>
    BY <1>11 DEF Upsert, redisVars
  <2>2. AckedIsRecorded'
    BY <1>1, <2>1, AckedFrame DEF WorkInv
  <2>3. CASE Return(w)
    BY <1>1, <1>5, <2>1, <2>2, <2>3, IdleWork DEF WorkInv
  <2>4. CASE UNCHANGED <<pc, batch, todo>> /\
             \E k \in Keys : fresh' = [fresh EXCEPT ![w] = @ \ OfKey(@, k)]
    <3>1. fresh'[w] \subseteq fresh[w] /\ \A v \in Workers \ {w} : fresh'[v] = fresh[v]
      BY <2>4 DEF TypeOK
    <3>2. WorkOf(w)'
      BY <1>1, <2>1, <2>4, <3>1 DEF WorkOf
    <3>3. WorkOK'
      BY <1>1, <1>5, <2>1, <2>4, <3>1, <3>2
    <3>4. QED
      BY <2>2, <3>3 DEF WorkInv
  <2>5. QED
    BY <1>11, <2>3, <2>4 DEF Upsert
<1>12. ASSUME NEW w \in Workers, Ack(w)
       PROVE  WorkInv'
  <2>1. /\ UNCHANGED <<stream, delivered, events>>
        /\ todo[w] = {} /\ Return(w)
        /\ pel' = pel \ batch[w] \/ pel' = pel
    BY <1>12 DEF Ack, dbVars
  <2>2. WorkOK'
    BY <1>1, <1>5, <2>1, IdleWork
  <2>3. \A i \in batch[w] : stream[i] = Malformed \/ i \in events
    BY <1>1, <2>1 DEF WorkOf
  <2>4. AckedIsRecorded'
    BY <2>1, <2>3 DEF WorkInv, AckedIsRecorded
  <2>5. QED
    BY <2>2, <2>4 DEF WorkInv
<1>13. QED
  BY <1>3, <1>4, <1>6, <1>7, <1>8, <1>9, <1>10, <1>11, <1>12 DEF Next, WorkerStep

\* The batches' bookkeeping holds in every reachable state.
LEMMA WorkCorrect == Spec => [](TypeInv /\ WorkInv)
<1>1. Init => WorkInv
  <2> SUFFICES ASSUME Init PROVE WorkInv
    OBVIOUS
  <2>1. \A w \in Workers : batch[w] = {} /\ todo[w] = {} /\ fresh[w] = {}
    BY DEF Init
  <2>2. WorkOK
    BY <2>1, FS_EmptySet, PipelineAssumption DEF WorkOK, WorkOf
  <2>3. AckedIsRecorded
    BY DEF Init, AckedIsRecorded
  <2>4. QED
    BY <2>2, <2>3 DEF WorkInv
<1>2. QED
  BY <1>1, InitTypeInv, TypeInvStep, WorkStep, PTL DEF Spec

\* An entry the group no longer holds as pending has its row, or is malformed:
\* no crash, failed call or overlap of workers loses a click to the XACK.
THEOREM NothingAckedUnrecorded == Spec => []AckedIsRecorded
<1>1. TypeInv /\ WorkInv => AckedIsRecorded
  BY DEF WorkInv
<1>2. QED
  BY <1>1, WorkCorrect, PTL

(***************************************************************************)
(* A fault costs the rollup at most one batch.                             *)
(***************************************************************************)

\* What one step can add to the lost rows: nothing, or, with a fault, entries
\* of the batch of the worker the fault hits.
LEMMA LossStep ==
  ASSUME TypeOK, WorkInv, Rejected = {}, [Next]_vars
  PROVE  \/ faults' = faults /\ Lost' \subseteq Lost
         \/ faults' = faults + 1 /\ \E w \in Workers : Lost' \subseteq Lost \cup batch[w]
<1>1. \A w \in Workers : WorkOf(w)
  BY DEF WorkInv, WorkOK
<1>2. ASSUME UNCHANGED <<events, credited>>, \A v \in Workers : fresh'[v] = fresh[v]
      PROVE  Lost' \subseteq Lost
  BY <1>2 DEF Lost
<1>3. ASSUME NEW w \in Workers, Return(w) \/ \E place : Leave(w, place),
             credited \subseteq credited', NEW E \in SUBSET batch[w],
             events' \subseteq events \cup E
      PROVE  Lost' \subseteq Lost \cup batch[w]
  <2>1. \A v \in Workers : fresh'[v] = IF v = w THEN {} ELSE fresh[v]
    BY <1>3, DropDeltas
  <2>2. fresh[w] \subseteq batch[w]
    BY <1>1 DEF WorkOf
  <2>3. QED
    BY <1>3, <2>1, <2>2 DEF Lost
<1>4. CASE (\E k \in Keys \cup {Malformed} : RecordClick(k)) \/ (\E i \in pel : Age(i))
           \/ UNCHANGED vars
  BY <1>2, <1>4 DEF RecordClick, Age, vars, redisVars, workerVars, dbVars
<1>5. ASSUME NEW w \in Workers, pc[w] # "record" \/ fresh[w] = {},
             UNCHANGED <<events, credited>>,
             UNCHANGED fresh \/ Return(w) \/ \E place : Leave(w, place)
      PROVE  Lost' \subseteq Lost
  <2>1. fresh[w] = {}
    BY <1>1, <1>5 DEF WorkOf
  <2>2. \A v \in Workers : fresh'[v] = fresh[v]
    BY <1>5, <2>1, DropDeltas
  <2>3. QED
    BY <1>2, <1>5, <2>2
<1>6. ASSUME NEW w \in Workers, Start(w) \/ Tick(w)
      PROVE  faults' = faults /\ Lost' \subseteq Lost
  BY <1>5, <1>6 DEF Start, Tick, dbVars
<1>7. ASSUME NEW w \in Workers, Crash(w)
      PROVE  faults' = faults + 1 /\ Lost' \subseteq Lost \cup batch[w]
  BY <1>3, <1>7 DEF Crash, Fault, dbVars
<1>8. ASSUME NEW w \in Workers, Read(w) \/ Claim(w) \/ Ack(w)
      PROVE  (faults' = faults \/ faults' = faults + 1) /\ Lost' \subseteq Lost
  BY <1>5, <1>8 DEF Read, Claim, Ack, BeginBatch, NoFault, Fault, dbVars
<1>9. ASSUME NEW w \in Workers, Insert(w)
      PROVE  \/ faults' = faults /\ Lost' \subseteq Lost
             \/ faults' = faults + 1 /\ Lost' \subseteq Lost \cup batch[w]
  <2>1. PICK i \in todo[w] : InsertRow(w, i) \/ InsertFails(w, i)
    BY <1>9 DEF Insert, InsertRefused
  <2>2. {i} \in SUBSET batch[w] /\ credited' = credited
    BY <1>1, <1>9, <2>1 DEF WorkOf, Insert
  <2>3. CASE InsertRow(w, i)
    <3>1. /\ faults' = faults
          /\ events' = events \cup {i}
          /\ \A v \in Workers : fresh[v] \subseteq fresh'[v]
          /\ i \in events \/ i \in fresh'[w]
      BY <2>3 DEF InsertRow, NoFault, TypeOK
    <3>2. QED
      BY <2>2, <3>1 DEF Lost
  <2>4. CASE InsertFails(w, i)
    BY <1>3, <2>2, <2>4 DEF InsertFails, Fault
  <2>5. QED
    BY <2>1, <2>3, <2>4
<1>10. ASSUME NEW w \in Workers, Upsert(w)
       PROVE  \/ faults' = faults /\ Lost' \subseteq Lost
              \/ faults' = faults + 1 /\ Lost' \subseteq Lost \cup batch[w]
  <2>1. PICK k \in Keys :
             \/ /\ NoFault
                /\ AddDelta(w, k)
                /\ fresh' = [fresh EXCEPT ![w] = @ \ OfKey(@, k)]
             \/ /\ Fault
                /\ AddDelta(w, k) \/ UNCHANGED <<daily, credited>>
                /\ Return(w)
    BY <1>10 DEF Upsert
  <2>2. events' = events /\ credited \subseteq credited'
    BY <1>10, <2>1 DEF Upsert, AddDelta
  <2>3. CASE NoFault /\ AddDelta(w, k) /\ fresh' = [fresh EXCEPT ![w] = @ \ OfKey(@, k)]
    <3>1. /\ faults' = faults
          /\ credited' = credited \cup OfKey(fresh[w], k)
          /\ fresh'[w] = fresh[w] \ OfKey(fresh[w], k)
          /\ \A v \in Workers \ {w} : fresh'[v] = fresh[v]
      BY <2>3 DEF NoFault, AddDelta, TypeOK
    <3>2. QED
      BY <2>2, <3>1 DEF Lost
  <2>4. CASE Fault /\ Return(w)
    <3>1. {} \in SUBSET batch[w] /\ events' \subseteq events \cup {}
      BY <2>2
    <3>2. QED
      BY <1>3, <2>2, <2>4, <3>1 DEF Fault
  <2>5. QED
    BY <2>1, <2>3, <2>4
<1>11. QED
  BY <1>4, <1>6, <1>7, <1>8, <1>9, <1>10 DEF Next, WorkerStep,
     RecordClick, Age, vars

\* Every crash, failed call or lost reply costs the daily counts at most one
\* batch; without faults no count is ever lost, however the workers overlap.
THEOREM LossIsBounded == Spec => []LossBounded
<1>1. Init => LossBounded
  <2>1. ASSUME Init PROVE Lost = {} /\ faults = 0
    BY <2>1 DEF Init, Lost
  <2>2. QED
    BY <2>1, FS_EmptySet, PipelineAssumption DEF LossBounded
<1>2. TypeInv /\ WorkInv /\ TypeInv' /\ LossBounded /\ [Next]_vars => LossBounded'
  <2> SUFFICES ASSUME TypeInv, WorkInv, TypeInv', LossBounded, [Next]_vars, Rejected = {}
               PROVE  Cardinality(Lost') <= BatchSize * faults'
    BY DEF LossBounded
  <2>1. TypeOK /\ TypeOK'
    BY DEF TypeInv
  <2>2. Lost \in SUBSET Ids /\ \A w \in Workers : batch[w] \in SUBSET Ids
    BY <2>1 DEF Lost, TypeOK
  <2>3. IsFiniteSet(Lost) /\ \A w \in Workers : IsFiniteSet(batch[w])
    BY <2>1, <2>2, IdsFinite
  <2>4. Cardinality(Lost) <= BatchSize * faults /\ Cardinality(Lost) \in Nat /\ faults \in Nat
    BY <2>1, <2>3, FS_CardinalityType DEF LossBounded, TypeOK
  <2>5. CASE faults' = faults /\ Lost' \subseteq Lost
    <3>1. Cardinality(Lost') <= Cardinality(Lost) /\ Cardinality(Lost') \in Nat
      BY <2>3, <2>5, FS_Subset, FS_CardinalityType
    <3>2. QED
      BY <2>4, <2>5, <3>1, PipelineAssumption
  <2>6. ASSUME NEW w \in Workers, faults' = faults + 1, Lost' \subseteq Lost \cup batch[w]
        PROVE  Cardinality(Lost') <= BatchSize * faults'
    <3>1. /\ IsFiniteSet(Lost \cup batch[w])
          /\ Cardinality(Lost \cup batch[w]) =
               Cardinality(Lost) + Cardinality(batch[w]) - Cardinality(Lost \cap batch[w])
      BY <2>3, FS_Union
    <3>2. IsFiniteSet(Lost \cap batch[w])
      BY <2>3, FS_Subset
    <3>3. /\ Cardinality(batch[w]) \in Nat /\ Cardinality(Lost \cap batch[w]) \in Nat
          /\ Cardinality(Lost \cup batch[w]) \in Nat
      BY <2>3, <3>1, <3>2, FS_CardinalityType
    <3>4. Cardinality(Lost') <= Cardinality(Lost \cup batch[w]) /\ Cardinality(Lost') \in Nat
      BY <2>6, <3>1, FS_Subset, FS_CardinalityType
    <3>5. Cardinality(batch[w]) <= BatchSize
      BY DEF WorkInv, WorkOK, WorkOf
    <3>6. Cardinality(Lost') <= Cardinality(Lost) + BatchSize
      BY <2>4, <3>1, <3>3, <3>4, <3>5, PipelineAssumption
    <3>7. BatchSize * (faults + 1) = BatchSize * faults + BatchSize
          /\ BatchSize * faults \in Nat
      BY <2>4, PipelineAssumption
    <3>8. QED
      BY <2>4, <2>6, <3>4, <3>6, <3>7, PipelineAssumption
  <2>7. QED
    BY <2>1, <2>5, <2>6, LossStep
<1>3. QED
  BY <1>1, <1>2, WorkCorrect, PTL DEF Spec

(***************************************************************************)
(* The pipeline implements the ledger.  A pushed click is a Push; every    *)
(* other step of the workers, of the group or of a crash is an Advance in  *)
(* which each click stays where it is or moves on.                         *)
(***************************************************************************)

\* Some worker holds entry i in its deltas.
Held(i) == \E w \in Workers : i \in fresh[w]

\* What a step that leaves the stream alone does to rows, deltas and counts.
Progress ==
  /\ stream' = stream
  /\ events \subseteq events'
  /\ credited \subseteq credited'
  /\ \A i \in credited' \ credited : Held(i)
  /\ \A i \in Ids : Held(i)' => Held(i) \/ i \notin events

\* Rows and counts only grow, only held entries are counted, and only an entry
\* whose row a step inserts becomes held: every step but a push does so.
LEMMA ProgressStep ==
  ASSUME TypeOK, [Next]_vars, \A k \in Keys \cup {Malformed} : ~RecordClick(k)
  PROVE  Progress
<1>1. ASSUME UNCHANGED <<stream, credited>>, events \subseteq events',
             \A w \in Workers : fresh'[w] \subseteq fresh[w]
      PROVE  Progress
  BY <1>1 DEF Progress, Held
<1>2. ASSUME NEW w \in Workers, Start(w) \/ Crash(w) \/ Read(w) \/ Claim(w) \/ Tick(w) \/ Ack(w)
      PROVE  Progress
  <2>1. UNCHANGED <<stream, events, credited>>
    BY <1>2 DEF Start, Crash, Read, Deliver, Claim, Tick, Ack, redisVars, dbVars
  <2>2. \/ UNCHANGED fresh
        \/ Return(w)
        \/ \E place : Leave(w, place)
    BY <1>2 DEF Start, Crash, Read, Claim, Tick, Ack, BeginBatch
  <2>3. QED
    BY <1>1, <2>1, <2>2, DropDeltas
<1>3. ASSUME NEW w \in Workers, Insert(w)
      PROVE  Progress
  <2>1. PICK i \in todo[w] : InsertRow(w, i) \/ InsertFails(w, i) \/ InsertRefused(w, i)
    BY <1>3 DEF Insert
  <2>2. UNCHANGED <<stream, credited>> /\ events \subseteq events'
    BY <1>3, <2>1 DEF Insert, InsertRow, InsertFails, InsertRefused, redisVars
  <2>3. CASE InsertRow(w, i)
    <3>1. \A v \in Workers :
            fresh'[v] = IF v = w /\ i \notin events THEN fresh[v] \cup {i} ELSE fresh[v]
      BY <2>3 DEF InsertRow, TypeOK
    <3>2. QED
      BY <2>2, <3>1 DEF Progress, Held
  <2>4. CASE Return(w)
    BY <1>1, <2>2, <2>4, DropDeltas
  <2>5. QED
    BY <2>1, <2>3, <2>4 DEF InsertFails, InsertRefused
<1>4. ASSUME NEW w \in Workers, Upsert(w)
      PROVE  Progress
  <2>1. PICK k \in Keys :
             \/ /\ AddDelta(w, k)
                /\ fresh' = [fresh EXCEPT ![w] = @ \ OfKey(@, k)]
             \/ /\ AddDelta(w, k) \/ UNCHANGED <<daily, credited>>
                /\ Return(w)
    BY <1>4 DEF Upsert
  <2>2. UNCHANGED <<stream, events>>
    BY <1>4 DEF Upsert, redisVars
  <2>3. \A v \in Workers : fresh'[v] \subseteq fresh[v]
    BY <2>1, DropDeltas DEF TypeOK
  <2>4. credited' = credited \/ credited' = credited \cup OfKey(fresh[w], k)
    BY <2>1 DEF AddDelta
  <2>5. OfKey(fresh[w], k) \subseteq fresh[w]
    BY DEF OfKey
  <2>6. QED
    BY <2>2, <2>3, <2>4, <2>5 DEF Progress, Held
<1>5. CASE (\E i \in pel : Age(i)) \/ UNCHANGED vars
  BY <1>1, <1>5 DEF Age, vars, redisVars, workerVars, dbVars
<1>6. QED
  BY <1>2, <1>3, <1>4, <1>5 DEF Next, WorkerStep

\* A click's stage moves only as the ledger allows: a counted or lost click
\* stays so, and a queued one is recorded before it is counted.
LEMMA StageMoves ==
  ASSUME FreshOK, Progress, NEW i \in Ids
  PROVE  StageOf(i)' = StageOf(i) \/ <<StageOf(i), StageOf(i)'>> \in Ledger!Moves
<1>1. \/ StageOf(i)' = StageOf(i)
      \/ StageOf(i) = "queued" /\ StageOf(i)' \in {"recorded", "lost"}
      \/ StageOf(i) = "recorded" /\ StageOf(i)' \in {"counted", "lost"}
  BY DEF FreshOK, Progress, Held, StageOf
<1>2. QED
  BY <1>1 DEF Ledger!Moves

\* Each daily count grows by the clicks of its key that become counted.
LEMMA CountsGrow ==
  ASSUME TypeOK, TypeOK', CountOK, CountOK', Progress, NEW k \in Keys
  PROVE  daily'[k] = daily[k] +
           Cardinality({i \in Ids : /\ stream[i] = k
                                    /\ StageOf(i)' = "counted" /\ StageOf(i) # "counted"})
<1> DEFINE New == {i \in Ids : /\ stream[i] = k
                               /\ StageOf(i)' = "counted" /\ StageOf(i) # "counted"}
<1>1. credited \in SUBSET Ids /\ credited' \in SUBSET Ids
  BY DEF TypeOK, Progress, Ids
<1>2. \A i : (StageOf(i) = "counted" <=> i \in credited)
             /\ (StageOf(i)' = "counted" <=> i \in credited')
  BY DEF StageOf
<1>3. New = OfKey(credited', k) \ OfKey(credited, k)
  BY <1>1, <1>2 DEF OfKey
<1>4. OfKey(credited, k)' = OfKey(credited, k) \cup New
  BY <1>3 DEF Progress, OfKey
<1>5. IsFiniteSet(OfKey(credited, k)) /\ IsFiniteSet(New)
  <2>1. New \in SUBSET Ids
    OBVIOUS
  <2>2. QED
    BY <1>1, <2>1, IdsFinite
<1>6. Cardinality(OfKey(credited, k) \cup New) =
        Cardinality(OfKey(credited, k)) + Cardinality(New)
  BY <1>3, <1>5, DisjointUnion
<1>7. QED
  BY <1>4, <1>6 DEF CountOK

\* The ledger counts with the cardinality of finite sets.
LEMMA LedgerCardinality ==
  ASSUME NEW S
  PROVE  Ledger!Cardinality(S) = Cardinality(S)
BY DEF Ledger!Cardinality, Cardinality

\* The step of the ledger that a step of the pipeline takes.
LEMMA LedgerStep ==
  ASSUME TypeInv, TypeInv', CountInv, CountInv', [Next]_vars
  PROVE  Ledger!Next
<1> DEFINE stage == [i \in Ids |-> StageOf(i)]
<1>1. TypeOK /\ TypeOK' /\ FreshOK /\ CountOK /\ CountOK'
  BY DEF TypeInv, CountInv
<1>2. Len(stream) \in Nat
  BY <1>1 DEF TypeOK
<1>3. ASSUME NEW k \in Keys \cup {Malformed}, RecordClick(k)
      PROVE  Ledger!Push(k)
  <2>1. /\ stream' = Append(stream, k)
        /\ UNCHANGED <<fresh, events, daily, credited>>
    BY <1>3 DEF RecordClick, workerVars, dbVars
  <2>2. Ids' = 1..(Len(stream) + 1) /\ Ids = 1..Len(stream)
    BY <1>1, <2>1 DEF TypeOK, Ids
  <2>3. \A i : StageOf(i)' = StageOf(i)
    BY <2>1 DEF StageOf
  <2>4. StageOf(Len(stream) + 1) = "queued"
    <3>1. Len(stream) + 1 \notin Ids
      BY <1>2, <2>2
    <3>2. /\ Len(stream) + 1 \notin events
          /\ Len(stream) + 1 \notin credited
          /\ \A w \in Workers : Len(stream) + 1 \notin fresh[w]
      BY <1>1, <3>1 DEF TypeOK
    <3>3. QED
      BY <3>2 DEF StageOf
  <2>5. stage \in Seq(Ledger!Stages) /\ Len(stage) = Len(stream)
    <3>1. \A i \in 1..Len(stream) : StageOf(i) \in Ledger!Stages
      BY DEF StageOf, Ledger!Stages
    <3>2. stage \in [1..Len(stream) -> Ledger!Stages]
      BY <2>2, <3>1
    <3>3. QED
      BY <1>2, <3>2
  <2>6. stage' = Append(stage, "queued")
    BY <1>2, <2>2, <2>3, <2>4, <2>5
  <2>7. QED
    BY <2>1, <2>6 DEF Ledger!Push
<1>4. CASE \A k \in Keys \cup {Malformed} : ~RecordClick(k)
  <2>1. Progress
    BY <1>1, <1>4, ProgressStep
  <2>2. stream' = stream /\ Ids' = Ids
    BY <2>1 DEF Progress, Ids
  <2>3. \A i \in Ids : stage[i] = StageOf(i) /\ stage'[i] = StageOf(i)'
    BY <2>2
  <2>4. DOMAIN stage = Ids /\ DOMAIN stage' = Ids
    BY <2>2
  <2>5. \A i \in Ids : stage'[i] = stage[i] \/ <<stage[i], stage'[i]>> \in Ledger!Moves
    BY <1>1, <2>1, <2>3, StageMoves
  <2>6. ASSUME NEW k \in Keys
        PROVE  daily'[k] = daily[k] +
                 Cardinality({i \in Ids : stream[i] = k
                                /\ stage'[i] = "counted" /\ stage[i] # "counted"})
    <3>1. {i \in Ids : stream[i] = k /\ stage'[i] = "counted" /\ stage[i] # "counted"} =
          {i \in Ids : /\ stream[i] = k
                       /\ StageOf(i)' = "counted" /\ StageOf(i) # "counted"}
      BY <2>3
    <3>2. QED
      BY <1>1, <2>1, <3>1, CountsGrow
  <2>7. daily' = [k \in Keys |-> daily[k] +
                    Cardinality({i \in Ids : stream[i] = k
                                   /\ stage'[i] = "counted" /\ stage[i] # "counted"})]
    BY <1>1, <2>6 DEF TypeOK
  <2>8. Ledger!Advance
    BY <2>2, <2>4, <2>5, <2>7, LedgerCardinality DEF Ledger!Advance
  <2>9. QED
    BY <2>8 DEF Ledger!Next
<1>5. QED
  BY <1>3, <1>4 DEF Ledger!Next

\* The pipeline implements the ledger for any number of workers, clicks and
\* faults: each click gets its row once, and after that enters the count of
\* its own key once or is lost to it for good.
THEOREM PipelineImplementsLedger == Spec => ImplementsLedger
<1>1. Init => Ledger!Init
  <2> SUFFICES ASSUME Init PROVE Ledger!Init
    OBVIOUS
  <2>1. Ids = {}
    BY DEF Init, Ids
  <2>2. [i \in Ids |-> StageOf(i)] = <<>>
    BY <2>1
  <2>3. QED
    BY <2>2 DEF Init, Ledger!Init
<1>2. TypeInv /\ TypeInv' /\ CountInv /\ CountInv' /\ [Next]_vars
        => [Ledger!Next]_(Ledger!ledgerVars)
  BY LedgerStep
<1>3. QED
  BY <1>1, <1>2, CountCorrect, PTL DEF Spec, ImplementsLedger, Ledger!Spec
=============================================================================
