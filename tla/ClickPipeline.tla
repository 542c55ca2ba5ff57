--------------------------- MODULE ClickPipeline ---------------------------
(***************************************************************************)
(* The click pipeline: cmd/redirect pushes one entry per served redirect   *)
(* on the Redis stream "clicks"; the cmd/worker instances read it through  *)
(* the consumer group "worker" and turn each batch into click_events rows  *)
(* plus increments of click_stats_daily (internal/stats Recorder).         *)
(*                                                                         *)
(* An entry is identified by its position in the stream, which is what its *)
(* stream id is: XADD hands out increasing ids and nothing trims the       *)
(* stream.  Its content is abstracted to the daily key (short_url_id,      *)
(* UTC day) it counts towards, or to Malformed when parseClickEvent        *)
(* rejects it.  The keys in Rejected stand for entries that parse but      *)
(* whose row PostgreSQL refuses on every attempt (for instance text that   *)
(* is not valid in the database encoding).                                 *)
(*                                                                         *)
(* The group's pending list is kept without its owners: neither XACK nor   *)
(* XAUTOCLAIM looks at the consumer that holds an entry.  Real time is     *)
(* abstracted to the flag "idle for at least staleThreshold".              *)
(***************************************************************************)
EXTENDS Naturals, Sequences, FiniteSets

CONSTANTS Workers,    \* worker instances (consumer names)
          Keys,       \* daily keys: short_url_id with the UTC day of clicked_at
          Malformed,  \* an entry parseClickEvent returns an error for
          Rejected,   \* the keys whose click_events row can never be inserted
          BatchSize,  \* WORKER_BATCH_SIZE
          MaxClicks,  \* bound: entries ever pushed
          MaxFaults   \* bound: crashes, failed calls and lost replies

ASSUME PipelineAssumption ==
  /\ Malformed \notin Keys
  /\ Rejected \subseteq Keys
  /\ BatchSize \in Nat \ {0}
  /\ MaxClicks \in Nat
  /\ MaxFaults \in Nat

VARIABLES
  stream,     \* the Redis stream: stream[i] is the content of entry i
  group,      \* has the consumer group been created
  delivered,  \* the group's last-delivered id
  pel,        \* the group's pending entries: delivered and not acknowledged
  stale,      \* those of them idle for at least staleThreshold
  pc,         \* where each worker's run loop is
  after,      \* where processBatch returns to: the main loop or the reclaim loop
  cursor,     \* the reclaim loop's start id
  batch,      \* ids of the messages processBatch is working on
  todo,       \* those of them RecordBatch has still to insert
  fresh,      \* those it inserted itself and has not yet added to a daily count
  events,     \* rows of click_events, by stream_id
  daily,      \* click_stats_daily: click_count per daily key
  credited,   \* history: the entries the daily counts contain
  faults      \* crashes, failed calls and lost replies so far

redisVars  == <<stream, group, delivered, pel, stale>>
workerVars == <<pc, after, cursor, batch, todo, fresh>>
dbVars     == <<events, daily, credited>>
vars       == <<redisVars, workerVars, dbVars, faults>>

Ids == 1..Len(stream)

\* The ids of S that count towards key k.
OfKey(S, k) == {i \in S : stream[i] = k}

Init ==
  /\ stream = <<>>
  /\ group = FALSE
  /\ delivered = 0
  /\ pel = {}
  /\ stale = {}
  /\ pc = [w \in Workers |-> "down"]
  /\ after = [w \in Workers |-> "top"]
  /\ cursor = [w \in Workers |-> 0]
  /\ batch = [w \in Workers |-> {}]
  /\ todo = [w \in Workers |-> {}]
  /\ fresh = [w \in Workers |-> {}]
  /\ events = {}
  /\ daily = [k \in Keys |-> 0]
  /\ credited = {}
  /\ faults = 0

-----------------------------------------------------------------------------
(* cmd/redirect.                                                           *)

\* recordClickAsync: the goroutine's XADD.  A push that fails or times out is
\* only logged, which leaves the state as it is.
RecordClick(k) ==
  /\ Len(stream) < MaxClicks
  /\ stream' = Append(stream, k)
  /\ UNCHANGED <<group, delivered, pel, stale, workerVars, dbVars, faults>>

-----------------------------------------------------------------------------
(* cmd/worker: a process starts, stops, and runs its loop.                 *)

Fault == faults < MaxFaults /\ faults' = faults + 1

NoFault == faults' = faults

\* The worker holds no batch and goes on at the given place.
Leave(w, place) ==
  /\ pc' = [pc EXCEPT ![w] = place]
  /\ after' = [after EXCEPT ![w] = "top"]
  /\ cursor' = [cursor EXCEPT ![w] = 0]
  /\ batch' = [batch EXCEPT ![w] = {}]
  /\ todo' = [todo EXCEPT ![w] = {}]
  /\ fresh' = [fresh EXCEPT ![w] = {}]

\* processBatch returns, after an error or after XACK; the reclaim loop goes
\* on from its cursor.
Return(w) ==
  /\ pc' = [pc EXCEPT ![w] = after[w]]
  /\ after' = [after EXCEPT ![w] = "top"]
  /\ batch' = [batch EXCEPT ![w] = {}]
  /\ todo' = [todo EXCEPT ![w] = {}]
  /\ fresh' = [fresh EXCEPT ![w] = {}]
  /\ UNCHANGED cursor

\* Mutant: the group is created at "$", past the backlog.
EnsureGroupAtEnd ==
  /\ group' = TRUE
  /\ delivered' = IF group THEN delivered ELSE Len(stream)

\* Mutant: a worker that starts sets the group back to "0" instead of leaving an
\* existing one alone.
EnsureGroupRewinds ==
  /\ group' = TRUE
  /\ delivered' = 0

\* ensureGroup: the group starts at "0", so a backlog is delivered too;
\* BUSYGROUP leaves an existing group alone.
EnsureGroup ==
  /\ group' = TRUE
  /\ delivered' = IF group THEN delivered ELSE 0

Start(w) ==
  /\ pc[w] = "down"
  /\ EnsureGroup
  /\ Leave(w, "top")
  /\ UNCHANGED <<stream, pel, stale, dbVars, faults>>

\* The process dies, or its context is cancelled by SIGTERM in the middle of a
\* batch: every later call of that batch fails.
Crash(w) ==
  /\ pc[w] # "down"
  /\ Fault
  /\ Leave(w, "down")
  /\ UNCHANGED <<redisVars, dbVars>>

\* Time passes: a pending entry has been idle for staleThreshold, even while
\* a slow worker is still processing it.
Age(i) ==
  /\ i \in pel \ stale
  /\ stale' = stale \cup {i}
  /\ UNCHANGED <<stream, group, delivered, pel, workerVars, dbVars, faults>>

\* Mutant: only the messages that parse are acknowledged.
BeginBatchKeepsMalformed(w, B, ret) ==
  LET parsed == {i \in B : stream[i] # Malformed} IN
  /\ pc' = [pc EXCEPT ![w] = "record"]
  /\ after' = [after EXCEPT ![w] = ret]
  /\ batch' = [batch EXCEPT ![w] = parsed]
  /\ todo' = [todo EXCEPT ![w] = parsed]
  /\ UNCHANGED fresh

\* processBatch up to RecordBatch: every id will be acknowledged, only the
\* messages that parse are recorded.
BeginBatch(w, B, ret) ==
  /\ pc' = [pc EXCEPT ![w] = "record"]
  /\ after' = [after EXCEPT ![w] = ret]
  /\ batch' = [batch EXCEPT ![w] = B]
  /\ todo' = [todo EXCEPT ![w] = {i \in B : stream[i] # Malformed}]
  /\ UNCHANGED fresh

\* What XREADGROUP ">" with COUNT BatchSize returns, and its last id.
LastMessage ==
  IF delivered + BatchSize < Len(stream) THEN delivered + BatchSize ELSE Len(stream)

NextMessages == (delivered + 1)..LastMessage

\* XREADGROUP moves its messages from the stream to the pending list.
Deliver ==
  /\ NextMessages # {}
  /\ delivered' = LastMessage
  /\ pel' = pel \cup NextMessages
  /\ UNCHANGED <<stream, group, stale>>

\* run: XREADGROUP returns messages, or it fails or times out, or its reply is
\* lost after the server has delivered.
Read(w) ==
  /\ pc[w] \in {"top", "read"}
  /\ UNCHANGED dbVars
  /\ \/ /\ Deliver
        /\ NoFault
        /\ BeginBatch(w, NextMessages, "top")
        /\ UNCHANGED cursor
     \/ /\ NextMessages = {}
        /\ NoFault
        /\ Leave(w, "top")
        /\ UNCHANGED redisVars
     \/ /\ Fault
        /\ Leave(w, "top")
        /\ (Deliver \/ UNCHANGED redisVars)

\* run: the claim ticker fires and reclaimStaleEntries starts at "0-0".
Tick(w) ==
  /\ pc[w] = "top"
  /\ pc' = [pc EXCEPT ![w] = "claim"]
  /\ cursor' = [cursor EXCEPT ![w] = 0]
  /\ UNCHANGED <<redisVars, after, batch, todo, fresh, dbVars, faults>>

\* The idle entries from the reclaim loop's start id on.
Claimable(w) == {i \in stale : i >= cursor[w]}

\* What XAUTOCLAIM may return: the first BatchSize of them.
Claims(w) ==
  {B \in SUBSET Claimable(w) :
     /\ \A i \in B, j \in Claimable(w) \ B : i < j
     /\ \/ Cardinality(B) = BatchSize
        \/ B = Claimable(w) /\ Cardinality(B) < BatchSize}

\* The pending entries behind a claimed batch; none are left to scan when the
\* batch is not full.
Behind(B) ==
  {i \in pel : Cardinality(B) = BatchSize /\ \A b \in B : b < i}

\* reclaimStaleEntries: one XAUTOCLAIM, which resets the idle time of what it
\* returns.  The loop ends when nothing is returned, when the next start id is
\* "0-0", and on an error, with or without the server having done the claim.
Claim(w) ==
  /\ pc[w] = "claim"
  /\ UNCHANGED <<stream, group, delivered, pel, dbVars>>
  /\ \E B \in Claims(w) :
       \/ /\ B = {}
          /\ NoFault
          /\ Leave(w, "read")
          /\ UNCHANGED stale
       \/ /\ B # {}
          /\ NoFault
          /\ stale' = stale \ B
          /\ \/ /\ Behind(B) = {}
                /\ BeginBatch(w, B, "read")
                /\ UNCHANGED cursor
             \/ \E n \in Behind(B) :
                  /\ \A m \in Behind(B) : n <= m
                  /\ BeginBatch(w, B, "claim")
                  /\ cursor' = [cursor EXCEPT ![w] = n]
       \/ /\ Fault
          /\ Leave(w, "read")
          /\ stale' \in {stale, stale \ B}

-----------------------------------------------------------------------------
(* internal/stats: RecordBatch, one statement per step, and processBatch's *)
(* acknowledgement.                                                        *)

\* Mutant: the inserted flag is ignored, so redelivered entries are counted.
InsertRowCountsRedelivery(w, i) ==
  /\ stream[i] \notin Rejected
  /\ NoFault
  /\ events' = events \cup {i}
  /\ todo' = [todo EXCEPT ![w] = @ \ {i}]
  /\ fresh' = [fresh EXCEPT ![w] = @ \cup {i}]
  /\ UNCHANGED <<pc, after, cursor, batch>>

\* Mutant: the delta is set to one instead of incremented.
InsertRowResetsDelta(w, i) ==
  /\ stream[i] \notin Rejected
  /\ NoFault
  /\ events' = events \cup {i}
  /\ todo' = [todo EXCEPT ![w] = @ \ {i}]
  /\ fresh' = [fresh EXCEPT ![w] = IF i \in events THEN @ ELSE {i}]
  /\ UNCHANGED <<pc, after, cursor, batch>>

\* InsertClickEvent for the batch's next message.  ON CONFLICT DO NOTHING
\* makes it a no-op for an entry that already has a row, and only an entry
\* this call inserted enters the daily delta.
InsertRow(w, i) ==
  /\ stream[i] \notin Rejected
  /\ NoFault
  /\ events' = events \cup {i}
  /\ todo' = [todo EXCEPT ![w] = @ \ {i}]
  /\ fresh' = [fresh EXCEPT ![w] = IF i \in events THEN @ ELSE @ \cup {i}]
  /\ UNCHANGED <<pc, after, cursor, batch>>

\* Mutant: the insert's error is logged and the batch goes on.
InsertFailsSilently(w, i) ==
  /\ Fault
  /\ todo' = [todo EXCEPT ![w] = @ \ {i}]
  /\ UNCHANGED <<events, pc, after, cursor, batch, fresh>>

\* The statement fails, or its reply is lost after the row was committed;
\* RecordBatch returns the error and its deltas with it.
InsertFails(w, i) ==
  /\ Fault
  /\ events' \in {events, events \cup (IF stream[i] \in Rejected THEN {} ELSE {i})}
  /\ Return(w)

\* PostgreSQL refuses the row.
InsertRefused(w, i) ==
  /\ stream[i] \in Rejected
  /\ NoFault
  /\ UNCHANGED events
  /\ Return(w)

Insert(w) ==
  /\ pc[w] = "record"
  /\ \E i \in todo[w] :
       /\ \A j \in todo[w] : i <= j
       /\ InsertRow(w, i) \/ InsertFails(w, i) \/ InsertRefused(w, i)
  /\ UNCHANGED <<redisVars, daily, credited>>

\* Mutant: every key is given the whole batch's delta.
AddDeltaOfBatch(w, k) ==
  /\ daily' = [daily EXCEPT ![k] = @ + Cardinality(fresh[w])]
  /\ credited' = credited \cup OfKey(fresh[w], k)

\* UpsertDailyCount adds the batch's delta for one key; the deltas map is
\* ranged over in any order.
AddDelta(w, k) ==
  LET S == OfKey(fresh[w], k) IN
  /\ daily' = [daily EXCEPT ![k] = @ + Cardinality(S)]
  /\ credited' = credited \cup S

Upsert(w) ==
  /\ pc[w] = "record" /\ todo[w] = {}
  /\ \E k \in Keys :
       /\ OfKey(fresh[w], k) # {}
       /\ \/ /\ NoFault
             /\ AddDelta(w, k)
             /\ fresh' = [fresh EXCEPT ![w] = @ \ OfKey(@, k)]
             /\ UNCHANGED <<pc, after, cursor, batch, todo>>
          \/ /\ Fault
             /\ AddDelta(w, k) \/ UNCHANGED <<daily, credited>>
             /\ Return(w)
  /\ UNCHANGED <<redisVars, events>>

\* XACK of every id of the batch; its error is only logged.
Ack(w) ==
  /\ pc[w] = "record" /\ todo[w] = {} /\ fresh[w] = {}
  /\ Return(w)
  /\ \/ /\ NoFault
        /\ pel' = pel \ batch[w]
        /\ stale' = stale \ batch[w]
     \/ /\ Fault
        /\ UNCHANGED <<pel, stale>>
  /\ UNCHANGED <<stream, group, delivered, dbVars>>

-----------------------------------------------------------------------------
WorkerStep(w) == Read(w) \/ Tick(w) \/ Claim(w) \/ Insert(w) \/ Upsert(w) \/ Ack(w)

Next ==
  \/ \E k \in Keys \cup {Malformed} : RecordClick(k)
  \/ \E w \in Workers : Start(w) \/ Crash(w) \/ WorkerStep(w)
  \/ \E i \in pel : Age(i)

Spec == Init /\ [][Next]_vars

\* A supervisor restarts a dead worker, a running worker's calls return, the
\* claim ticker keeps firing and time passes.  The ticker's case wins over
\* default whenever it is ready, hence the strong fairness of Tick.
Fairness ==
  /\ \A w \in Workers :
       /\ WF_vars(Start(w))
       /\ WF_vars(WorkerStep(w))
       /\ SF_vars(Tick(w))
  /\ \A i \in 1..MaxClicks : WF_vars(Age(i))

FairSpec == Spec /\ Fairness

-----------------------------------------------------------------------------
(* Properties.                                                             *)

Places == {"down", "top", "read", "claim", "record"}

\* Every variable has its type: ids name entries of the stream, and what is
\* pending has been delivered, also when a worker starts while others run.
TypeOK ==
  /\ stream \in Seq(Keys \cup {Malformed})
  /\ group \in BOOLEAN
  /\ delivered \in 0..Len(stream)
  /\ pel \subseteq 1..delivered
  /\ stale \subseteq pel
  /\ pc \in [Workers -> Places]
  /\ after \in [Workers -> {"top", "read", "claim"}]
  /\ cursor \in [Workers -> Nat]
  /\ batch \in [Workers -> SUBSET Ids]
  /\ todo \in [Workers -> SUBSET Ids]
  /\ fresh \in [Workers -> SUBSET Ids]
  /\ events \subseteq Ids
  /\ daily \in [Keys -> Nat]
  /\ credited \subseteq Ids
  /\ faults \in Nat

\* A daily count never exceeds the click_events rows of its key: redelivery,
\* reclaiming an entry that is still being processed and crashes never count
\* a click twice (Recorder.RecordBatch and its use of inserted).
NeverOvercounts ==
  \A k \in Keys : daily[k] <= Cardinality(OfKey(events, k))

\* An entry that left the pending list has its click_events row, or never
\* parsed: XACK runs only after RecordBatch succeeded (processBatch).
AckedIsRecorded ==
  \A i \in (1..delivered) \ pel : stream[i] = Malformed \/ i \in events

\* Rows whose click is in no daily count and in no worker's deltas either, so
\* that no later step can count it: redelivery finds the row and skips it.
Lost ==
  {i \in events \ credited : \A w \in Workers : i \notin fresh[w]}

\* Each crash, failed call or lost reply costs the rollup at most one batch
\* of counts (unless PostgreSQL refuses rows by itself), so without them the
\* rollup is exact however the workers overlap.
LossBounded ==
  Rejected = {} => Cardinality(Lost) <= BatchSize * faults

\* What the comment on Recorder says: a crash partway through a batch only
\* defers its remainder, so a row that was acknowledged and that no worker is
\* processing is in its daily count.
AckedIsCounted ==
  \A i \in (events \ pel) \cap (1..delivered) :
    i \in credited \/ \E w \in Workers : i \in fresh[w]

\* Every entry that parses is eventually recorded, whichever worker dies and
\* whichever calls fail on the way (at-least-once delivery with reclaim), as
\* long as no entry before it is one that PostgreSQL refuses: rows are
\* inserted in stream order, so what comes later cannot hold it up.
EventuallyRecorded ==
  \A i \in 1..MaxClicks :
    (/\ i \in Ids /\ stream[i] # Malformed
     /\ \A j \in 1..i : stream[j] \notin Rejected) ~> i \in events

\* ... and acknowledged for good, as malformed entries are, unless the stream
\* holds an entry that PostgreSQL refuses.
EventuallyAcked ==
  \A i \in 1..MaxClicks :
    i \in Ids ~> \/ \E j \in Ids : stream[j] \in Rejected
                \/ [](i <= delivered /\ i \notin pel)

\* What the comment in processBatch asks for: every message is acknowledged in
\* the end, so that none poisons the stream by being retried for ever.
NoPoison ==
  \A i \in 1..MaxClicks : i \in Ids ~> i <= delivered /\ i \notin pel

-----------------------------------------------------------------------------
(* The ledger of internal/stats: what the recorder promises for each click *)
(* and each daily count, as a specification of its own.                    *)

StageOf(i) ==
  IF i \in credited THEN "counted"
  ELSE IF \E w \in Workers : i \in fresh[w] THEN "recorded"
  ELSE IF i \in events THEN "lost"
  ELSE "queued"

Ledger == INSTANCE ClickLedger
            WITH clicks <- stream, stage <- [i \in Ids |-> StageOf(i)], total <- daily

\* The pipeline implements the ledger: each click is recorded once and enters
\* the count of its own key at most once, whatever the workers do.
ImplementsLedger == Ledger!Spec
=============================================================================
