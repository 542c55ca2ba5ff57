----------------------------- MODULE Statistics -----------------------------
(***************************************************************************)
(* Where the rows of click_events go and how they are read: the monthly    *)
(* partitions that cmd/worker creates ahead of time, the daily counts that *)
(* follow the rows, and a statistics request of cmd/api, whose queries run *)
(* one after the other without a transaction.                              *)
(*                                                                         *)
(* Time is counted in days.  Delivery, retries and several workers are in  *)
(* module ClickPipeline; here one worker records clicks of one short URL,  *)
(* on time or late.  Who may read is in module ShortUrls.                  *)
(***************************************************************************)
EXTENDS Integers, SequencesExt

CONSTANTS
  Lengths,      \* how many days the months have, in order
  Browsers,     \* browser families
  TopN,         \* browserTopN
  DefaultDays,  \* the range of a request that asks for none
  MaxRangeDays, \* maxRangeDays
  None,         \* nothing
  Other,        \* BrowserOther
  MaxRows,      \* bound: clicks that are recorded
  MaxFaults,    \* bound: failed maintenance and stopped workers
  ReadDays,     \* bound: the days on which statistics are asked for
  AskDays       \* bound: the days that a request names, or None

ASSUME StatisticsAssumption ==
  /\ Lengths \in Seq(Nat \ {0}) \ {<<>>} /\ IsFiniteSet(Browsers)
  /\ {TopN, DefaultDays, MaxRangeDays} \subseteq Nat \ {0} /\ {MaxRows, MaxFaults} \subseteq Nat
  /\ Other \notin Browsers
  /\ AskDays \subseteq Int \cup {None}

\* The days there are, and what months they belong to.
Calendar ==
  FlattenSeq([m \in DOMAIN Lengths |->
                [d \in 1..Lengths[m] |-> [month |-> m, day |-> d]]])

Days == DOMAIN Calendar

MonthOf(d) == Calendar[d].month

VARIABLES
  today,
  up,          \* whether the worker runs
  due,         \* whether its maintenance ticker is about to fire
  partitions,  \* the months that have one
  defaulted,   \* the months that have rows in the DEFAULT partition
  rows,        \* click_events: how many of each day and browser
  delta,       \* counts of the batch that is being recorded
  daily,       \* click_stats_daily
  ensured,     \* history: the days on which maintenance succeeded
  faults,      \* how many there have been
  request      \* what the statistics request is doing

table == <<partitions, defaulted, rows, daily>>
vars  == <<today, up, due, table, delta, ensured, faults, request>>

Idle == [pc |-> "idle", from |-> 0, to |-> 0, hourly |-> FALSE, totals |-> <<>>, before |-> 0]

\* 0001_init: there is the DEFAULT partition only.
Init ==
  /\ today = 1
  /\ up = FALSE /\ due = FALSE
  /\ partitions = {} /\ defaulted = {}
  /\ rows = [c \in Days \X Browsers |-> 0]
  /\ delta = [d \in Days |-> 0]
  /\ daily = [d \in Days |-> 0]
  /\ ensured = {}
  /\ faults = 0
  /\ request = Idle

Recorded == SumFunction(rows)

-----------------------------------------------------------------------------
(* Partitions.                                                             *)

\* time.AddDate(0, 1, 0): a day that the next month does not have is carried
\* over into the month after it.
MonthAfter(d) ==
  LET m == MonthOf(d) IN
  IF m = Len(Lengths) \/ Calendar[d].day <= Lengths[m + 1] THEN m + 1 ELSE m + 2

\* EnsurePartition: PostgreSQL refuses a partition while DEFAULT holds rows of
\* it.
Creatable(m) == m \in partitions \/ m \notin defaulted

\* Mutant: the month under way is left to the DEFAULT partition.
EnsureNextOnly(d) ==
  /\ UNCHANGED faults
  /\ Creatable(MonthAfter(d))
  /\ partitions' = partitions \cup {MonthAfter(d)}
  /\ ensured' = ensured \cup {d}

\* ensurePartitions.
EnsurePartitions(d) ==
  /\ UNCHANGED faults
  /\ Creatable(MonthOf(d)) /\ Creatable(MonthAfter(d))
  /\ partitions' = partitions \cup {MonthOf(d), MonthAfter(d)}
  /\ ensured' = ensured \cup {d}

Fault == faults < MaxFaults /\ faults' = faults + 1

\* A statement fails, or PostgreSQL refuses the month under way; clicks of the
\* next one cannot be there yet.
EnsureFails(d) ==
  /\ UNCHANGED ensured
  /\ \/ UNCHANGED partitions /\ Fault
     \/ UNCHANGED <<partitions, faults>> /\ ~Creatable(MonthOf(d))
     \/ /\ Creatable(MonthOf(d)) /\ Fault
        /\ partitions' = partitions \cup {MonthOf(d)}

\* main: a worker whose partitions cannot be ensured exits.
StartWorker ==
  /\ ~up
  /\ \/ EnsurePartitions(today) /\ up' = TRUE
     \/ EnsureFails(today) /\ up' = FALSE
  /\ UNCHANGED <<today, due, defaulted, rows, daily, delta, request>>

\* partitionMaintenanceLoop: a failure is logged, until the next day.
Maintain ==
  /\ up /\ due
  /\ EnsurePartitions(today) \/ EnsureFails(today)
  /\ due' = FALSE
  /\ UNCHANGED <<today, up, defaulted, rows, daily, delta, request>>

\* The ticker has fired before a day is over.
NextDay ==
  /\ today + 1 \in Days /\ ~due
  /\ today' = today + 1
  /\ due' = up
  /\ UNCHANGED <<up, table, delta, ensured, faults, request>>

-----------------------------------------------------------------------------
(* Recording.                                                              *)

\* InsertClickEvent: PostgreSQL routes the row by clicked_at.
InsertClickEvent(d, b) ==
  /\ up /\ d <= today /\ Recorded < MaxRows
  /\ rows' = [rows EXCEPT ![<<d, b>>] = @ + 1]
  /\ defaulted' = IF MonthOf(d) \in partitions THEN defaulted ELSE defaulted \cup {MonthOf(d)}
  /\ delta' = [delta EXCEPT ![d] = @ + 1]
  /\ UNCHANGED <<today, up, due, partitions, daily, ensured, faults, request>>

\* Mutant: the delta that has been added is kept.
UpsertDailyCountTwice(d) ==
  /\ up /\ delta[d] > 0 /\ daily[d] < MaxRows
  /\ daily' = [daily EXCEPT ![d] = @ + delta[d]]
  /\ UNCHANGED <<today, up, due, partitions, defaulted, rows, delta, ensured, faults, request>>

\* UpsertDailyCount.
UpsertDailyCount(d) ==
  /\ up /\ delta[d] > 0
  /\ daily' = [daily EXCEPT ![d] = @ + delta[d]]
  /\ delta' = [delta EXCEPT ![d] = 0]
  /\ UNCHANGED <<today, up, due, partitions, defaulted, rows, ensured, faults, request>>

\* The worker exits or dies, with the batch it was recording.
StopWorker ==
  /\ up /\ Fault
  /\ up' = FALSE /\ due' = FALSE
  /\ delta' = [d \in Days |-> 0]
  /\ UNCHANGED <<today, table, ensured, request>>

-----------------------------------------------------------------------------
(* Reading.                                                                *)

\* FindHourlyClickCounts and its like: rows of the half-open range [from, to).
EventCount(from, to) ==
  SumFunctionOnSet(rows, {c \in Days \X Browsers : from <= c[1] /\ c[1] < to})

BrowserCount(from, to, b) ==
  SumFunctionOnSet(rows, {c \in Days \X {b} : from <= c[1] /\ c[1] < to})

\* parseStatsRange: two days that are both included.
RangeOf(from, to) ==
  [Idle EXCEPT !.from = IF from = None THEN today - (DefaultDays - 1) ELSE from,
               !.to   = IF to = None THEN today ELSE to]

\* Mutant: the last day is left out.
ToExclusiveAsAsked(r) == r.to

\* handleGetShortURLStats makes the range half-open.
ToExclusive(r) == r.to + 1

\* GetStats' test of the half-open range.
ValidRange(r) ==
  ToExclusive(r) >= r.from /\ ToExclusive(r) - r.from <= MaxRangeDays

\* What is recorded of the days that were asked for.
Asked(r) == SumFunctionOnSet(rows, {c \in Days \X Browsers : c[1] \in r.from..r.to})

\* handleGetShortURLStats up to its first query; a range that is not valid is
\* refused.
GetStats(from, to, hourly) ==
  /\ request = Idle /\ today \in ReadDays
  /\ LET r == RangeOf(from, to) IN
     /\ ValidRange(r)
     /\ request' = [r EXCEPT !.pc = "referrer", !.hourly = hourly, !.before = Asked(r)]
  /\ UNCHANGED <<today, up, due, table, delta, ensured, faults>>

\* One query, and where GetStats goes on.
Query(pc, next, total) ==
  /\ request.pc = pc
  /\ request' = [request EXCEPT !.pc = next, !.totals = Append(@, total)]
  /\ UNCHANGED <<today, up, due, table, delta, ensured, faults>>

ReferrerCounts == Query("referrer", "country", EventCount(request.from, ToExclusive(request)))

CountryCounts == Query("country", "os", EventCount(request.from, ToExclusive(request)))

OSCounts == Query("os", "browser", EventCount(request.from, ToExclusive(request)))

\* bucketTopBrowsers: the families of top on their own, the others as one.
Bucket(counts, top) ==
  [b \in IF top = DOMAIN counts THEN top ELSE top \cup {Other} |->
     IF b \in top THEN counts[b] ELSE SumFunctionOnSet(counts, DOMAIN counts \ top)]

\* Families with the highest counts, at most TopN; ORDER BY leaves ties open.
Top(counts) ==
  CHOOSE top \in SUBSET DOMAIN counts :
    /\ Cardinality(top) = IF Cardinality(DOMAIN counts) <= TopN
                          THEN Cardinality(DOMAIN counts) ELSE TopN
    /\ \A b \in top, c \in DOMAIN counts \ top : counts[b] >= counts[c]

\* A family without clicks has no group.
BrowserCounts ==
  LET count(b) == BrowserCount(request.from, ToExclusive(request), b)
      counts   == [b \in {x \in Browsers : count(x) > 0} |-> count(b)] IN
  Query("browser", IF request.hourly THEN "hour" ELSE "day",
        SumFunction(Bucket(counts, Top(counts))))

HourlyCounts == Query("hour", "respond", EventCount(request.from, ToExclusive(request)))

DailyCounts ==
  Query("day", "respond",
        SumFunctionOnSet(daily, {d \in Days : request.from <= d /\ d < ToExclusive(request)}))

\* The response, or an error after any of the queries.
Respond ==
  /\ request # Idle
  /\ request' = Idle
  /\ UNCHANGED <<today, up, due, table, delta, ensured, faults>>

-----------------------------------------------------------------------------
Record ==
  \E d \in Days : UpsertDailyCount(d) \/ \E b \in Browsers : InsertClickEvent(d, b)

Read ==
  \/ \E from, to \in AskDays, hourly \in BOOLEAN : GetStats(from, to, hourly)
  \/ ReferrerCounts \/ CountryCounts \/ OSCounts \/ BrowserCounts
  \/ HourlyCounts \/ DailyCounts \/ Respond

Next == StartWorker \/ Maintain \/ NextDay \/ StopWorker \/ Record \/ Read

Spec == Init /\ [][Next]_vars

-----------------------------------------------------------------------------
(* Properties.                                                             *)

Requests ==
  [pc : {"idle", "referrer", "country", "os", "browser", "day", "hour", "respond"},
   from : Int, to : Int, hourly : BOOLEAN, totals : Seq(Nat), before : Nat]

\* Every variable has its type, and the daily counts follow the rows: what is
\* counted or about to be counted of a day has been inserted.
TypeOK ==
  /\ today \in Days /\ ensured \subseteq Days /\ faults \in 0..MaxFaults
  /\ up \in BOOLEAN /\ due \in BOOLEAN
  /\ partitions \cup defaulted \subseteq 1..(Len(Lengths) + 2)
  /\ rows \in [Days \X Browsers -> Nat]
  /\ delta \in [Days -> Nat] /\ daily \in [Days -> Nat]
  /\ \A d \in Days :
       daily[d] + delta[d] <= SumFunctionOnSet(rows, {d} \X Browsers)
  /\ request \in Requests

\* The comment on ensurePartitions, "writes never fall through to the DEFAULT
\* partition", as far as the code keeps it: once maintenance has succeeded, the
\* rows of that month and of the next do not, unless the next month has no such
\* day.
DefaultExplained ==
  \A d \in ensured : LET m == MonthOf(d) IN
    /\ m \notin defaulted
    /\ m < Len(Lengths) /\ Calendar[d].day <= Lengths[m + 1] => m + 1 \notin defaulted

\* A response is about the days that were asked for, both ends included.  The
\* breakdowns are read one after the other, so they need not agree; but each has
\* every click that was there when the request began, none that is outside, and
\* at least what the breakdowns before it have.  The daily counts, which follow
\* the rows, never show more than there is.
ResponseExplained ==
  LET t == request.totals
      events == IF request.hourly THEN DOMAIN t ELSE DOMAIN t \ {5} IN
  /\ \A i \in DOMAIN t : t[i] <= Asked(request)
  /\ \A i \in events : request.before <= t[i]
  /\ \A i, j \in events : i < j => t[i] <= t[j]
=============================================================================
