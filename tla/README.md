# Verification of knives

knives is a URL shortener in Go: `cmd/redirect` serves redirects, `cmd/api`
serves the management API and the login flows, `cmd/worker` turns the clicks
that `cmd/redirect` pushes on a Redis stream into PostgreSQL rows and daily
counts, and `cmd/migrate-yourls` imports an old YOURLS installation. This
directory holds TLA+ models of its core, the TLC configurations that check
them on small instances, and theorems that TLAPS proves for every instance.

## Inventory

| component | state | operations | talks to |
|---|---|---|---|
| Click pipeline (`cmd/redirect` recordClickAsync, `cmd/worker`, `internal/stats` Recorder) | stream `clicks`, consumer group `worker` with its pending list, `click_events`, `click_stats_daily`; per worker its run loop and batch | push, group creation, read, reclaim, insert rows, add daily deltas, acknowledge | Redis streams, PostgreSQL |
| Redirect hot path and cache (`cmd/redirect`, `internal/cache`) | Redis entries, one in-process tier per instance, invalidation messages | get, fill, purge, publish, receive | edited short URLs purge it; serves the clicks above |
| Short URLs and permissions (`internal/shorturl`, `internal/permission`, handlers) | `short_urls`, `url_permissions` | create, edit, disable, invite, revoke | purges the cache; the redirect reads its rows |
| YOURLS migration (`cmd/migrate-yourls`) | position in the rows; writes `short_urls`, `url_permissions`, `click_stats_daily` | insert, grant owner, set total; rerun | races the API and the worker on the same tables |
| Account linking and local signup (`internal/auth` Resolver, LocalSignup) | `users`, `auth_identities`, `pending_link_requests`, `local_signup_verifications`, `local_credentials` | resolve, confirm, approve, sign up, verify | mail; the invitee and import placeholders above |
| SAML and OIDC login (`internal/auth`, handlers) | one-time requests, assertions and states in Redis | begin, finish | hand what they learn to account linking |
| IdP configuration | `idp_saml_configs`, `idp_oidc_configs` | create, replace, delete when unused | linked identities, logins |
| Administration | the row of `auth_settings`, `users.is_system_admin`, `users.status` | patch settings, patch user | every login flow; every authenticated handler |
| Sessions (`RedisSessionStore`, `requireAuth`) | a Redis key per session and an index set per user | create, find, touch, delete, delete all | every login, every authenticated handler |
| Local login (`LocalAuthenticator`) | `local_credentials` with failure counter and lock | login, set password | sessions |
| WebAuthn | ceremonies in Redis, `webauthn_credentials` with counters | begin, finish, rename, delete | sessions |
| Statistics reader | none | a range, six queries | the rows and counts of the click pipeline |
| Partition maintenance (`cmd/worker`) | the monthly partitions of `click_events` | at start and daily | decides where the pipeline's rows go |
| Rate limiter | token buckets per client | allow, clean up | none |
| Enrichment, mail, generated queries, web | none | formatting, I/O | PostgreSQL, SMTP |

What is hard here is nearly always the same thing: a handler is several
statements without a transaction around them, and between two of them another
handler runs, a context is cancelled or a process dies. On top of that the
click pipeline has at-least-once delivery with overlapping consumers, and the
cache has two tiers with lossy invalidation. `PROJECT.json` lists every such
place with its line under `hazards`, and which property looks at it.

What makes each component correct:

* Click pipeline: no click is acknowledged before it is recorded, none is
  counted twice, every click is recorded in the end, and what a crash costs is
  bounded.
* Cache: Redis disagrees with the row only for known reasons, a dead code stays
  dead, in-process copies do not outlive the others.
* Short URLs: exactly the creator owns, the last owner cannot be removed, a
  disabled URL stays disabled, reserved codes are never used.
* Migration: whatever was there when a run started is left alone.
* Account linking: an identity reaches an account only through its address and
  the confirmations the settings ask for; one identity, one account; a failure
  half-way can be finished later.
* Single sign-on: one trip to a provider is at most one login; a configuration
  in use is not deleted.
* Sessions and login: a logout is final; failures are counted and a lock holds;
  one-time ceremonies are used once; a passkey's counter does not fall.
* Administration: no change to the settings is lost; somebody can always
  administer.
* Statistics: a response has exactly the days that were asked for; rows get a
  partition of their own.

## Modules

| module | what |
|---|---|
| `ClickPipeline` | detailed model of the pipeline |
| `ClickLedger` | abstract specification: what happens to one click and to the counts |
| `ClickPipelineProofs` | theorems about `ClickPipeline` |
| `MCClickPipeline` | its instances |
| `RedirectCache`, `MCRedirectCache` | both cache tiers, the fallback, the editing handlers; instances |
| `RedirectCacheProofs` | theorems about `RedirectCache` |
| `ShortUrls`, `MCShortUrls` | short URLs, grants, the migration; instances |
| `ShortUrlsProofs` | theorems about `ShortUrls` |
| `AccountLinking` | Resolver, local sign-up, pending links, the settings |
| `SingleSignOn`, `MCSingleSignOn` | composes it with SAML, OIDC and the configurations; instance |
| `SingleSignOnHandlers`, `SingleSignOnProofs` | theorems about `SingleSignOn`: what its handlers know, then the rest |
| `Sessions` | the session store, `requireAuth`, logout |
| `LocalLogin`, `Passkeys`, `Administrators` | what requests behind or in front of a session do |
| `AccountAccess`, `MCAccountAccess` | composes those four; instance |
| `AccountAccessTypes`, `AccountAccessProofs` | theorems about `AccountAccess`: its types, then the rest |
| `Statistics`, `MCStatistics` | partitions, daily counts and the statistics request; instance |
| `StatisticsProofs` | theorems about `Statistics` |

### ClickPipeline

An entry of the stream is its position; its content is its daily key
(short URL, UTC day), or `Malformed`. `delivered` and `pel` are the group's
last-delivered id and pending list, `stale` the pending entries idle for
`staleThreshold`. Each worker has `pc` (the run loop: `top` is the `select`,
`read` the XREADGROUP that follows a reclaim, `claim` the reclaim loop,
`record` inside `processBatch`), `after` (where `processBatch` returns to),
`cursor` (the next start id of XAUTOCLAIM) and the batch: `batch` is the id
list for XACK, `todo` what RecordBatch has still to insert, `fresh` the
entries whose insert created a row and that sit in its deltas map.

`RecordClick` is the XADD, `Start` is `main` up to `run` with `EnsureGroup`,
`Read`, `Tick` and `Claim` are the loop and `reclaimStaleEntries`,
`Insert` is one statement of RecordBatch's first loop, `Upsert` one of its
second, `Ack` the XACK. Every call can fail (`Fault`), before or after the
server carried it out, and `Crash` can hit between any two statements.

`ClickLedger` knows only a stage for each click: queued, recorded,
counted, or lost to the counts. The refinement mapping is at the end of
`ClickPipeline`: a click is *recorded* while some worker holds it in its
deltas, *counted* once an upsert added it, *lost* when its row exists and
nobody holds it.

### RedirectCache

One short code. `row` is its row, `redis` its Redis entry, `local` each
instance's entry, `inbox` the messages each instance's subscription has still
to handle. A request walks `get` (Redis GET), `find` (FindRedirectTarget),
`set` (Redis SET), `put` (in-process tier); an editor walks `purge` (DEL) and
`publish`. A hit in the in-process tier changes nothing and is no action;
`Lookup` is what a request is answered. `causes` is a history variable: the
reasons why Redis may disagree with the row.

### ShortUrls

One domain. `url` holds the rows, `grants` the roles, `req` what each request
goroutine is doing: the first step of a handler is `resolveAccess`, and what
it was told is acted on in the steps after it. `mig` is the migration; a run
takes its rows in any order and dies anywhere. `daily` is the day's count of
each code, which the worker adds to and the migration overwrites. `regrant`
is a history variable: the codes whose owner was invited to them. `entitled`
is another: who may edit each code, or could when an edit of theirs that is still
under way was accepted. `Remember` writes it as part of every step, from the
grants and the requests (`Next == Act /\ Remember`).

Editable fields are abstracted to who wrote them last. Reading handlers
change none of these tables. Creating the invitee's placeholder account
belongs to account linking.

### AccountLinking and SingleSignOn

`users.email` is unique and never updated, and no user is ever deleted, so an
account is its address. An identity is its `key` (provider configuration or
`Local`, and subject), its `user`, and two history fields: `via`, how it came
about, and `claimed`, whether the account had an identity when the login that
brought it began. `req` is what each request goroutine is doing; the value of
`pc` names the statement it will make next, and the other fields are what it
remembers. So `FindIdentity`, `LookupUser`, `CreateAccount`, `CountIdentities`,
`AttachIdentity`, `RequestConfirmation` and `Notify` are the statements of
`Resolve` in their order, with anything of the other requests in between;
`StoreSignup` to `OpenSession` are the callers'; `LinkIdentity` and
`MarkConfirmed` the two statements that a confirmation and an approval share.
`Abort` ends a request after any statement, which is what an error, a
cancelled context and a crash do alike: nothing is rolled back, although the
comment on `Store` (`identity.go:109-115`) asks for one transaction.

`adm` is what each administrator's request is doing: `BeginPatch` reads the
settings row, `WritePatch` merges and writes all of it; a deletion of a
configuration counts in `BeginDelete` and deletes in `DeleteSAMLConfig` or
`DeleteOIDCConfig`. `flows` is Redis: a flow's request or state is `pending`
until an answer consumes it, `seen` is the SAML assertion id.

What the model shows of the code, besides its properties:

* A deletion's count and a login's insert interleave, and a confirmation does
  not ask whether its configuration is still there: both leave identities of
  a deleted configuration. The history variable `late` collects them, and
  `DeletedUnused` speaks of the others.
* A provider that reports another address for a known subject sends the
  owner a confirmation that can never succeed: confirming inserts an identity
  that is there already, which the UNIQUE constraint refuses every time.
* When a sign-up ends in a confirmation (`local_signup.go:139-145`) the
  password that came with it is dropped. After confirming, the account has a
  local identity without a password until its owner sets one in a session.
* Two overlapping PATCHes of the settings lose the earlier one's fields, also
  those the later one does not name; `SettingsAsAsked` speaks of the others.

### Sessions, LocalLogin, Passkeys, Administrators, AccountAccess

A session is a key with the steps of the clock it has left; `index` and
`indexLeft` are the user's set. `Authenticate`, `Touch`, `Extend`, `ReadFlag`
are `requireAuth` with a step for every call to Redis or PostgreSQL, after which
the request makes the `call` it carries. `LocalLogin`, `Passkeys` and
`Administrators` extend `Sessions` with what the calls do, and `AccountAccess`
composes them; `traffic` says which kinds of route a behaviour uses.

* `Touch` writes back what it read. A logout in between is undone, and the
  session is then missing from the user's index. `gone` collects the tokens
  whose logout nobody was about to overwrite, `revived` those that were
  written back; `LogoutHolds` and `IndexSuffices` speak of the rest.
* Two failed logins that overlap write back what they read: a failure may be
  lost, and one that read the counter before a lock clears that lock. A request
  that is cancelled after the password was compared records nothing at all. So
  nothing bounds the passwords tried, and no property says so. `LockEarned`
  says the converse, that no overlap makes a lock out of too few failures:
  `wrong` counts the failures recorded since a right password or a new one
  (`Forgive`), but one that a login which read the counter earlier still has to
  write back (`Recording`) is not forgiven.
* Two administrators who demote each other at once both succeed. `crossed`
  records that an administrator was demoted while a request of theirs had read
  the flag and had yet to change somebody's, and `SomebodyIsLeft` speaks of every
  other behaviour, sequential or overlapping, suspended administrators included.
* `users.status` is stored and read by nothing: a suspended user logs in.
* A lock that has run out leaves the counter where it was, so the next failure
  locks again.

### Statistics

Days are numbered, and `Lengths` says which months they form. `partitions` are
the months that have one, `defaulted` the months with rows in DEFAULT, `rows`
counts `click_events` by day and browser. `EnsurePartitions` is
`ensurePartitions`, made by `StartWorker` and by `Maintain`; `EnsureFails` is
each way it may fail, PostgreSQL's refusal to create a partition whose rows
are in DEFAULT among them. A statistics request makes its queries one by one
(`ReferrerCounts` to `DailyCounts`), rows being inserted in between.

The comment on `ensurePartitions` (`cmd/worker/main.go:100-102`) says "so writes
never fall through to the DEFAULT partition once the worker is running". The
code does not keep this: line 107 adds a month with `AddDate(0, 1, 0)`, which on
January 31 gives a day of March, and on the 31st before any shorter month a day
of the month after that. A worker that is started then does not create the
next month's partition, and until the daily ticker fires in that month its rows
land in DEFAULT. Once one has, PostgreSQL refuses the partition for the whole
month: the daily loop logs an error every day, and a worker that restarts exits.
`DefaultExplained` states how far the comment is kept: with that exception, which
no property covers. Without its condition on the day's number, TLC shows the
counterexample on the instance of the run `statistics`, whose second month is the
shorter one.

## Runs

Passing runs:

| run | instance | checks |
|---|---|---|
| `click_safety` | 2 workers, 3 clicks on 2 keys or malformed, batches of 2, 2 faults | `TypeOK`, `NeverOvercounts`, `AckedIsRecorded`, `LossBounded` |
| `click_liveness` | 2 workers, 2 clicks, one key refused by PostgreSQL, batches of 2, 1 fault, fair | `EventuallyRecorded`, `EventuallyAcked`, `ImplementsLedger` |
| `redirect_cache` | 2 requests, 2 editors, 1 instance, 2 long URLs, 2 edits, 1 fault, fair | `TypeOK`, `StaleRedisExplained`, `DeadStaysDead`, `LocalForgets` |
| `short_urls` | 2 users (one invited, one the system user), 1 usable and 1 reserved code, 2 requests, 2 migration runs, 2 clicks | `TypeOK`, `ReservedUnused`, `SoleOwner`, `OwnerKept`, `WrittenByGrantee`, `DisabledForGood`, `RerunIsSafe` |
| `single_sign_on` | 2 addresses, 1 configuration, 1 subject, 2 requests, 2 administrators, 2 flows, 3 arrivals, 2 patches | `TypeOK`, `OneAccountPerKey`, `ClaimedIsAsked`, `ConsentGiven`, `StrictMeansApproved`, `ConfirmedIsLinked`, `SettingsAsAsked`, `FlowTakenOnce`, `DeletedUnused`, `SignupNotLost` |
| `sessions` | 2 users, 2 tokens, 2 requests, lives of 2 steps, locks after 3 failures, 1 passkey, 2 ceremonies | `TypeOK`, `IndexSuffices`, `LogoutHolds`, `LockEarned`, `LockHolds`, `CeremonyOnce`, `CounterRises`, `SomebodyIsLeft` |
| `statistics` | months of 2, 1 and 1 days, 2 browsers, 2 clicks, 1 fault | `TypeOK`, `DefaultExplained`, `ResponseExplained` |

Violation runs, each a place where the code does not do what a comment of the
repository says; `PROJECT.json` quotes the comments under `findings`:

| run | what TLC finds |
|---|---|
| `click_poison` | an entry that parses but whose row PostgreSQL refuses is retried for ever, with its whole batch |
| `click_rollup` | a crash after a batch's inserts and before its daily upserts loses the counts for good: redelivery sees existing rows |
| `redirect_race` | a fill that read before an edit stores the old target after the edit's purge, in an entry without expiry |
| `redirect_expiry` | a target cached before its `expires_at` is served from Redis after it |
| `short_urls_owner` | an owner who invites their own address is downgraded, and nobody owns the short URL |

### What the passing runs do not cover

Some races are not prevented by the code, so no property can say that they are
harmless. Where one would falsify a property, a history variable records it and
the property speaks of the other behaviours: `late` (a login attached to a
configuration whose deletion had counted), `overlapped` (two PATCHes of the
settings), `lax` (a token mailed, or a link approved, under the older setting),
`gone` and `revived` (a session written back after its logout), `crossed` (an
administrator demoted while demoting another). `LockHolds` and `CounterRises`
excuse a write by a login that had read the row before. The entries
under `hazards` in `PROJECT.json` say of each what is not covered.

### Bounds, and why they are enough

* Workers: two. All interference is between one worker and the others
  together, through the pending list and the rows. Three clicks with batches
  of two give a full and a partial batch, a reclaim loop that continues from
  its cursor, and a batch whose part was recorded by the other worker. Two
  faults give a crash during the repair of the first one. The proofs cover
  every other size.
* Faults are the only unbounded source of repetition besides reclaiming, and
  `MaxFaults` bounds them; reclaiming itself is not bounded.
* Cache: codes are independent of each other, and so are instances: one
  request or editor never touches another instance's tier but through its
  inbox. Two requests and two editors show every pairwise order of fill and
  purge; `MaxEdits` = 2 lets an edit overtake another's purge.
  `Expiries` is `later`; a row that never expires is one whose time does not
  come.
* Short URLs: codes are independent but for being reserved or not. Two
  requests and the migration show every pairwise race, two users are an owner
  and somebody else, who has no grant until they create or are invited. Two migration runs are a run and its rerun. `Attempts` is two:
  one that fails and one that gives up.

* Single sign-on: `MaxArrivals` = 3 requests that arrive, among which two
  overlap with each other or with an administrator: two logins and the
  confirmation of one of them, a login and a deletion and another login, two
  PATCHes and a sign-up. When they are used up the system rests, which is
  why this run does not check deadlock. One configuration may be of either
  type, trusted or not, enabled or not; configurations do not meet but in a
  flow that is answered at another's endpoint, which ends the request.
  `Patches` change one setting or two at once.
* Sessions: two requests race on a session, a counter, a ceremony or each
  other's flag; a third adds nothing to any of them but failures lost to a
  third writer, and the proofs cover any number. `Traffic` lets
  each kind of route meet logins and failures but not the other kinds: they
  share only the session they came by. `MaxCount` stops a counter one above the
  lock, `MaxSignCount` gives counters that stay, rise and fall.
* Statistics: `Lengths` has a month that lacks a day of the one before it, and
  one after it. `ReadDays` and `AskDays` ask on the last day for ranges that
  begin before there were days, that default at either end, that are too wide
  and that are the wrong way round. Two clicks make two browsers, the second of
  which is folded into the others.

### Fairness

* `Start`: a dead worker is started again some time. The repository has no
  supervisor of its own; without a running worker nothing is ever recorded.
  `WorkerStep`: calls return, with a reply or an error.
* `Tick`, strongly: the loop is `select { case <-ticker.C: ... default: }`, so a
  ready ticker wins whenever the loop gets to the `select`, and the loop gets
  there again after every read, but is not always there.
* `Age`: time passes while an entry is pending.
* Requests and editors of the cache finish what they started; nothing makes
  one arrive. `LocalExpire`: entries have a TTL that a hit does not refresh.
  `Receive`: a delivered message is handled.
* No fairness for crashes, faults, clicks or edits. The modules of the API
  (`ShortUrls`, `SingleSignOn`, `AccountAccess`, `Statistics`) state no liveness:
  every handler may be cut off anywhere and nothing in the code takes its work
  up again; what they promise instead is that what is left is safe to retry.

## Proofs

Every invariant and every action property that a run checks is proved, and so is
the refinement of `ClickLedger`; liveness is not. The assumptions are the
`ASSUME`s of the modules, which TLC evaluates in each run; they say that sets
which are counted or summed are finite, that numbers are natural and that
values with a meaning of their own are not in other sets. `LinkingInit` adds that
the accounts there are at first are finitely many, since handlers count rows.

`ClickPipelineProofs` proves, from `PipelineAssumption` alone and so for any
number of workers, keys, clicks, faults and any batch size:

* `TypeCorrect`: `TypeOK`. It is made inductive by `GroupOK` (no worker runs
  and nothing is delivered before the group exists).
* `NoOvercount`: `NeverOvercounts`. The strengthening is `CountInv`: the
  workers' deltas are disjoint from each other and from what is already
  credited, contain only recorded entries (`FreshOK`), and each daily count
  is exactly the number of credited entries of its key (`CountOK`). The step
  that needs work is `AddDelta`, which is the cardinality of a disjoint union.
* `NothingAckedUnrecorded`: `AckedIsRecorded`. The strengthening is `WorkOK`:
  what a worker's batch holds is delivered, no larger than `BatchSize`, and
  every entry of it is malformed, recorded or still to do.
* `LossIsBounded`: `LossBounded`. `LossStep` says that a step adds to the lost
  rows only when it is a fault, and then entries of one batch.
* `PipelineImplementsLedger`: `ImplementsLedger`. `Progress` says what a step
  may do to rows, counts and the deltas that workers hold: rows and counts grow,
  only held entries are counted, and only an entry whose row is inserted becomes
  held. `StageMoves` concludes that the stage of a click moves as the ledger
  allows, `CountsGrow` that the daily counts grow by the clicks that moved to
  *counted*; so a step is one of the ledger's, or none (`LedgerStep`).

`RedirectCacheProofs` proves the safety properties of the run `redirect_cache`, for any
numbers of instances, requests, editors and edits:

* `TypeCorrect`: `TypeOK`. That an inbox holds no more messages than there were
  edits is not inductive; `InboxOK` adds the editors that are still busy, since
  every message is of an edit that is over.
* `StaleRedisIsExplained`: `StaleRedisExplained` is inductive given the types, which
  say that an editor between its write and its purge is at "purge".
* `DeadStays`: `DeadStaysDead`, an action property, step by step from the types.

`ShortUrlsProofs` proves every property of the run `short_urls`, from
`ShortUrlsAssumption` and so for any users, codes, requests, imported rows and
numbers of runs:

* `TypeCorrect`: `TypeOK`, made inductive by `ReqOK` (a handler that was
  accepted holds a code that exists) and `MigOK` (between its statements the
  migration holds a row it inserted).
* Two lemmas carry the rest. `StepEffect` says that a step does to a code one
  of eight things (`CodeStep`), `ReqEffect` what it does to a request.
  `ReservedStayUnused`, `DisablesAreFinal` and `OneOwner` follow from the
  first alone.
* `LastOwnerStays`: `OwnerKept`. It is not inductive, since a revoke acts on
  what it read before. `SparesOwner` adds that a revoke of the creator that has
  read a role read "owner", and that one that has counted is not about the
  creator.
* `OnlyEditorsWrite`: `WrittenByGrantee`, with `EntitledInv`: whoever may edit a
  code now is entitled, and every edit under way is by somebody entitled.
  `EntitledStep` shows that the edits accepted earlier keep their authors so.
* `RerunsAreSafe`: `RerunIsSafe`, with `RunOK`: the row a run is working on is
  not one it found.

`SingleSignOnHandlers` and `SingleSignOnProofs` prove every property of the run
`single_sign_on`, for any accounts, providers, subjects, requests, administrators
and flows:

* A handler acts on what statements have told it before. `Carries` says what a
  request holds at each of its steps, and `Knows` what it has learnt from the
  tables. `Grows` says that a step takes nothing back that matters: no account,
  password, identity or link goes away or changes hands, and a mailed token
  stays mailed. So what was learnt stays true (`KnowsKeep`) whoever moves, and a
  step needs a proof for the one handler that makes it only. `TypeCorrect`
  and `TablesGrow` state the result.
* `OneAccount`: `OneAccountPerKey`. For a provider's identity the UNIQUE constraint
  does it, which is void for local ones; there `Own` does: a local key is the
  address of its account.
* `ClaimedAccountsAsked` and `ConsentAlwaysGiven` follow from what the
  inserting handler carries and knows, `ConfirmedAreLinked` and `SignupsKept` from the
  order of two statements.
* `StrictIsApproved`: `StrictMeansApproved`, with `StrictInv`: the setting is on
  and no token was ever mailed.
* `SettingsStay`: `SettingsAsAsked`, with `PatchInv`: without an overlap there is
  one PATCH at most, and what it has read is still in the row.
* `FlowsTakenOnce`: `FlowTakenOnce`, with `FlowInv`: who got the record of a flow
  is alone with it, and the record is gone.
* `DeletedAreUnused`: `DeletedUnused`, with `DeleteInv`: from its count on, a
  deletion's configuration has only identities that came late.

`AccountAccessTypes` and `AccountAccessProofs` prove every property of the run
`sessions`, from the assumptions of the four modules and so
for any accounts, tokens, requests, passkeys, ceremonies and lives of a key, and
for any kinds of route used together:

* `TypeCorrect`: `TypeOK`. It is made inductive by `ReqOK`, which says what a
  request holds at each of its steps: a user once it is known, a token that has
  been issued from `requireAuth` on, a credential that was not locked while a
  login is being recorded.
* `RequestSteps` carries most of the rest: in any step some request reads a
  session or a credential, or goes where it holds neither.
* `LogoutsHold`: `LogoutHolds`. `GoneInv` adds that nobody is about to write
  such a session back, which `Holders` keeps: only a live session is read.
* `IndexAlwaysSuffices`: `IndexSuffices`, with `OwnersInv`: whoever holds a
  token's record agrees on whose it is, so that `Extend` prolongs the index of
  the right user.
* `LocksEarned`: `LockEarned`, with `EarnedInv`: no counter, whether stored or
  held by a login that will record it, is ahead of the failures since forgiven.
* `CeremoniesOnce`: `CeremonyOnce`, with `OnceInv`: what can still be finished has
  not been.
* `SomebodyStays`: `SomebodyIsLeft`, with `GateInv`: unless `crossed`, every
  request that has the flag and is past the check of it is of somebody who is an
  administrator still; the refusal to act on oneself keeps that one.
* `LocksHold` and `CountersRise`: `LockHolds` and `CounterRises`, step by step
  from the types.

`StatisticsProofs` proves every property of the run `statistics`, for any
calendar, browsers, clicks, faults, ranges and days of asking:

* `RowsHavePartitions`: `DefaultExplained`. `PartitionsInv` makes it inductive:
  a day of successful maintenance has both its partitions, and no month with a
  partition has rows in DEFAULT. It needs no assumption.
* `TypeCorrect`: `TypeOK`, whose last part bounds a day's count by a sum over
  the rows. `InsertSums` says what one more row does to a sum.
* `ResponsesAreExplained`: `ResponseExplained`, with `ResponseInv`: the daily
  counts are read fifth and only by requests that are not hourly, and there is
  as much of the days asked for as there was in the beginning. That a query finds
  what is there needs a lemma each: `EventCountIsAsked` (the half-open range has
  the days that were asked for), `BrowserTotal` (the top families and the others
  make up all of them, whichever the ties leave at the top) and `DailyTotal` (the
  counts of the days are no more than their rows).

The sums and the calendar are defined by recursion in the community modules, and
the library's induction theorems take an operator as a parameter, which no prover
here can instantiate. `NumberInduction` and `SubsetInduction` are stated for a
set instead and follow from the least element of a set of numbers (`LeastNumber`);
with them `SumsAdd` and `FlattenType` show that the recursive functions exist, and
`SumOfAny`, `SumSame` and `SumUnion` how sums behave.

Only model-checked: liveness (`EventuallyRecorded`, `EventuallyAcked`,
`LocalForgets`), since fairness and `ENABLED` are out of this prover's reach. The
violation runs show what does not hold. No module has a RECURSIVE operator, since
the prover loses its SMT backend with one.

## Not modelled, and the plan

Left out of the modelled components: `DeleteAllForUser`, which no code calls;
renaming and listing passkeys; `findOrCreateUser` of the migration, which creates a
placeholder as `InviteUser` does; audit entries and `last_used_at`.

Left out for good: the rate limiter (a mutex around library token buckets),
user-agent and GeoIP enrichment (pure functions and a library), mail and
credential encryption (I/O and a cipher), the generated query layer (modelled
where its statements are used), and the web client.

Also left out of the modelled parts: the Redis client's internal retries, which
may push a click twice under two ids; clicks that a redirect process drops when it
exits before the push; the eviction of Redis entries, which only ever leads to
a miss; the limit of ten scanned entries for each one XAUTOCLAIM returns.
