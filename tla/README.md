# geo-hazard in TLA+

This directory holds the formal models of geo-hazard: modules that follow the
Python code line by line where it decides something, TLC configurations that
check them on small instances, and TLAPS proofs of the results that should hold
for every instance. All line numbers refer to the commit in `src/`.

## 1. The system

geo-hazard polls three public sources (EFFIS wildfires, IGN earthquakes, AEMET
weather warnings), keeps one table of hazard events, and derives from it an
API, GeoParquet snapshots and notifications for watch areas. Everything that
happens without a request happens in two loops of the process, a job scheduler
and an outbox worker. PostgreSQL is the only thing processes share; a deploy
runs two of them at once for a while.

| Component | State | Operations | Model |
|---|---|---|---|
| Job scheduler `core/jobs/worker.py` | `scheduled_jobs`: status, next_run_at, claimed_by, lease_until | recover stale, list due, claim, run, reschedule, start, stop | `JobWorker`, `LeasedTask` |
| Outbox `core/events` | `outbox_events`: status, retry_count, scheduled_at, handler_state | publish, poll with SKIP LOCKED, dispatch, commit or retry or give up | `Outbox` |
| Table of events `hazards/repos/hazard_event.py` | `hazard_events`: ends_at, content_hash, created_at / updated_at | upsert a batch, close events | `HazardStore` |
| AEMET sync `use_cases/sync_aemet.py` | cursor and failure count in `source_sync_state` | fetch, upsert, close superseded, close vanished, announce | `AemetSync` |
| EFFIS and IGN syncs `use_cases/sync_effis.py`, `sync_ign.py` | the same | fetch two layers (one for IGN), upsert, close vanished, announce | `EffisSync` |
| Matching `notifications/use_cases/match_batch.py` | `notification_episodes` | match a batch, lock, open / escalate / touch / close | `Episodes` |
| Delivery `notifications/use_cases/deliver.py`, `manage.py` | `subscriptions`, `notification_deliveries` | claim, send, record, purge; add, pause, resume, remove | `Delivery` |
| GeoParquet export `event_handlers/export_geoparquet.py` | a file per source | read the rows, write in a thread, replace the snapshot | `ReadSide` |
| Events API `hazards/api/events.py` | none | list by pages, get, nearest, clusters | `EventQueries`, `ReadSide` |
| Analytics plane `analytics/` | the slots of the limiter | queries over the snapshots behind a limiter | `HistoryQueries`, `ReadSide` |
| Health of the sources, host check `services/source_health.py`, `ops/check-sources.sh` | `source_sync_state`; a state file | record, judge staleness, alert on change, remind | `SourceWatch` |
| Messages, channels, CLI, watch areas | `watch_areas` | render, sign, post; administer | none |
| Provinces, startup, configuration, deployment | reference data, settings | | none |

How they interact:

- The scheduler runs `aemet_sync`, `effis_sync`, `ign_sync` and
  `notifications_deliver`. That one run of a job excludes another is what the
  models of the jobs assume, and what `JobWorkerProofs` proves.
- A sync writes rows, cursor and the outbox event `hazards.batch_ingested` in one
  transaction. The event carries `batch_at`, `now()` of that transaction, by
  which later readers find the rows.
- The outbox dispatches the event to `export_geoparquet` and
  `match_notifications`, at least once, late, possibly out of order, and in two
  processes at a time when a connection broke.
- Matching inserts pending deliveries, which the delivery job sends; the
  operator changes subscriptions from the command line meanwhile.
- The export rewrites the whole file of a source from the table, whatever batch the
  event is of. The events API reads the table, the analytics plane only the files,
  each of its statements anew.
- The syncs leave successes and failures in `source_sync_state`; `/v1/sources/status`
  judges them, and a script that cron runs tells the operator what changed.

What is hard in it: leases that depend on time, crashes between the work and the
record of the work, commit replies that are lost, events that arrive after the
row has changed again, closes against upserts of the same row, rows inserted
between a read and the write that follows from it, and jobs or events that must
go on in spite of all that. Section 6 says which property is for which.

What makes each component correct: a job runs alone while its lease lasts, a
late worker cannot free another's claim, and every job goes on being run; no
event is lost, work is repeated only for failures on record, and no event is
tried for ever; the open part of the table is what the source served last, no
change goes unannounced, and a poll without change is silent; everything that
matters is notified, once per severity and episode; messages are apart, repeated
only after a fault, and what is marked sent was sent; what a reader is given is
not older than what had been exported when it asked, a listing shows every steady row
once, views of the same events agree, and a source that stopped is told to the
operator.

## 2. The modules

| Module | What it is |
|---|---|
| `LeasedTask` | the abstract promise of the job table: who holds a task, who works on it, who is late, which rest |
| `JobWorker`, `MCJobWorker`, `JobWorkerProofs` | the scheduler, its instance, its theorems |
| `Outbox`, `MCOutbox`, `OutboxProofs` | the outbox, its instance, its theorems |
| `HazardStore` | the two statements that write the table of events, as operators |
| `AemetSync`, `MCAemetSync`, `AemetSyncProofs` | the AEMET sync over `HazardStore` |
| `EffisSync`, `MCEffisSync`, `EffisSyncProofs` | the EFFIS sync over `HazardStore`; IGN is the case `Lasting = {}` |
| `Episodes`, `MCEpisodes`, `EpisodesProofs` | matching, its instance, its theorems |
| `Delivery`, `MCDelivery`, `DeliveryProofs` | delivery and the orders of the operator, its instance, its theorems |
| `EventRows` | the rows as their readers see them, errors, geometry as sets of points |
| `EventQueries` | the four routes of the events API as operators on a table |
| `HistoryQueries` | the queries of the analytics plane as operators on snapshots |
| `ReadSide`, `MCReadSide`, `ReadSideProofs` | export, analytics requests and a listing against a table that changes; its instance, its theorems |
| `SourceWatch`, `MCSourceWatch`, `SourceWatchProofs` | sync bookkeeping, rule of health and host check; its instance, its theorems |

A definition under a comment that begins with "Mutant:" is a mistake the code could have
made, kept next to the definition it would replace; `PROJECT.json` pairs each
with the property that finds it.

### JobWorker

One process is one worker. `pc` says which SQL statement comes next, so that
every interleaving of statements of two workers is a behaviour: `RecoverStaleJobs`,
`SelectDueJobs`, `BeginClaim` (where `lease_until` and the claim's instant are
computed), `Claim`, `EndHandler`, `Reschedule`, `EndPoll`, `Wake`. `StatementFails`
is a statement that raises, whether the database did it or not; `GoDown` is a
crash or `stop()` anywhere. Instants are kept as distances from the present and
`Tick` moves it; distances saturate where no comparison changes (`FarPast`, -1),
which makes the state space finite with no bound on time. `age[w]` is the time
since the worker computed its lease. A handler is bounded by `wait_for`; `Slack`
is what the statements around it and the cancellation may take on top. `Init`
admits rows left RUNNING without a lease, as the comment over
`_recover_stale_jobs` says a deploy may. Columns no step reads are left out.

The refinement: `owner` is `claimed_by`, `working` is the job of a worker in
`handle` or `reschedule`, `late` are those whose age exceeds the lease, and `resting` are
the jobs whose `next_run_at` is still to come. `LeasedTask` grants a task that nobody holds
and that does not rest, and a release lays one with an interval to rest: a claim that did not
test the status, or did not test `next_run_at`, is no step of it.

### Outbox

`Publish` is the insert with the commit of the domain transaction. A worker's
poll is `BatchSize` transactions: `SelectEvent` takes the first due row that is
not locked, `RunHandler` skips, succeeds or fails (and a failure may have done
its work, since handlers commit in sessions of their own), `Commit` records the
outcome while the lock is held. `CommitFails` is a rollback, or a commit whose reply
was lost; `ConnectionBreaks` frees the row while the handlers go on. `effects`
counts how often the work of a handler took effect. The jitter of the backoff is
the set `Backoff[n]`.

### HazardStore, AemetSync, EffisSync

A row is its end, its content and `written`, the mark of the batch that wrote it.
`Upsert` and `CloseEvents` are the two SQL statements with their WHERE clauses;
geometry, attributes and hash are one value `content`. A sync fetches with no
transaction open, so that the source may change afterwards, opens its transaction
(`BeginTransaction` takes `batch_at`), and commits rows, cursor, failure count and
event together. Time may pass between the two. `FetchFails` counts a failure in a
session of its own; `Abort` is a crash, a timeout or a database error, which
leaves nothing.

In `AemetSync` a bulletin is a function from identifiers to CAP messages with type,
sent, expires and references. Closes of several `sent` come in any order in the
code; what remains is the earliest. In `EffisSync` the ids in `Lasting` are burnt
areas, which stay open while served, the others are instants.

### Episodes

One subscription, whose filters the rows have passed. `Ingest` is the commit of
any sync. A dispatch is `Match` (the SELECT of the batch), `Lock` (`FOR UPDATE` on
the open episodes, which waits for the other process), and `Commit`, where every
group opens, escalates or touches an episode, or closes a stale one first. A
dispatch may roll back and start again at any moment, and any announced event may
be dispatched at any time after, again and again; the unique index turns a
concurrent open into a rollback. The `items` of a delivery are left out.

### Delivery

A run is `Claim`, one `Send`, `SendFails` or `SendSkipped` per subscription,
`BeginRecord` (the read of `mark_failed`) and `Record`. Matching inserts deliveries
in two steps, the read of the active subscriptions and the insert. A send that
fails may have arrived. `last_sent_at`, `failing_since` and `retry_at` are distances
that saturate at `Horizon`. A record that updates a subscription removed meanwhile fails
as a whole (`RowsMissing`). Modelling choices: pause and resume are each one
read and write, as their transaction is short; the run, being a job, is alone
(section 4); the purge of episodes is not modelled and any settled delivery may be
purged; attempts and last_error are left out, since nothing reads them.

### EventRows, EventQueries, HistoryQueries

Pure operators, one per function or SQL clause. A table is a function from ids to
rows; `Versions[s][v]` is the table of source `s` after `v` batches. A geometry is a
finite set of points in whole degrees. Distances are Euclidean and in metres, after a
projection that is linear, with its own number of metres to a degree of longitude
(`MetresPerLon`) and of latitude (`MetresPerLat`); they are kept squared, which
compares and orders alike. So boxes are in degrees and circles in metres, a box holds more
than the circle inside it, and the prefilter of `near` is the envelope in degrees of a
polygon in metres, as in the code. What the curvature of the projection does to that
envelope is not modelled; that its grid is turned is, by `BufferReach`: of a circle of radius
1000 the polygon of 32 sides that `ST_Buffer` draws reaches 1000 along an axis
through a corner and 995 along one through the middle of a side, and the hundredth that the
code adds must make up for the rest. A cursor is the
list that its JSON holds; `DecodeError` says what each malformed one raises. In
`HistoryQueries` a day is `HoursPerDay` instants and the local day is shifted by
`LocalOffset`, since the plane counts some things by civil day of Madrid and others by
month of UTC; areas are in hundredths of a hectare, rounded as the code rounds.

### ReadSide

`Ingest` is a commit of a sync with its event. An attempt at an event is `Dispatch`,
`ReadRows` (the SELECT, and the thread begins), and `Replace` (`os.replace` and the
commit) or `CommitLost`, `WriteFails`, `TimeOut`, after which the thread goes on by
itself until `LingeringReplace`, or `Crash`. Retry and backoff are the outbox's
business; events come in any order here. `alone` and `blurred` are history variables: they
mark a write that had another of its source at its side, and a file such a write last
replaced. A request is `Arrive` (parameters, the test that there is a file, a slot or a place
in the queue), `Acquire` or `Rejected`, a `Statement` per SQL statement, and `Answered` or
`QueryFails`. `floor` remembers what had been handled when it came. `ListFirst` and
`ListNext` are the pages of one client. `scene` chooses what runs
together: two workers with two analytics clients, or a listing against the clock and the batches.

### SourceWatch

One action per outcome of a sync: `Succeeds`, `FailsRecorded`, and `FailsUnrecorded`,
where the handler is cut before the driver gives up and nobody counts the failure.
`Alert` is a check of the script with something to say, up to the notifier's return, `Silent`
one without. The state file is written in a step of its own, `WriteRecord`, with the signature
and the instant of the check; between the two the sources and time move on, and the script may
die (`ScriptDies`), which leaves the file as it was, or empty when it had been opened. `record`
says what became of the record of the last alert. Scripts do not overlap: cron starts one
every 15 minutes at most. Ages saturate where no comparison changes. The signature is the set
of degraded sources.

## 3. What TLC checks

| Run | Properties | States | Question |
|---|---|---|---|
| `job_worker` | `AloneUnlessLate`, `ClaimEndsByOwnerOrExpiry`, `ImplementsLeasedTask`, `JobsKeepRunning` | 124,837 | Do leases exclude and fence, and does every job go on? |
| `outbox` | `ProcessedMeansHandled`, `DispatchedAlone`, `RepeatsAccounted`, `CompletedIsSkipped`, `EveryEventSettles` | 92,350 | Is nothing lost, little repeated and nothing stuck? |
| `aemet_sync` | `InForceIsServed`, `SupersededIsOver`, `EveryChangeAnnounced`, `WithdrawnIsOverInItsBatch`, `OnlySourceExtends` | 787,186 | Does the table follow the bulletins? |
| `effis_sync` | `OpenIsServed`, `EveryChangeAnnounced`, `NoChangePollIsNoOp`, `LayerIsTracked` | 214,968 | Does the table follow the layers? |
| `episodes` | `WhatMattersIsNotified`, `NoticesRise`, `EpisodesFollowExpiry` | 835,742 | Is everything notified, once? |
| `delivery` | `SentWasReceived`, `RepeatsAccounted`, `MessagesApart`, `PausedAfterSilence` | 1,372,357 | Are messages sent, apart, and repeated only after faults? |
| `delivery_live` | `PendingSettles` | 48,248 | Does every pending delivery come to an end? |
| `read_side` | `AnswersFresh`, `ListedOnce`, `ViewsAgree`, `HistoriesAgree` | 1,526,044 | Are readers given what was exported, every row once, and the same by every route? |
| `source_watch` | `OutageIsReported`, `OnlyNewsIsSent` | 1,460,718 | Is a source that stopped told to the operator, and nothing else? |
| `aemet_no_op`, `delivery_resume`, `episodes_late` | one each | | violated, see section 7 |

Each passing run but `delivery_live` also checks the `TypeOK` of its module, which
holds the structural facts the code relies on (a settled event has at most
`max_retries` retries, only the newest episode of a key is open, a subscription
that is gone has nothing pending, the slots of the limiter are those of the requests that
run, a claim and its lease come and go together, the state file, once written, is the
record of the last alert).

Bounds, and why they are enough:

- `job_worker`: two workers are all that two containers of a deploy are; the
  hazards are between two workers and one row. The lease is 2 and a worker may be
  inside a job for 3, so that it can outlive its lease, which the code allows
  when statements are slow. Two faults let a crash follow a lost reply. Time is
  not bounded.
- `outbox`: two retries reach every branch of the outcome; one fault puts a crash or
  a lost reply anywhere; `BatchSize = 1` still lets a poll end before the queue does.
  The ages of overdue events are not told apart here (`MaxOverdue = 0`).
- `aemet_sync`: the six bulletins hold each relation that matters (insert, revise,
  supersede, both present, cancel, vanish), in any order; five instants are enough for
  the expiry of each to pass before, between and after syncs.
- `effis_sync`: a fire that grows, one that comes and goes, one hotspot; three
  instants.
- `episodes`: two processes, two warnings of one phenomenon, a fire that grows twice,
  an earthquake revised; three instants with a batch in each, which is what a row rewritten
  between two events and then closed takes.
- `delivery`: one subscription with two deliveries, one with one; one order of the
  operator and one fault anywhere. `delivery_resume` allows two orders, pause and
  resume. `delivery_live` has a run take one subscription of the two (`Limit = 1`), so that
  one that always fails stands in the way of the other. Times are not bounded.
- `read_side`: two workers and one fault put a timed-out thread, a lost commit or a crash
  beside a second write of the same source; the IGN goes through two versions, the
  others through one. Two clients and one slot reach the queue and the 503. The table holds
  each case the queries tell apart: a fire over a province border, one closed, a hotspot,
  a quake with no province and one whose instant is revised to another's, warnings
  of every level that cross midnight and the turn of the year, one withdrawn before
  its onset. Days are two hours and months two days, so that a window of few instants
  crosses both. A degree is 3 metres of longitude or 4 of latitude, and the radii are 3 and 5,
  so that points lie at the radius, along either axis and between them (3, 4, 5), and in a
  corner of the box outside the circle; `BufferReach` is the worst, 995. The listing asks five questions with pages of one or two rows, while both
  batches of the IGN arrive.
- `source_watch`: two cadences, thresholds of one interval, two failures and two ticks,
  each of which is reached and passed. Nothing else is bounded; a script may die every time.

`delivery` is symmetric in the two deliveries of its first subscription, `read_side` in its
workers and its clients; neither checks liveness. No other run uses symmetry, since the
members of each set differ. Deadlock is checked in every run but `read_side`, where the
batches, the requests, the faults and the pages come to an end.

## 4. Fairness

- `JobWorker`: each loop is weakly fair, a process that is down starts again
  (`restart: unless-stopped`, `compose.yml` lines 12 and 97), and time passes. Crashes
  and failed statements are not fair; they are finitely many in one behaviour
  (`MaxFaults`), since a database that fails for ever runs nothing.
- `Outbox`: the same. No handler is assumed ever to succeed.
- `EffisSync`: the steps of the sync are weakly fair as one action, since the job
  runs again and again (`JobsKeepRunning`); the source owes nothing.
- `Delivery`: the run is weakly fair, for the same reason. Time is strongly fair:
  no transaction holds it back for ever, but one is open again and again. No
  message is assumed ever to be delivered.
- `SourceWatch`: time passes, and an alert that can be sent again and again is sent at last
  (strong fairness of `Alert(TRUE)`): cron runs the script for ever, and the notifier
  does not fail for ever. A script that has sent its alert ends, by writing its file or
  by dying. No sync is assumed ever to run, let alone to succeed.

## 5. What is proved

TLAPS checks these for every value of the constants that satisfies the named
`ASSUME`s of the modules; no assumption is made beyond them. They are types and bounds of the
settings, and facts of the program: tables are finite, as are the workers and the clients;
the registry lists a handler once per event type (`OutboxAssumption`); keys of matching are
of one source (`EpisodesAssumption`); no statement takes a row away, the rows that a source
writes are of its types and carry its attributes, and the provinces are finitely many
(`EventRowsAssumption`, which also has a degree of either kind a positive number of metres),
with no point in two of them (`HistoryQueriesAssumption`); `NULL` is no filter's key, cursor
or box and a buffer reaches 995 to 1000 thousandths of its radius (`EventQueriesAssumption`); and a client begins a listing with
no cursor, or with one that the API refuses (`ReadSideAssumption`).

- `JobWorkerProofs`: `TypeCorrect`; `LeasesAccounted`, the inductive invariant that a
  worker inside `_execute_job` is past its lease or its row is RUNNING in its name
  with exactly the rest of the lease, and that a PENDING row is nobody's;
  `RunsAloneUnlessLate` and `Fenced` from it; `ImplementsLeases`, the refinement,
  step by step, with the rest between two runs of a job; and `ValidatedLeaseExcludes`: with a lease of two handler timeouts, as
  `config.py` 132-138 demands, and `Slack` no longer than one more, a job never runs
  twice at a time. `AloneUnlessLate` is not inductive by itself: it says nothing of the
  row, and two workers are kept apart only through what the row says.
- `OutboxProofs`: `TypeCorrect`, `NothingLost`, `OneDispatchAtATime`,
  `SuccessNotRepeated`, `RepeatsArePaid`. The invariant says what a row lock means (its holder has the
  event in hand, the row is still PENDING, and `handler_state` is as the worker read
  it), that everything recorded as done, in a row or in a worker's hands, has taken
  effect, and that the handlers passed so far are all among the good and the bad: that
  is what makes PROCESSED mean every one of them. The proofs leave the number of
  retries, faults and workers open. `RepeatsAccounted` is not inductive: a worker that lost
  its row may still run its handler, long after the fault that freed it was counted. The
  account (`AccountBalances`) adds to the effects the workers that hold such a stale
  dispatch with the handler ahead of them, and to what is paid the run that the present
  attempt is due; that each side moves as the other does needs that the handlers a worker has passed
  are on record in its hands (`RanWasPassed`).
- `AemetSyncProofs`: `TypeCorrect`, `WithdrawnIsNotInForce`, `NoDoubleCounting`,
  `NoSilentChange`, `WithdrawnInItsBatch`, `WindowsOnlyShrink`. Its first lemmas say what the
  two statements leave of each row (`UpsertFacts`, `CloseFacts`, `CloseShortens`). `InForceIsServed` speaks of the present and is
  not inductive; the invariant states it at the mark of the last transaction
  (`WithdrawnIsOver`), from where only time passes until the next commit. `sent` of a
  message may be any instant, before or after ours. `WindowsOnlyShrink` rests on `Bounded`:
  no row of AEMET is open-ended, so that a close can only bring an end forward.
- `EffisSyncProofs`: `TypeCorrect`, `OpenMeansServed`, `NoSilentChange`,
  `SamePollIsNoOp`. That a poll of the same content is silent rests on the table
  already agreeing with the records of the last sync, which is in the invariant.
- `ReadSideProofs`: `TypeCorrect`, with the slots of the limiter, and `AnswersAreFresh`.
  `AnswersFresh` follows from what a file promises (`FileHoldsHandled`: it holds every
  batch handled, or several writes raced for it), and that is not inductive: a late thread
  could put back an older table. The invariant adds what a write that is alone promises,
  in a hand (`AloneHands`) or in a thread nobody waits for (`AloneThreads`): its rows are
  no older than what was handled, and no other write of its source is under way.
  `EveryRowIsListedOnce` is keyset pagination for any tables, filters and page sizes: the page
  is a prefix of a sequence that holds every row once (`NewestFacts`, by counting the rows
  before each), a row of the page and one left for later are told apart by the key of the
  last row (`ListPageFacts`), and the invariant (`ListingRight`) says of every row that
  stayed in place that it was given once, or not yet and lies after the cursor. Batches
  between two pages change the table; `SteadyBefore` says that a row steady now was steady
  before, at the same key.
  `HistoriesAlwaysAgree` and `ViewsAlwaysAgree` are facts of any table with well-formed rows;
  the types give that the versions a file holds, and the instant, are among those compared.
  `HistoriesAgree`: the sums are the folds of the library, whose function is a `CHOOSE`; that
  there is one (`FoldExists`) is an induction over the subsets of a finite set
  (`SubsetInduction`, stated of a set of sets and shown by a least counterexample, since the
  library's own takes an operator as a parameter). A sum over groups is then the sum over what
  was grouped (`SumByKey`, `CountByTwoKeys`), every event falls in one month of one year of
  either calendar, and the hectares of a year differ from those of its months by one rounding
  each (`CloseSums`). `ViewsAgree`: a page that everything fits in is the whole list
  (`WholeList`), in the order the query names (`OrderFacts`); what is within the radius is in the
  box of whole degrees around it and in the prefilter (`WithinBox`: 101 hundredths of 995
  thousandths of the radius are more than the radius), so that the nearest are exactly the rows
  of the list by that box that lie in the circle (`NearAgrees`); and the components of a finite set partition
  it whatever nearness is (`ComponentsAreParts`), so that the sizes of the clusters count
  every row of the list once (`PartsCountAll`, `ClustersAgree`). The table is any;
  the filters, points, radii and distances are those that the property names.
- `EpisodesProofs`: `TypeCorrect`, `NothingIsMissed`, `NoticesOnlyRise`, `EpisodesFollow`.
  A dispatch matches, locks and commits in three steps, between which batches arrive and
  the other process commits. `WhatMattersIsNotified` speaks only of processed events; the
  invariant says what a dispatch under way may rely on. What it matched still covers every
  row that its batch was the last to write (`DispatchKnown`: a later batch takes the row
  out of its hands), the episodes it locked are the open ones, as it read them
  (`LockedIsLast`), and an episode has notified its highest severity and is closed
  only for an expiry that some batch had passed (`EpisodesSound`).
- `SourceWatchProofs`: `TypeCorrect` and `SpeaksOnlyOfNews`. The script compares with its
  file, the property with what the operator was sent; the invariant is that the two are
  the same once the script has written. After a script that died they are not, and the property
  lets the next one speak.
- `DeliveryProofs`: `TypeCorrect`, `NothingSentInVain`, `RepeatsAreAccounted`,
  `MessagesAreApart`, `PausesAfterSilence`. The run carries what it claimed and what it
  sent from one transaction to the other, while matching and the operator change the
  rows; the invariant relates the two. The claims of a run are its own, each sent once at
  most (`RunKnown`); a streak of failures began after the last success, also in the row
  read to be recorded (`StreaksAfterSuccess`, without which a pause could come too soon);
  the one message more than the disturbances account for is in a delivery that is settled
  or that the run has sent and not recorded yet (`Accounted`); and, undisturbed,
  `last_sent_at` is no earlier than the last message (`SentOnRecord`). Both kinds of
  disturbance, faults and removals, are bounded only by `MaxFaults` and `MaxOrders`, which are any numbers.

Every invariant and every action property of a passing run is stated by a theorem. Only
model-checked: liveness (`JobsKeepRunning`, `EveryEventSettles`, `LayerIsTracked`,
`PendingSettles`, `OutageIsReported`), since the prover does neither fairness nor ENABLED.
The three counterexamples of section 7 are the runs' alone. No module has a recursive
operator.

## 6. Hazards

`PROJECT.json` lists what in this code a test would hardly reach, at its line, with
the properties that are for it. Those without a property are: a job that an old
container has no handler for (the guard says it all), an event that stays FAILED for good,
by design, the overlap of two syncs of one source (excluded by
`ValidatedLeaseExcludes` while statements are no slower than a handler's timeout), the
malformed CAP file whose warning is closed, the purge of episodes by cascade, and the snapshot
that a write given up by its timeout puts back in time, which the code allows (section 7).

## 7. Where the code and its documents disagree

- `aemet_no_op`. ADR-0008 line 34 calls a poll without change a true no-op. A bulletin
  that carries a warning and the Update that references it makes every poll reopen the
  row and close it again, and announce it.
- `delivery_resume`. `manage.py` line 126 says that what is pending expires with a pause,
  so that a resume sends nothing stale. A match that read the subscription active before
  the pause inserts its delivery after it; the resume sends it.
- `episodes_late`. ADR-0021 line 117 calls a late retry of an older event harmless. It
  judges a warning by the mark of its own batch, and notifies one that a later batch
  has withdrawn.

Smaller disagreements, met while modelling and too local for a run:

- `pagination.py` promises a `ValueError` for any corrupt cursor; one whose second
  element is a number raises `AttributeError`, a 500 (`DecodeError`, and `BadCursor` in
  `MCReadSide`).
- ADR-0006 line 21 calls the keyset stable under concurrent writes. It is for rows that
  keep their place, which is what `ListedOnce` says; a revision of `starts_at` may show a
  row twice or not at all.
- `export_geoparquet.py` line 6 and ADR-0007 line 18 call the handler idempotent under
  retries. A timeout cancels the handler and not its thread, which goes on with the rows it
  has: `ReadRows`, a second `Ingest`, `TimeOut`, a retry with its `Replace`, the `Replace` of the
  second event, and then `LingeringReplace` put the file back at the older table, with every event
  processed, until the source changes again. `AnswersFresh` excludes the files so written,
  by `blurred`.
- `history_since` of the zones speaks of all sources and ignores those without a snapshot.
- The HTTP timeouts of the AEMET and EFFIS drivers, 60 s, exceed the handler's 55 s: a
  source that hangs is degraded by staleness only (`FailsUnrecorded`).
- A notice of recovery that is lost is not repeated: a reminder is for open episodes
  (`OutageIsReported` says nothing of it). Nor is a recovery told when the script that told
  the outage died before it wrote its file, which still says ok.

## 8. Plan

Done: scheduler, outbox, syncs, matching and delivery; the export, the events API, the
analytics plane and the limiter; the health of the sources and the host check; the proofs of every
safety property. In order, what is left:

1. Proofs: what remains valid of `JobWorkerProofs!ValidatedLeaseExcludes` with statements
   slower than a handler's timeout.
2. `Pipeline`, composing the sync, the outbox and the handlers: what a commit of a
   source leads to, end to end; the abstract specification is a source, a table and a
   subscriber.
3. Two syncs of one source overlapping past a lost lease, over `AemetSync`.
4. The purge of episodes in `Delivery`; the rate limit by address.
5. The drivers: guards of the AEMET tar, skipped CAP files, the bounds of the other
   parsers and severity scales as operators checked over bounded inputs.

Not planned: the arithmetic of SQL geometry, which PostGIS and DuckDB compute; wording of
messages and the signatures of the channels; the one-shot commands of the operator beyond
their effects on subscriptions; the trigger that assigns provinces; startup, deployment,
backups and the base map.
