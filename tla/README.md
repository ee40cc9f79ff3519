# Verification of pufu-lens

TLA+ specifications of the concurrent parts of pufu-lens, the TLC runs that
check them on small instances, and TLAPS proofs of what holds for every size.
Paths below are relative to `src/`.

pufu-lens collects documents of a project from data sources, indexes them,
writes periodic reports with a language model and publishes reports, also to
the Fediverse (ActivityPub). All durable state is in PostgreSQL and an object
store. Work is done by web requests (`apps/web`, `apps/mastra`) and by one-shot
jobs (`scripts/`) that Cloud Scheduler starts every few minutes, possibly while an
earlier one is still alive. What keeps these apart is in the SQL: row locks,
leases with a worker token and an expiry, unique keys, guarded updates and
checkpoints. That is what is modelled here.

## Running it

    tlc -workers 2 -config DeliveryQueueLeases.cfg MCDeliveryQueue.tla
    tlapm DeliveryQueueProofs.tla

A cfg named after a module belongs to that module's `MC` module. `PROJECT.json`
lists the runs, the theorems, the source lines behind each definition, the
hazards and the findings.

## Inventory

| Component | State | Operations | Hard part | What makes it correct |
|---|---|---|---|---|
| Delivery queue (`packages/activitypub`: `queue.ts`, `postgres.ts`, `dispatcher.ts`, `delivery-*.ts`, `operations.ts`) | `activitypub_queue_messages` | enqueue, claim, heartbeat, deliver, finalize, requeue, discard | two runs on one row after a lost lease; order of a sequence across retries; a success that is recorded late, twice or not at all | fenced updates, lease cap, order per sequence, every message settles |
| Outbound activities (`postgres-dispatcher.ts`, `report-publication-outbox.ts`, `report-delivery.ts`) | outbound rows of `activitypub_activities`; reads follows, actors, instance configuration | publish, claim, materialize, record a failure | follows, actors and reports that change between the publication and its materialization; runs that lose their lease inside the transaction | messages and outcome together; the audience is that of the publication; every activity settles |
| Follow state machine (`follow-*.ts`) | `activitypub_follows` of two instances, receipts, queues | request, accept, undo, inbound activities | messages reordered, repeated and lost; several Follows of one actor | both sides agree once nothing is under way; no answer of an earlier Follow counts |
| Inbound federated reports (`inbound-report-use-cases.ts`, `federated-report-repository.ts`) | `federated_reports` | save for every project that follows | repeated handling while subscriptions change | saved for whoever follows all the while |
| Source sync schedules (`scripts/source-sync-dispatcher.ts`, `scripts/lib/source-sync-dispatcher.ts`, `data-source-schedules.ts`) | `data_source_schedules` | settings, claim, heartbeat, child process, outcome | heartbeats that are not awaited, a deadline that leaves a process running, a source that takes its job down | one run at a time per source, kept schedule, stale runs harmless, every due schedule gets its outcome |
| Collection (`packages/ingestion/src/*-source.ts`, `collection-pipeline.ts`, `collect-source.ts`) | `data_sources.last_sync_succeeded_at`, `raw_documents` | list by page, build, move the checkpoint, configure | lists that shift while they are read, limits, failed candidates, rival collectors | what is not stored is in the next scan |
| Document pipeline (`collect-source.ts`, `parse-raw-documents.ts`, `chunk-and-embed.ts`, `index-graph-relations.ts`, `ingest-workflow.ts`, `admin-data-source-actions.ts`) | `raw_documents`, `ingestion_queue`, `documents`, `document_chunks`, parsed artifacts | collect, parse, chunk, index, retry, reprocess | four kinds of process without a common lock, late workers, operators in between, versions that share an object | nothing stranded, the document goes forward, its chunks are its own, it follows the source |
| Report schedules (`scripts/report-schedule-dispatcher.ts`, `apps/web/src/report-schedule-*.ts`, `report-generation.ts`) | `project_report_schedules`, `report_schedule_period_runs`, `reports` | save settings, materialize due slots, claim, generate, record, delete a report | settings saved under a running dispatcher, runs that die between two inserts, stale runs | no slot lost, `next_run_at` goes forward, periods in order, success has a report, every period run ends |
| Local actors and keys (`actor-*.ts`, `key-encryption.ts`) | actors | get or create | two first requests | one actor per project |
| Dispatcher start routes (`apps/mastra/src/*-dispatcher-route.ts`) | Cloud Run executions | list, start | check, then start, by two requests | leases tolerate it |
| Publication artifacts (`report-publication.ts`, `report.ts`, `admin-project-actions.ts`) | public objects, `is_public` | publish, revoke, change visibility | two stores without a common transaction | nothing public of a private report |
| Graph index and its transition (`packages/graph`) | graph tables, shadow store | write both, read with fallback | timeout racing an answer | primary authoritative |
| Migrations (`scripts/db-migrate.ts`) | `schema_migrations` | apply | a crash between statement and record | each applied once or repeatable |
| Project deletion, membership, actor merge | database, object store | one transaction each | partial failure of the object store | repeating completes it |
| Retrieval, storage, tenancy; chat, authentication, PDF, UI; workers spike, infra | none of their own | queries, rendering, configuration | - | - |

Interactions. Follow management, report publication and the inbox handler
*enqueue* into the delivery queue in their own transactions; dispatcher runs
*claim* from it. A scheduled report of a public project is *published*, which
records outbound activities that the ActivityPub dispatcher *materializes* into
queue messages. A source schedule *starts* a collection, which stores versions and
moves the checkpoint of its source; what it stores *enters* the document pipeline.
No two components share memory; what they share are the tables named above.

The modules meet where the code's components do: `OutboundActivities` ends where
`DeliveryQueue` begins (a queue row), `FollowHandshake` takes from `DeliveryQueue`
that order holds within a key and that every message settles, `SourceSync` treats as
one sync what `SourceCollection` and `DocumentPipeline` do inside, and
`SourceCollection`'s "stored" is the row with which `DocumentPipeline` begins.

## Modules

| Module | What it is |
|---|---|
| `OrderedDelivery` | what the queue promises: an abstract specification without leases, retries and workers |
| `DeliveryQueue` | the queue as the code runs it; refines `OrderedDelivery` |
| `OutboundActivities` | a report's Create and Announce, from its publication to the queue |
| `FollowHandshake` | local actors who follow an actor of another instance, and its reports |
| `SourceSync` | the daily schedules of data sources and the runs that work on them |
| `SourceCollection` | what the checkpoint of a data source promises |
| `DocumentPipeline` | one document from its source to its chunks and graph relations |
| `ReportSchedule` | the periodic reports of one project |
| `MC...` | the instances of each of them for TLC |
| `...Proofs` | theorems about each of them; `DeliveryOrderProofs` has the order and the refinement of the queue |

In the modules a definition that stands just before another and has its name with a
qualifier (`WaitsForOlderOpen` before `WaitsForOlder`) is a faulty variant. Nothing
uses it; putting it in place of the real one makes the property named with it in
`PROJECT.json` ("mutants") fail, which shows that the property watches that code.

### DeliveryQueue

`row` is the table `activitypub_queue_messages`; messages are numbered in the order
(`created_at`, `id`) by which the code compares them. `worker` is what each
dispatcher run has in hand: the claimed message, the attempt, and the heartbeat
between its read and its write. `posted` and `accepted` are history: what was sent,
and what a receiver took.

Time is kept as countdowns (what is left of a delay, of a lease; the age of an
attempt), so no clock needs a bound. One SQL statement or transaction is one
action:

- `EnqueueBegin`, `EnqueueCommit`: the order is fixed when the transaction begins
  (`created_at` is `now()`), the row is visible when it commits.
- `Claim`: the whole claim transaction with the recovery of expired leases, the
  candidate query (`Scan`, limited, skipping locked rows), the ordering gate for
  each candidate, the terminalization of those the gate gives up, and the second
  scan of the other queue kind when the first yields nothing.
- `HeartbeatRead`, `HeartbeatWrite`, `HeartbeatError`: two statements; the extension
  is computed from what the first returned.
- `Deliver`, `StopHeartbeat`: the request ends, then the heartbeat is awaited.
- `Finalize`, `FinalizeError`: the guarded update; the error may come before or
  after it took effect, and then the failure is recorded in its turn.
- `Crash`; `Requeue` and `Discard` of `operations.ts`; `Tick`.

Recovery does not compare the attempts with `DISPATCHER_MAX_ATTEMPTS`, only the
recording of a failure does: an attempt that ends by losing its lease is not held
against the limit.

The HTTP request and its classification are an input with three outcomes. Message
bodies, signatures and audit rows are left out.

### OutboundActivities

`activity` holds the two outbound rows a report can have, `run` what each dispatcher
run has in hand, `queue` the outbox messages by their `dedupe_key` (activity and
inbox; once written they are the rows of `DeliveryQueue`). `site`, `report` and
`follow` are what other parts of the application change meanwhile: visibility,
enabled actors, the instance's representation and its lock, the report's flags, and
`accepted_at` and `undone_at` of the follow rows. `following` (history) is who
followed when an activity was recorded; it is taken from the rows' state, not from
the timestamp comparison the dispatcher uses later.

- `Publish`: the transaction of `enqueueReportPublicationOutbox` with the insertions
  that find an older row (ON CONFLICT DO NOTHING) and the trigger that locks the
  representation. `Withdraw`, `SetVisible`, `EnableActor`, `DisableActor`,
  `SetRepresentation`, `AcceptFollow`, `UndoFollow`: one transaction each.
- `Claim`: recovery of lapsed leases, then one due row. Recovery waits while a
  transaction holds a lapsed row.
- `Open`, `ReadActors`, `ReadAudience`, `Commit`: the materializing transaction in the
  steps at which it reads what others change. It runs at READ COMMITTED, so each
  statement sees another state. `Break` is an error in it; `RecordFailure` the guarded
  update that follows. Withdrawn, disabled and reconfigured are final
  (`hopeless`), other errors are retried up to the limit.
- `Crash`, `Lapse`, `BecomeDue`.

Timestamps are compared only between publications and follow changes; `now` counts
those and gives each its own. A publication carries the time of its transaction:
the web process reads its clock a moment before, so a follow change inside that
moment counts as later than the publication. Leases and retry delays
have no length, as in `ReportSchedule`. Receipts and Accepts of Follows, an Undo that
comes before its Follow, and repeated Follows with one id leave the two timestamps
alone and are in `FollowHandshake`. Locking of the representation by outbound rows of
other reports only removes behaviours.

### FollowHandshake

Local actors follow one actor of a peer that runs the same code. `outbound` and
`inbound` are the two sides' rows in `activitypub_follows`; `id` numbers the Follows of
an actor, each of which has a `follow_activity_uri` of its own. `outbox`, `inbox` and
`lost` are where Follow, Undo and Accept messages are, `receipts` the recorded
`activity_uri`s, `posts` and `saved` the peer's reports. `late` (history) names the
actors whose row a late Follow took back.

- `RequestFollow`, `RequestUndo`: the row and its message in one transaction. Whether the
  actor is enabled is looked at before it begins, so it is no guard of the step.
- `SetEnabled`: the project's administrator turns federation off and on. A disabled actor
  is not found by those who would verify its messages or answer it (`Hidden`), so these
  may be lost without a fault.
- `Deliver`, `Exhaust`: order is kept within an ordering key only (a Follow and its
  Undo), and a Follow that failed takes its Undo with it, as `DeliveryQueue` does.
- `HandleFollow`, `HandleUndo`, `HandleAccept`: the handlers' transactions with their
  receipts; each may be handled again (the worker dies before it can say so).
- `Ignore`, `LoseReport`: handled without effect, or attempts spent.
- `Publish`, `DeliverReport`, `HandleReport`: a report goes to the shared inbox once
  and is saved for every actor that is enabled and whose row is accepted (`Subscribers`).
  The code can restrict this to one recipient, which only happens to what comes to an
  actor's own inbox. Instances of this code offer a shared inbox (`federation.ts:134`) and
  send to it (`report-delivery.ts:114`), so between them there is no recipient. A peer
  without a shared inbox is not in the model.

A peer running other software is not in the model, and neither is the status `rejected`,
which no statement sets. The content of a report is a model value.

### SourceSync

`row` is `data_source_schedules`. Dates are kept relative to now, so that time has
no bound; a tick is the interval of Cloud Scheduler (5 minutes). `enabled` stands
for the schedule's and the source's flag together. A worker token is the run that
made it: a run has one token for all its targets, and `claim` tells them apart.

- `Save`: the settings, which compute the next run and leave the lease alone.
- `Start`, `Claim` (the schedule due longest), `Finish`: `dispatchDueSourceSyncs`.
- `Beat`, `BeatAnswered`, `BeatFailed`: the heartbeat is not awaited, so its
  answer may come when the run is at its next target.
- `SyncEnds`, `RuntimeExceeded`, `LeaseLost`: the sync ends, or the deadline or a lost
  lease sends SIGTERM to its child process and the run goes on at once.
- `Record`, `RecordFails`: the guarded outcome; a success that throws, whether it
  committed or not, is followed by a failure.
- `Crash`, `Stall` (statements take longer than a tick), `Tick`.

The module is about runs, not about all processes they start. SIGTERM ends
`collect-source` or `ingest-workflow`, but `ingest-workflow` starts its parsing, chunking
and indexing as processes of its own and hands no signal on (`ingest-workflow.ts:858`):
the one at work goes on for as long as it takes, possibly beside the retry of its source.
`OneRunAtATime` therefore says nothing about these. They have no part in the schedule;
what several parsers, chunkers or indexers do side by side is in `DocumentPipeline`,
whose processes may be started by anybody at any time.

Inside a tick a run that works sends its heartbeat and statements are answered;
whatever takes longer is a fault and is charged. A *heavy* source takes the whole job
down with it, and that is not charged: `EventuallyRun` shows what it does to the others.

### SourceCollection

`at` is when each item of the service changed last, `stored` the items whose present
version has its row, `synced` the checkpoint, `scope` what the configuration
selects (repositories, folders, labels). `passed` (history) are the items a checkpoint
went past in one of the ways described below.

- `Start` reads source and checkpoint (`findDataSources`, `incrementalScanSince`).
- `ListPage` is one request and its evaluation: pages are cut from the list as it
  is at that moment, newest first, so a change between two pages shifts it. Pull
  requests, issues, Drive files and Gmail threads differ in how a list ends, whether
  the limit is applied per request, and whether an item listed twice counts twice.
- `Build`, `BuildFails`, `Complete`, `Stop`; `SaveConfiguration`, `Change`, `Tick`.

No two changes share an instant, threads go by their newest message, and candidates
are built in any order. One data source is collected per call; the limit, which
the code shares between several, is its remainder.

`NothingMissed` says that what the source selects and the database does not have in
its present version is in the next scan or in `passed`. These are the ways into
`passed`, all in the code as it is:

- a scan that takes longer than the five minutes of overlap: the checkpoint is the
  time of its completion (`collect-source.ts:387`), so an item that changed after its
  page was listed is older than the next scan's start (`Overtaken`);
- a list that is cut and does not count as truncated: issues have one page only, pull
  requests at most 500, and a pull request that shifted onto two pages fills the
  limit twice but is one candidate (`Overlooked`);
- a configuration that selects more than before while the checkpoint stays.

### DocumentPipeline

`raw` is `raw_documents` with one row for each version, `queue` `ingestion_queue`, `stored`
the parsed artifacts, `doc` the document and the text its chunks were cut from, `lock`
the row lock of the chunkers' transaction. Chunks and artifacts are the text they hold;
`Text` says what a version parsed by a parser version reads like. `taken` (history) are
the versions that were processable and were taken back.

An artifact is put at a path made of the version's `source_id`, lower-cased, with other
characters replaced, and cut after 160 characters (`normalizeStorageSegment`). The
`source_id` of a page is its URL and then the hash of its content, so the versions of a
page with a long URL have one path, and the artifact there is that of whichever was
parsed last. `object` says which version goes to which object and `Layouts` which such
maps are possible; it is fixed from the start, as the path depends on the version only.
Raw objects carry a hash in their path and are not shared. That paths of *different*
documents coincide is not modelled: it takes two documents, and this is one.

- `Scan`, `Upsert`, `QueueCandidate`: two statements after the look-up.
- `Dequeue` (a batch, with leases), `Begin`, `Put`, `MarkParsed`, `MarkFailed`, `MarkHeld`:
  the artifact is put before the rows are updated, under the attempts count of the
  dequeue. Parsers do not renew their leases; `LeaseLapses` under a live one is a fault.
- `ReadTarget` (the row and the object at its path), `UpsertDocument`,
  `ListCurrentChunks`, `Lock`, `Commit`: the chunks are compared before the
  transaction that locks the document and looks again whether the version is the
  latest.
- `ReadGraphTarget`, `StoreGraph`, `GraphFails`: one transaction, or the version is
  marked failed. The indexer also takes indexed documents that lack an edge to another
  one, so any document with a processable version may be taken at any time.
- `RetrySelects` and `RetryUpdates`, `AdminRetries` and `AdminCommits`, `Promote`,
  `Reprocess`: operators. `ingest:retry` is one statement, but it updates by id what its
  snapshot had, without looking at the status again; the administrator's retry selects
  failed rows once per statement. So both are two steps. `Reprocess` is one: its selection
  locks the queue rows (FOR UPDATE SKIP LOCKED).
- every process may stop at any point.

### ReportSchedule

`sched` is the project's row of `project_report_schedules`, `runs` the rows of
`report_schedule_period_runs` by frequency and period, `reports` the period runs
whose report exists, `worker` the dispatcher runs, `since` (history) the slot the
schedule began with when it was last saved.

`now` counts instants. A frequency's periods begin at the multiples of its `Step`,
its slots come `RunTime` later (10:00 of the first day), and slot k stands for the
period before it. That keeps what the calendar functions do (next slot strictly
after an instant, due slots oldest first and limited, the aggregated backfill up to
the current period) and drops the lengths of months. Leases and retry delays are
minutes and hours against weeks, so they have no length: a lease is live or has
run out, a retry is due or not, at any time. A heartbeat is then the lease not
running out yet; its cap of an hour is why it may run out under a live run.

- `Save`: the transaction of the settings page with the reset of the lease, the new
  `next_run_at` and the backfill row.
- `StartRun`, `ClaimSchedule`, `InsertPeriod` (one statement per period),
  `ReleaseSchedule` (guarded; a run that lost the schedule ends with an error),
  `MaterializedAll`: `materializeDue`.
- `ClaimRun`: the claim with its NOT EXISTS over older periods; `StopRun` ends the loop.
- `Generate`: no documents, a report, or a failure before or after the report row
  was inserted; a report that an earlier attempt inserted is used again
  (ON CONFLICT on the period run).
- `Record`: `markSucceeded`, `markSkipped`, `markFailed` with their guard; a report
  deleted in between turns success into a failure (foreign key of `report_id`).
  `Abandon`: a late or failed heartbeat keeps the outcome from being recorded.
- `DeleteReport`, `Crash`, and the passing of time.

Abstracted: a run whose time limit is exceeded records a failure while the
generation it no longer waits for may still insert a report; the model lets a
failed generation insert it at once. A dispatcher run whose materialization alone
exceeds its time limit claims nothing; the model lets it work on one period run.

## Runs

| Run | Question | Bounds, and why they are enough |
|---|---|---|
| `queue_leases` | can a worker that lost its lease do harm; do leases, retries and the order keep; does the queue implement `OrderedDelivery`; does every message settle | 2 workers, 2 messages of one sequence, lease 2 of at most 3 ticks, 2 attempts, 1 fault, 1 requeue, candidate query of 1 row, a Retry-After longer than the backoff: a message can be claimed by a second worker while the first is alive, extended to the cap, exhausted, and put back |
| `outbound_runs` | can crashed or stale runs do harm; is every activity settled | 2 runs, 2 activities, 2 attempts, 1 fault, 1 timestamp to give out, to a publication (or to a follow, and nothing is published): a run crashes or loses its lease at each step of its transaction while the other recovers the row, and the settings change in between. Who receives is asked in the next run, and the proof that stale runs are harmless covers both together |
| `outbound_audience` | is the audience that of the publication, also behind a shared inbox; does publishing again leave alone what is settled | 1 run, 2 followers of two actors, 1 inbox, 4 timestamps to give out: follow, publish, unfollow or follow anew, publish again |
| `follows` | do both sides agree in the end; is every request answered and every report saved | 1 actor that follows twice and is disabled and enabled at any moment, 1 report, 2 faults: an Undo before its Follow, an Accept after the Undo, messages of two generations under way, one of them handled twice or lost |
| `sync_leases` | is one run at a time at work on a source; can a stale run do harm | 2 runs, 2 schedules, lease 2 of at most 3 ticks, deadline 2, 1 retry, 1 fault, or none (the exclusion is stated for none) |
| `sync_settings` | does a schedule keep its time; does it get its outcome beside a source that takes jobs down | 2 schedules, one of them heavy, 2 daily times in a day of 3 ticks, 2 runs with one claim each, 1 save |
| `collection` | is anything missed that no named way passes over | a source of each kind, 2 collectors, 2 items, pages of one item, limits none and 1, overlap 1, 3 instants, 1 change of a configuration that selects nothing at first (before a scan, during one or after it), 1 fault: an item shifts between two pages, a list is cut by the limit or by the maximum, one scan outlasts the overlap while another completes |
| `pipeline` | is anything left where nothing takes it up; do late workers put the document back or mix its chunks | 2 versions with an object each, 2 parser versions, 1 collector, 2 parsers, 2 chunkers, 1 indexer; 1 fault and 1 command, or no fault and 2 commands (another parser version and the reprocessing it calls for). With two versions in one object every text would do for `ChunksOfDocument`, so the run keeps them apart; `ChunksAlwaysFit` is for every layout |
| `pipeline_liveness` | does the index follow the source | objects apart and shared, 1 of each process, 1 requeue; 1 fault, or no fault and 2 commands. Commands around a fault take versions back and are in `pipeline` |
| `pipeline_reverted` (violation) | does it follow a source that goes back | no fault, no command |
| `report_periods` | is no slot lost, are periods reported in order, what do saves and stale runs break | 2 frequencies, a history of one period, three instants to come, 2 saves (so at most one first activation), 2 workers, 1 fault, 1 retry |
| `report_liveness` | do slots and period runs get done | 1 worker, 2 saves, 1 fault, 1 retry |

Two workers suffice for the interleavings meant here: every guard compares a row
with one token, so a third party acts either as the holder or as a stale run. The
proofs, which fix no number, confirm it for what they cover. Symmetry of workers (and
of items) is used only where no liveness is checked. Deadlock is checked in every run but those of
the pipeline and of the follows, where the budgets of changes and requests are spent
at last and nothing is left to do.

### What the violation shows

`DocumentFollowsSource` with a source that goes back. Whether a version is known is
asked of all rows (`lookupRawDocumentVersion`), while the plan (`docs/plans/013-incremental-source-sync-scheduling/overview.md:24`)
asks the latest one. The version of a web page is the hash of its content, so a page
that returns to an earlier content is known, its old row keeps its place, and the
content in between stays the document's, although search is to refer to the latest
version only (overview.md:105).

### Known limits

The properties say in their conditions where the code stops short. These are the
places a reviewer should know:

- Order per sequence needs one enqueue transaction at a time (`Writers = 1`):
  `created_at` is the start of the transaction, so with two an older row can become
  visible after a younger one was claimed.
- A follower that sends a new Follow between the publication and its materialization
  gets a later `accepted_at` and is passed over (`AudienceReached`). Create and Announce
  are materialized with the actors enabled at the time of each, so if the project
  actor is disabled in between, the Announce also goes to those who got the Create.
- A Follow that is handled after what came later takes the peer's row back, and
  nothing repairs it (`late` in `FollowsAgreeInOrder`).
- A schedule that is saved a second time while a run inserts its periods can have a
  later period claimed first, and one turned off and on again before its first report
  gets a second backfill that overlaps the first; `LaterPeriodsWait` is stated for one save.
- What takes its run down each time is attempted without end: neither the queue's
  recovery nor the claim of a period counts a lost lease as a failure.
- An index failure, a retry or a reprocessing of the newest version puts the document
  back to an older one that is still processable (`taken` in `DocumentForward`).
- A crash between the row of a version and its queue row strands the version, as does
  an administrator's retry around a version that is held in that moment
  (`NothingStranded` counts them).
- Versions of a page with a long URL share one parsed artifact: the chunks of a version
  may be the text of another one that was parsed later, and without any fault stay so
  (`TextsOf` in `ChunksOfDocument` and `DocumentFollowsSource`).
- A version that the indexer marked indexed after its chunker failed has no chunks until
  a batch gets to it; a batch takes what is parsed first, then what was parsed
  longest ago, and nothing moves on in that order (`Unchunked`).
- What `ingest-workflow` has started goes on when `ingest-workflow` is ended: the
  operations guide (`docs/operations/source-sync-scheduling.md:63`) says that it is stopped.
- The ways in which a checkpoint passes over an item, above. `collect:source` has a limit
  of 100 candidates, known ones included (`collect-source.ts:31`): a source with more
  changes than that since its checkpoint never moves it, lists the same newest ones
  each time, and does not get to the older ones.

## Fairness

`DeliveryQueue`: time passes and open transactions end; some dispatcher run is
started again and again and claims (Cloud Scheduler); a run that is alive goes on,
because every request has a timeout and every statement returns. A claim that
yields nothing because the rows are locked by another claim is not enough to make
progress, so fairness is on the claim with no lock in the way. Crashes, errors and
losses of a live lease are never fair and their number is bounded by `MaxFaults`.

`OutboundActivities`: a scheduled run always comes and a started one goes on; a
lease nobody works under runs out; retries come due. Followers, administrators and
publications are not fair, errors neither, so `Break` need not end and the retry
limit is what settles an activity.

`FollowHandshake`: what can be delivered or handled is, or is given up, which is what
`DeliveryQueue` promises of its messages. Requests, publications and the enabling of
actors are not fair.

`SourceSync`: time passes, statements are answered, a run that is alive goes on, and a tick includes the start of a run. A sync ends somehow, its
success is not promised. Crashes by heavy sources are neither fair nor bounded.

`DocumentPipeline`: every process is started again and goes on; leases of dead
parsers run out; an open transaction of the administrator commits. Strong fairness
is on what rivals can disable again and again: dequeuing a version and passing the
document's lock. Chunkers are fair to what is *parsed* (`ReadParsed`): the drain goes on
until no such version is left. That an indexed version is read again is not assumed,
because its batch is limited and may never reach it. Assumed is that no other
document stands in the way for good: an error while one is chunked ends the batch
(`chunk-embedding.ts:171`), so a document that fails each time and comes first holds up
those behind it. Indexers, operators and the source are not fair.

`ReportSchedule`: leases of dead runs run out, retries come due, and each step of a
run that is alive is weakly fair. Saving, deleting and the calendar are not.

## Proofs

`TypeOK` is never inductive by itself; each module has an invariant that is. They
were checked with TLC before they were proved.

`LeaseInv` (`DeliveryQueueProofs`). The lease cap depends on a heartbeat between
its two statements: what it will write was computed from an older age. The
strengthening is that the extension in flight plus the age the attempt has *now*
stays within the cap while the worker still holds the row (`ExtensionFits`), next
to the fields of unleased rows and the fact that a worker about to record
success saw an acceptance (`OutcomeAccepted`). Its consequences: `TypeOK`,
`LeaseFields`, `LeaseCapped`, `SucceededWasAccepted`, and the action properties
`StaleWorkerHarmless` and `TerminalIsFinal`. The steps of a row are enumerated once
(`RowStep`), and the action properties read them off.

How many workers have a message in hand is a second layer. `HandInv`: an idle worker has
nothing in hand, no lease is longer than `Lease`, and a heartbeat between its read and
its write does not shorten the lease it extends. Then a step adds to the workers that
hold a message without its lease (`Stale`) at most one, and only if it is a fault
(`StaleEffects`), so they are at most the faults (`StaleCharged`). One more may hold the
message with its lease, because a row has one token: `ExclusiveUnlessFault`.

`OrderInv` (`DeliveryOrderProofs`), under `Writers = 1`, adds to `LeaseInv` that no
later message of a sequence exists while an enqueue is open, and that what is in a
worker's hands or was sent has delivered predecessors. It gives
`DeliveredInOrder` and, step by step, the refinement of `OrderedDelivery`
(`QueueImplementsOrderedDelivery`).

`OutboundInv` (`OutboundActivitiesProofs`). The properties compare the queue with who
followed at the publication, while the code reads the rows of now. `HistoryOK` links
the two: a row that passes `wasFollowAcceptedAt` belongs to somebody who followed
then, and only a row with a later `accepted_at` hides one; it survives every follow
change because these carry times later than any publication (`FollowOK`, `RowOK`).
`HandOK` carries it into what a run has read, through the steps of its transaction
(`RecipientsRight`), and the commit hands it to the queue. Consequences: `TypeOK`,
`QueuedIsProcessed`, `NoLateFollower`, `AudienceReached`, `RepresentationKept`, and the
action properties `SettledIsFinal` and `StaleRunHarmless`.

`IInv` of `FollowHandshakeProofs`. Agreement is about what is *not* under way, so the
invariant accounts for every message: each generation's Follow, and its Undo if it has
one, is in the outbox, the inbox, the receipts or lost (`AllSent`), nothing else is
(`SentForReason`), the peer's row stands for the last message it goes back to (`PeerRow`),
and the answer to a pending row is on its way once the peer has accepted (`Answered`).
When nothing is under way all of it is in the receipts, and the two rows follow.
Consequences: `TypeOK`, `FollowsAgreeInOrder`, `AcceptedByPeer`, and `UndoneForGood`.

`IInv` of `SourceSyncProofs`. The sound part (`LeasePair`, `Targets`, `BeatsKnown`) says that
a heartbeat on its way belongs to a run that is alive and, if it is for the claim the
run works on, to its target; it gives `TypeOK`, `OnSchedule` and `StaleSyncHarmless`. The part
without faults (`Unharmed`) says that a run that works holds a live lease which its
heartbeats have extended up to the cap (`Keeps`), which is later than the deadline. Then
two runs at work on one source would both be its token: `OneRunAtATime`.

`IInv` of `SourceCollectionProofs`. What a collector has to find is what was there when it
started and is missing still (`Pending`). It looks for all of it (`Sought`); while it lists,
each such item is in the list so far or behind the pages read (`Ahead`), because an item
that changes moves others back and never forward; and once it builds, the item is yet
to be built, or something failed, or the list was full (`Remaining`): a slice shorter
than what matches means that the list has as many as it may. With `SeenSound` (what is
listed is the present version of what has not changed since the start) a completed
scan leaves nothing behind. Consequences: `TypeOK`, `NothingMissed`.

`DocumentPipelineProofs` has its invariant in layers, so that each lemma takes what it
needs. `Rows`: what refers to a version refers to a row that is there, and its place in
the order never changes. `ArtifactFirst`: a parser that is past its put has an artifact.
`DocInv`: a chunker that writes holds the document's lock and is not older than what the
document has, unless that was taken back. `ChunksFit`: what is stored at an object is the
text of a version that has the object; and chunks judged equal are such texts of the
version in hand as long as nothing was taken back, because only a version at
least as new can have replaced them. Consequences: `TypeOK`, `ProcessableHasArtifact`,
`DocumentForward`, `ChunksOfDocument`, for every layout, and `ChunksAlwaysOwn`: where no
other version has the object, the chunks are that version's own.

`NothingStranded` counts versions against failures and commands, and a stranded version
is the end of a longer story, so the count is of all that are stranded or on the way
there (`Owed`): inserted and not queued, held (a retry around it may miss its queue
row), or sent back to the parser under a chunker, an indexer or a retry at work.
`Fitting` is what keeps the others off that way: a row and its queue row go together,
what the administrator's transaction has locked is still to be parsed, and what is in hand was
queued. Then each step leaves the owed versions as they are (`Free`), or adds at most
one and is itself a failure or a command (`Charged`). Hence `OwedCharged`, which
bounds the stranded.

`ScheduleInv` (`ReportScheduleProofs`). That no slot is lost depends on what a
materializing run has promised: while the schedule has its token, every slot up
to the one it will release it with has its row or is still in its list
(`TodoCovers`). A run that lost the schedule has promised nothing, and its release
is refused. The calendar enters through `SlotIsDue`: a slot that has come lies
before the next one and its period has begun. Consequences: `TypeOK`, `NoSlotLost`,
`SucceededHasReport`, `NextRunForward`, `StaleRunHarmless`.

`LaterPeriodsWait` needs more than the guard of a claim: the claim looks at the older rows
that are there, so none may appear later. `OrderInv` says why none does while the
schedule is saved once. Before the save there are no rows and no run has slots to
insert. After it the slots' rows grow without gaps: what is there has all its
predecessors (`NoGap`), and what a run has still to insert has them there or in the same
list (`TodoOrdered`), whose least is inserted first. The backfill of the save is older
than every slot, and the schedule never goes back behind its first one
(`since <= sched.next`).

The proofs assume the named ASSUMEs of the modules only: finite sets of messages and
items, leases not above their caps, `RunTime` shorter than a period, a deadline below
the cap of the lease, a NULL that is nothing else, sane bounds.

Every invariant and every action property that a passing run checks is stated by a
theorem. Only model-checked: liveness (`EventuallySettled` of both modules,
`EventuallyMaterialized`, `EventuallyFinished`, `EventuallyRun`, `EventuallyAnswered`,
`EventuallySaved`, `DocumentFollowsSource`), which needs ENABLED. What the run
`pipeline_reverted` refutes is a claim of the documentation and has no theorem.

## Plan

What is left, in the order of its weight:

1. `SourceCollection` further: linked issues and the reconciliation of GitHub lifecycles
   (`github-source.ts`), several data sources under one limit.
2. Composition: `OutboundActivities`' queue as messages of `OrderedDelivery`, and
   `FollowHandshake`'s outbox as an instance of it.
3. Deletion of a data source or a project under running collectors and parsers.

## Not modelled

- Publication artifacts: the pages read the database, and the objects are kept for
  compatibility (`docs/designs/system/08-reporting.md:325`), so no behaviour of the
  application depends on their order.
- Graph transition: its modes are configuration of a deployment; what an indexer
  writes is in `DocumentPipeline`.
- Migrations are run by one operator before the application is deployed.
- Start routes: the dispatchers' models allow any number of runs at any time, so
  nothing rests on the check before the start.
- Membership, actor merge, project deletion: one transaction each, and a best-effort
  deletion of objects after it. Local actors are one insert-or-read.
- Retrieval and scoring, the storage client and the tenancy predicates keep no state.
  Chat, authentication, PDF export and the UI keep theirs in the components above, and
  most of the repository's lines are theirs. The HTML sanitizer and the protocol parsers
  are pure conversions on text. `packages/workers-spike` is an experiment without
  users, `infra` is configuration apart from the migrations whose constraints the
  models use.
- Web pages are collected in one pass without a checkpoint; their versions are in
  `DocumentPipeline`.
