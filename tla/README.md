# Verification of WEF's ingestion and curation

WEF turns the posts of a Telegram channel of real-estate listings into a public
catalog. Posts arrive as callbacks, by polling, by a sweep over known ids, from
archived originals and from exports; all of them end in the same few PostgreSQL
tables. What the parser made of a post is then improved by machines that work
unattended: an AI proposes listings that the parser missed and fills fields it
left empty, a new parser replays old posts, stored locations are looked up again
and albums are downloaded. This directory holds TLA+ models of the ingestion and
of these machines, the TLC configurations that check them and TLAPS proofs about
them. Paths below are relative to `src/apps/backend/src/wef_backend/`;
`ingestion/` stands for `features/ingestion/` and `admin/` for `features/admin/`.

## 1. Inventory

### The parts, their state and operations

| Part | State | Operations | Correct when |
|---|---|---|---|
| Canonical source records (`ingestion/infrastructure/persistence_adapter.py`, `archive_evidence.py`) | `source_messages` with revisions, tombstones, primary offers, receipts (`telegram_archive_resolutions`), applied mark | `persist_live_upsert`, `mark_source_deleted`, `persist_archived_event`, `persist_batch` | every original event is decided once, with its only effect; deletion is final; old content does not come back |
| Live ingestion (`ingestion/application/telegram_events.py`, `telegram_worker_command.py`) | in-memory queue, `processing_lock`, advisory run lock | callback, consume, land, persist, acknowledge, exit | nothing is acknowledged before it is committed; a lost callback is made up for |
| Original-event archive (`raw_event_archive.py`, `archive_retry_store.py`, `raw_archive.py`) | `telegram_raw_events`, `telegram_archive_exceptions` | `land`, `unprocessed_batch`, `mark_attempt`, `can_attempt`, `record_failure`, `seed_from_history`, `drain_once` | every record ends acknowledged or quarantined; terminal rows stay terminal |
| Archive recovery (`archive_recovery.py`) | one row per channel: phase, canary ids, next batch time | `claim_batch`, `finish_batch`, `set_paused` | nothing but the canary is touched before the canary is proven |
| Reconciliation and progress (`telegram_reconciliation.py`, `telegram_progress_store.py`) | polled and applied marks, sweep cursor, lease, token | poll forward, certify, sweep, defer | the boundary hides no gap; history is certified only when it was seen |
| Historical import, live backfill, complete import | ingest runs, checkpoints, job leases | run under the run lock, persist unordered | deletion fences it; a resumed job does not lose or repeat work |
| Offer backfill (`offer_backfill_command.py`) | none of its own | replay a current revision | it publishes nothing that was deleted |
| Catalog promotion, browse, map | offer visibility | promote, query | only complete, live offers are shown |
| Media storage and recovery (`media_recovery_store.py`, `media_recovery_discovery.py`, `application/media_recovery.py`) | scan cursor, leased work per photo, phase and canary count | `discover`, `claim`, `renew`, `finish`, `fail`, `validate_recovery`, `control` | one download at a time; a stale one changes nothing; every photo of a live listing becomes public |
| Provider budgets (`admin/infrastructure/provider_budget_store.py`) | account of a UTC day, ledger of attempts | `reserve`, `finish` | no day is overspent, calls are apart and never overlap, nothing is sent twice |
| AI recovery queue (`admin/infrastructure/recovery_queue.py`, `admin/application/automatic_recovery.py`) | leased work per revision, pending runs | enqueue, claim, propose, observe, apply, defer | nothing is listed before the canary; a late worker writes nothing |
| AI enrichment (`admin/application/offer_enrichment.py`, `admin/infrastructure/ai_enrichment_store.py`) | batches, items, origins of fields, applied events | start, process, pause, resume, complete, revert; comparison after every ingestion | a value the AI is said to own is the AI's, and from the current revision |
| Parser replay (`parser_replay.py`, `parser_replay_rollback.py`) | release, work per revision, field events | discover, claim, apply, promote, roll back | after a rollback nothing is written; what the AI decided is left alone |
| Geocoding, location validation (`location_validation_store.py`, `location_validation_command.py`) | selections, control row, leased work, receipts; cache and misses | scan, claim, finish, defer; observe, apply, verify, off, roll back | canaries first; automation yields to the owner |
| Admin, identity, contacts, estates | users, sessions, requests | request-scoped transactions | tokens are used once |
| Web frontend, deployment, migrations, CI | files, containers | - | - |

### How they interact

Everything meets in PostgreSQL. The worker is one process with four critical
tasks: the transport that fills the queue, the consumer, the reconciler, the
archive drainer. An exception that leaves any of them cancels all
(`telegram_worker_supervision.py`) and the process restarts. In the process,
`processing_lock` (an `asyncio.Lock`) lets one task at a time do canonical work,
and is waited for. Between processes (worker, `apply`, imports) an advisory lock
per channel does, and is tried once: `RunLockHeldError`. The catalog promotion,
the owner's AI proposal and the offer backfill take neither.

The machines that improve the catalog are maintenance loops of the same worker
(and of its successor, while one container replaces the other), the owner's
requests in the web process, and operator commands. They meet the ingestion in
the rows of offers, origins and source messages, and each other in the provider
budget. Every ingestion that commits a revision compares the AI's values with it
afterwards, in transactions of its own.

### What is hard

Three commits (land, persist, acknowledge) with a possible death between any
two; observations fetched outside the locks and used later; two processes
working on one record; edits that share a source second; imports that are older
than what is stored; deletion racing all of them; leases that run out under a
slow holder; a canary whose rows are settled by somebody else; answers of an AI
or a geocoder that arrive after the row they are about has moved; budgets that
are asked for with a clock read before waiting. `PROJECT.json` lists each hazard
with its line and the properties that cover it.

## 2. The modules

```
SourceRecord            the transactions' effects on the canonical rows
  TelegramIngestion     who runs which transaction when: locks, tasks, faults
    IngestionProperties type invariant, safety, refinement, liveness
      MCTelegramIngestion       instances of the ingest_* runs
      OfferBackfill             + the offer backfill process
        MCOfferBackfill         instance of backfill_deletion
      IngestionProofs           type correctness
        CanonicalProofs         safety theorems, and that CanonicalHistory is implemented
CanonicalHistory        the abstract promise, INSTANCEd by IngestionProperties
FencedLease             what a leased queue promises, INSTANCEd by MediaRecovery,
                        AutomaticRecovery, OfferCuration and LocationValidation
ArchiveRecovery         canary, pause, resume, drainers
  MCArchiveRecovery     instances of recovery, recovery_ends
  RecoveryProofs        the canary holds
ChannelPolling          forward polling and sweep; its constants need no MC module
  PollingProofs         no gap below the boundary; what certification means
MediaRecovery           discovery, leased queue and publication of an album's photos
  MCMediaRecovery       instances of the media_* configurations
  MediaProofs           one lease, earned expansion, and that FencedLease is implemented
ProviderBudget          reservations and settlements of AI calls
  AutomaticRecovery     + the recovery queue, its workers and the owner
    MCAutomaticRecovery instance of ai_recovery
    AutomaticProofs     the budget for any callers; canary, outcomes, FencedLease
OfferFields             the fields of an offer, their origins, and the ingestion
  OfferEnrichment       + the AI's batches
  ParserReplay          + a parser release and its rollback
    OfferCuration       both at once
      MCOfferCuration   instances of enrichment, replay and three counterexamples
      CurationProofs    types, what a batch applied, the AI's values, pauses, FencedLease
LocationValidation      scan, leased verdicts, modes and canaries, the owner
  MCLocationValidation  instance of location
  LocationProofs        rollout, canaries, the owner prevails, FencedLease
```

### SourceRecord and TelegramIngestion

A revision is the checksum of a payload. What the code compares is given by
constants: the source second (`SourceTime`), whether extraction finds a listing
(`Candidates`), the checksums an old live reconstruction would have had
(`Projections`, for `legacy_projection_checksums`). An event is a row of
`telegram_raw_events`, named by its dedupe key. `SourceDisposition` is
`source_disposition` in its order: deletion evidence, source time, exact
lineage, conflict. `StoreRevision` is the accepting half of `_persist_message`
and `_persist_offer`; `CommitEvent` is one whole transaction: canonical effect,
receipt and applied mark.

An action of `TelegramIngestion` is one transaction, or one step between two.
`task[a]` is where a task is in its coroutine and with which event;
`processing` and `runLock` are the lock holders. `BeginLive` is
`_process_connected` up to the landing: it waits for the processing lock, tries
the run lock and lands the event. `PersistLive` and `MarkLive` follow under both
locks. A `RunLockHeldError` or a conflict in the consumer is `WorkerExit`, as
nothing catches it there; in the reconciler and the drainers it is a deferral or
a counted data failure (`RecordFailure`, in a transaction after the locks).
`LandObservation` is the reconciler's landing outside the locks, with the
`can_attempt` answer it will act on later. `Claim` is the drainer's snapshot,
`StartRecord`, `ApplyArchive` and `Acknowledge` its three steps; the
acknowledgement comes after the locks. `Callback` may always lose its event.

An event may be delivered in any order relative to others: callbacks queue in
order, the poll and the sweep interleave with them freely. The code's backoff
times are left out: a deferred record is simply due again.

### ArchiveRecovery

The durable recovery row and any number of drainers over abstract rows.
Processing one row is its outcome (commit, acknowledge, data failure,
deferral), by a drainer or by the live path. `RecoveryState` is `_state`: the
row is created by whoever comes first, with the rows due then as the canary.
`Finish` happens only for a batch that had records, as in `drain_once`. Time is
two facts that `Tick` clears: the next batch is reserved, a row backs off.

### ChannelPolling

One progress row and the pollers that use it: a worker, and the successor that
starts while it is being stopped. `roster` and `classified` are history
variables for `HistoryCertified`. Withdrawals and new posts happen at any time,
so the head a cycle read may be stale. A cycle that finds `source_retry_at` in
the future does nothing; it is not a step.

### MediaRecovery

The messages of one album: a listing and photos of its media group. `Persist`,
`Recognise` and `Delete` are what canonical ingestion does to them, in any order;
a message may be stored behind the cursor, and the listing may be recognised by
a later replay. `ScanPage` and `ScanLate` are the two halves of `discover_media`
with a page of one message, and `Enqueue` is its upsert. A runner goes through
"discover", "claim", "attempt" and "finish"; `Publish` is the transaction of
`persist_media_result` with its fence, and `Finish` the one after it. A lease
token is the runner that took it, as a runner has one claim at a time. A lease
expires under a runner that works (a fault) or is abandoned by one that does
not. Backoff is left out: a deferred photo is due again.

### ProviderBudget

The owner's row of `ai_provider_accounts` and the ledger of attempts. A caller
reads the clock (`Ask`), waits for the advisory lock, reserves (`Reserve`: swept
leases, the key's last attempt, the window, the day's limit, the lease in
flight), sends, and settles (`Finish`); or it is gone (`Forget`), which leaves its
reservation. Time is in minutes, so that the pace is 1 and the lease 2.
`Prompt` is the one thing assumed of callers: a call is over before its lease,
as the transport gives up after 30 seconds. Sizes and token counts are left out.
It is a specification of its own (`BudgetSpec`), about any callers and keys.

### AutomaticRecovery

Extends the budget by its users. `work` is `ai_recovery_work`, one row per source
revision; a worker's tick is claim, look, call, save, conclude, with a transaction
each, and everything it writes to the queue passes `Checkpoint`, which asks for
its claim. Before works are queued, `ReconcileUnsubmitted` takes up again, in a
transaction of its own, those that ended as unsupported though nothing was ever sent
for them and their cohort still waits (at most ten per call in the code, all of
them here). `Conclude` is the decision about a proposal: an observation while the
canary is short or the evidence is not calibrated, a listing (`Persist`, then
`Applied` in another transaction) after it. The owner generates and applies
proposals of the same revisions by hand, through the same budget. A worker rests
60 seconds between ticks. `Supersede`, `Expire`, `Fault` and `Crash` are what
happens to it.

Work whose message has a listing (`Listed`, or one that an edit brings) starts a cohort:
an enrichment batch with the id of the work, of which `cohort` keeps what the queue
asks about. `Enroll` starts it or ends the work; `Process` passes over a cohort that
is paused or settled, settles the item for want of anything to ask, or asks, and
notes whether the canary had passed; `Collect` is what comes of the answer; `Weigh`
is `defer_provider` and then `cohort_outcome` (`Judge`). A cohort that validated
without filling anything is an observation of the canary, as in the code. What
happens to the fields is in `OfferEnrichment`: the item's outcome is a choice here,
and so is whether somebody else has marked the batch complete. The
pause for `daily_limit` is left out, as with the durable budget the cohort's own
count stays zero; so is the owner who processes a cohort of the queue by hand, and
the generation of proposals in batches. An expired run stays pending, as
nothing moves it to EXPIRED.

### OfferFields, OfferEnrichment, ParserReplay, OfferCuration

One offer with one range, two fields which the code keeps in order, because
ranges are where the three writers hinder each other: a constraint of the table
(`Legal`) undoes a whole transaction. `source` is the current revision of the
message, `links` the extraction retained per revision, `origin` the rows of
`offer_field_origins`.

* `OfferFields` is the ingestion: `BeginUpsert` locks the message and reads the
  protected fields in another session, `CommitUpsert` writes, `ListOrigins` reads
  the AI's active origins and `Invalidate` or `Compare` visits each of them in a
  transaction of its own, with the value it listed. A process may die in between,
  and a statement may raise: `uncompared` is a history variable that remembers which
  AI origins nobody has held against the source for that reason. `CommitUnlisted` is
  the edit to a text without a listing, which writes neither the offer nor the
  origins.
* `OfferEnrichment` has batches with one item about the offer. Processors take no
  lease: `FindItem` reads the queued item and lets its lock go, `MarkItem` puts it into
  processing whatever became of it since, and `StartRun` writes the batch's state as
  it was decided in `OpenBatch`.
  `Complete` is the transaction that locks offer and item and asks again:
  fingerprint, missing fields, conflicts. A revert lists the applied events and
  visits each in a transaction of its own, comparing the value only. The budget
  turns an item away (`DeferItem`); that the feature is disabled or has spent its
  daily limit is left out. `RaiseUpsert` and the raising branches of a revert are
  the transactions a constraint undoes.
* `ParserReplay` is one release: discovery, claims that run out, the guarded
  write (`Plan`: a field is the parser's if its value is the retained one and its
  origin does not say otherwise), the promotion of the canary, and the rollback
  command. The claim fence and the phase are read again under the locks. A rollback
  whose restored value would break a constraint raises, which undoes its pause too.
* `OfferCuration` puts them together; `EnrichSpec` is the part without a replay.

### LocationValidation

Stored locations of one policy version. `place` is a location with its latest
selection, `work` its `location_validation_work`, `control` the rollout row,
`receipt` what was applied and rolled back. A worker scans (`Discover`), claims
under a lease with a fence, looks the address up outside any transaction and
finishes in one transaction that locks control, work and location: protected,
changed, observed or applied. The operator observes, applies with canaries
(`CheckCanaries` counts the observations before `Apply` has the control row's lock),
verifies them, switches off and rolls back in two transactions. Beside it the
recurring worker selects points of locations that have none, and the owner
decides. The fence of a lease is the worker that holds it, as a worker has one
claim at a time. Left out: time (a lease may run out and work become due at any
moment), observation receipts, review statuses, the order of claims among
canaries, the command about pending pins and the retry of selections out of
scope. Addresses are never rewritten by the running code, so a changed source
cannot occur; a rollback restores all locations, as the limit of 25 is not
smaller than their number.

### CanonicalHistory

The promise without locks, processes or ledgers: an event gets one verdict,
together with its only effect; a settled event has a verdict; a removed message
is neither written nor published. `ImplementsHistory` maps `content` to the
current revision, `removed` to tombstones and deleted rows, `public` to visible
offers, `verdict` to receipts and `done` to acknowledged events.

### FencedLease

Four queues lease their rows to workers that may die, be slow or be overtaken,
each with a mechanism of its own. `FencedLease` is what they promise alike: the
row of an item remembers the token of its last claim, which no worker has when it
is given out; only the worker whose token the row has settles the item, once, and
is rid of its claim with the same step; a worker that was overtaken, revoked or
restarted leaves no trace in the row. `ImplementsLease` in each module is its
refinement:

| Module | Item | Recorded result | Token in the row | How a lease ends otherwise |
|---|---|---|---|---|
| `MediaRecovery` | revision of a message | `Outcomes` with the whole row | the runner, while its lease is alive | it expires; nobody settles with it, even before another claim |
| `AutomaticRecovery` | source revision | `Over`: "observed", "applied", "terminal" with the whole row, unless nothing was sent and the cohort is still to come out | number of the claim | it expires but stays good until the next claim |
| `ParserReplay` in `OfferCuration` | revision of the message | `Closed` | number of the claim | as above; "observed" and "deferred" work is open again |
| `LocationValidation` | location | "terminal", "protected", "exception" with the whole row | the worker, while its lease is alive | it expires, or a change of mode or canaries revokes it |

A superseded recovery work has no result in this sense, since the code lets its
last claimant still defer it. The job lease of the complete import is not modelled.


## 3. The runs

| Run | Bounds | Shows |
|---|---|---|
| `ingest_crash` | one message, two edits of the same second, an operator's apply, one fault, queue of 1 | types, acknowledgement after commit, applied mark, failure budget, finality, refinement |
| `ingest_import` | one message, original, edit and an older export, four kinds of legacy row, one import | receipts stay true, deletion fences every writer, source order |
| `ingest_live` | one message, two edits of one second, one fault; fair | everything landed settles, deletions and content converge |
| `backfill_deletion` | one visible listing | **violated**: the backfill shows a deleted listing again |
| `recovery` | two rows, one malformed, the worker and an operator as drainers, batch and canary of one, one command, one crash; fair | the canary is proven before expansion; a running archive settles every row |
| `polling_safety` | ids 1..2, two pollers, one deferral, no crash | no gap below the boundary, certification only after a full traversal |
| `polling_live` | ids 1..2, one poller, one deferral, one crash; fair | every id is polled, every stored id swept for ever |
| `media_gallery` | an unusable listing photo and a photo that is edited once, two runners, one fault, one command, a canary of two; fair | one active item, a fenced lease with final and published outcomes, a counted canary, every photo public in the end |
| `ai_recovery` | two processes that are worker and owner, a message without a listing and one with a listing to enrich, one request key, a day's limit of two, one of the first day's spent, days of two minutes, one fault, canary of one | the provider budget, no listing or filled field before the canary, a fenced lease |
| `enrichment` | live worker and import, an edit into another listing and one into none, two upserts, one death, two processors of one batch | the AI's fields hold the AI's current values, a batch fills the offer once |
| `replay` | two replay workers, an AI batch, one upsert, a paired price, a canary of one | nothing is written after a rollback; the AI's values are spared; a fenced lease |
| `location` | two locations, two workers, two results, scan page of two, one failure, one decision of the owner, two commands, one fault | canaries first, receipts, the owner prevails; a fenced lease |

The invariants called `...Inv` are the module's `TypeOK` joined with one or two
safety parts: `RecoveryInv` has `ExpansionProven` and `CanaryFirst`, `PollingInv`
`PolledIsLanded`, `MediaInv` `OneActiveItem`, `AutomaticInv` `CanaryFirst`,
`RolloutInv` `CanariesVerified` and `ApplicationReceipted`, `AcknowledgedInv`
`TerminalHasReceipt`; `CurationInv` adds that an offer never answers to the
fingerprint of a batch that has filled it. `CallsApart` is `Paced` and `OneInFlight` together.

### Why the bounds are enough

One message is enough for the canonical properties: every table but the applied
mark is keyed by message, the locks are held for one event at a time, and two
revisions of one message are what order, deletion and receipts are about. The
order of messages matters for the marks and the traversal, which
`ChannelPolling` has, with a page of one message and a sweep batch of one id, so
that every traversal takes several cycles. Two edits of one second, an older
export and a projection give every branch of `source_disposition`. One fault is
one death or transient failure at any point; after a restart nothing remembers
how many there were before. `MaxDataFailures` is 1 instead of 5: the budget is
compared, never computed with. `ingest_import` has one edit only: with an import
that changes the current revision beside two edits of one second, a live event
with a receipt can fail again and again, and its counter would grow without
bound.

In `recovery` two drainers with batches of one have a batch in flight when the
canary is proven, paused or resumed; the malformed row is in the canary or
behind it, as the first drain finds it.

An album of two messages has every order of storing, recognising and scanning
them; with two revisions of the photo, late revisions and superseded work occur,
and a canary of two is reached exactly when both revisions were recovered. The
unusable photo, of which an attempt may find either that it is to be rejected or
that its data is bad, belongs to the listing. One fault is a death, an outage, a
stage error or a lease that runs out under its runner. What the runs of media
recovery say is only about a recovery that is neither paused nor waiting at the
end of its canary.

In `ai_recovery` both processes are worker and owner at once, so that two
workers, a worker and the owner, and two owners meet; days of two minutes have a
change of day between any two of reading the clock, reserving and settling. A
limit of two with one spent is reached by one call. The provider
answers, or its caller dies first, so that it is unknown whether the call was carried
out; replies after which a call may be repeated are left to the theorems about the
budget, which hold for all of them. One of the two works has a listing and one may get it by an edit, so that cohorts and
proposals compete for the canary and the budget. The processes are symmetric. The
run has 2.1 million states.

In `enrichment` a parser that finds more than the old one did, and an edit that
raises one bound and drops the other, give every outcome of the comparison: the AI's
value confirmed, stale or in conflict, and an upsert that breaks a constraint. Two
upserts are an edit and a repetition, or two edits, the second of which has no
listing, by one ingester or by both. In `replay` three claims by two workers have one
taken over, and one that is too old to write. A paired price (both bounds or none) is
where a replay, a rollback or a revert of one field breaks the table's
constraint; since one bound of it cannot be cleared alone, no AI origin becomes stale
in that run, and that stale and conflicting origins are spared too is what the
theorem `ReplaySpares` adds. In `location` any set of locations may be the canaries,
so that there is one canary and one location for the rest; two commands are an
observation and an application, whose canaries the workers verify, or an observation
that is switched off or rolled back.

`CHECK_DEADLOCK FALSE` is stated where the work is bounded and ends: events,
edits and runs in `ingest_*`, days, upserts, claims, failures and commands in
`ai_recovery`, `enrichment`, `replay` and `location`. The other runs check it.

### Fairness

`asyncio.Lock` is first come first served and every holder releases it, so a
task that waits is served: strong fairness for `ConsumerTake`, `ReconcilerBegin`
and `StartRecord`, whose guard is a free lock. The run lock is tried again for
ever by the next poll or drain. `Poll` and `Sweep` are strongly fair per message
because a cycle follows a cycle (`maintain_checkpoint_reconciliation`) and the
traversal passes over no id; that it does not is what `polling_live` checks.
Steps already begun are weakly fair: a coroutine proceeds. Nothing is assumed of
callbacks, operators, imports starting, crashes or users. In `ArchiveRecovery` a
row that keeps coming due is claimed, because batches are taken oldest first,
and one that meets contention gets through in the end; time passes. In
`ChannelPolling` a cycle proceeds and a lease runs out. In `MediaRecovery` a
runner repeats its cycle and an abandoned lease runs out; which work is claimed
is not assumed, since there is only so much of it.

The modules of the AI, the replay and the location validation state no fairness
and no liveness: a budget that is spent, a release that is paused or a provider
that is down may stop them for as long as these last, and their runs bound the
number of attempts.

### What the violations mean

`backfill_deletion` is a run of its own and a finding. A delete event is landed
and not yet processed. The backfill replays the message: `_persist_message` finds
the event, writes the tombstone, sets `deleted_at` and hides the offer, and
`replay_current_revision` writes the visibility it read before back
(`persistence_adapter.py:1195`). When the delete event is processed,
`_delete_source` finds `deleted_at` set and leaves the offers alone, although
`DATA_MODEL.md:68` promises that a live delete recalculates visibility. The
public queries filter on the visibility of the offer alone
(`features/catalog/infrastructure/browse_adapter.py:94`), so the listing stays
public.

Six further configurations are kept beside the runs to reproduce what the code
does; each ends in a counterexample.

| Configuration | Module | Violates |
|---|---|---|
| `recovery_ends.cfg` | `MCArchiveRecovery` | `CanaryEnds` |
| `polling_overlap.cfg` | `ChannelPolling` | `PollingReachesHead` |
| `media_edit.cfg` | `MCMediaRecovery` | `GalleryCompletes` |
| `enrichment_stale.cfg` | `MCOfferCuration` | `StaleNeverServed` |
| `enrichment_count.cfg` | `MCOfferCuration` | `CountedOnce` |
| `enrichment_revert.cfg` | `MCOfferCuration` | `RevertSparesParser` |

* `recovery_ends`: `finish_batch` is the only place that ends a canary, apart
  from a manual resume, and runs only after a batch with records
  (`raw_archive.py:128`). Rows settled by the live path, a drainer that dies
  before `finish_batch` or a quarantined row leave later claims empty and the
  phase "canary". `DEPLOYMENT.md:664` describes an automatic canary without
  approvals.
* `polling_overlap`: the settings bound the overlap and the page independently.
  When the overlap is as large as the page, every page holds only ids at or
  below the boundary. The default values (20 of 400) are not affected.
* `media_edit`: work keeps the revision of the listing it was discovered under.
  When the caption is edited before the photo is published, `validate_recovery`
  refuses the publication and the work ends as "superseded". The edit's new link
  rewinds discovery to the listing, but the upsert repairs only rows without
  association (`media_recovery_discovery.py:287`), so the photo, which did not
  change, is never shown, although E24-T3 promises every eligible derivative.
  `PIPELINE.md` restricts reopening in the same way as the code; it speaks of
  fences of edited sources and not of photos whose listing was edited.
* `enrichment_stale`: an edit turns the message into a text that is no listing.
  The new revision becomes current (`persistence_adapter.py:719-727`), the offer is not
  written and `_notify_origin_sync` returns at once, so the AI's value of the old text
  stays active, without a death. A death or an exception between the commit and the
  comparison does the same, and nothing compares the origin later: a replay of the
  same revision is a repetition. `PIPELINE.md:347-350` (`AI/ingestion/`) says that stale
  AI values are never served. The properties of `enrichment` say what remains true:
  they exempt the fields whose comparison was lost (`uncompared`) and, for
  `AiValuesCurrent`, the time while the current revision is no listing.
* `enrichment_count`: a request reads the queued item (`next_queued_item`); the worker
  marks, asks and completes it; the request marks it as processing again
  (`ai_enrichment_store.py:395`, an update by id), asks for it again and completes it
  again. The batch has one item and counts two. Values are applied once all the same
  (`FilledOnce`), since the fill moved the offer's `updated_at`, which is in the
  fingerprint.
* `enrichment_revert`: a later upsert of the parser found the AI's value itself
  and made the field the parser's. The revert compares values only
  (`ai_enrichment_store.py:612`), finds the value it wrote and clears it; the
  E19 `SPIKE.md:199-201` says that later edits of owner and parser are never
  overwritten.

Smaller divergences have neither: `DEPLOYMENT.md:428` says that only passive
delete events change deletion state, while the sweep turns an explicit deleted
answer of the source into a delete event. `OPERATOR_COMMANDS.md:431` promises
that quota deferrals resume by themselves; the tick compares with the time at
which it began, so that work which was turned away may end. The queue repairs that
for works with a cohort (`OPERATOR_COMMANDS.md:443-447`), and `ReconcileUnsubmitted`
models it; a work that asked for a proposal stays "proposal_rejected". Pending runs of
a deferred work do not expire (E19 `SPIKE.md:173-176`). An owner's pause of a batch can be overwritten by the
state a processor writes without a guard (`OPERATOR_COMMANDS.md:442-443`).

## 4. The proofs

The proofs hold for every value of the constants: any messages, revisions,
processes, leases, canaries and bounds, from named assumptions that the modules
state beside their constants (`SourceAssumption`, `ProjectionAssumption`, `ReceiptAssumption`,
`IngestionAssumption`, `LegacyAssumption`, `PollingAssumption`,
`AlbumAssumption`, `BudgetAssumption`, `RecoveryAssumption`, `FieldsAssumption`,
`ReplayAssumption`, `LocationAssumption`). These say of what kind a constant is,
that an album, the pollers and the revisions are finitely many, and which model
value is nothing, and (`ProjectionAssumption`) that projecting a revision twice is
projecting it once, as flattening a legacy payload is in `archive_evidence.py`; TLC
evaluates them in every run.

* `IngestionProofs`, `TypeCorrect`: `TypeOK` is inductive because it also says
  that the event a task works on is on file (`TaskEventsOK`) and that batches
  hold landed records; without these, a mark could make an unlanded event
  terminal. The module first proves, once each, what the effects of
  `SourceRecord` preserve, and then has a lemma per group of actions.
* `CanonicalProofs`:
  * `AcknowledgedAfterCommit`: `AcknowledgedInv` is not inductive, since a
    task that is about to acknowledge must hold a receipted event.
    `AcknowledgesReceipts` says so of the steps "mark" and "ack"; together with
    `TypeOK` they are `ReceiptInv`. Receipts are never withdrawn, so another
    task cannot invalidate it.
  * `TerminalStaysFinal`, `SourceOrder`, `DeletionFreezes`: action properties,
    from the type invariant and the effects.
  * `DeletedHidden`: inductive as it stands, with types.
  * `ReceiptsAreEvidence`: needs `CurrentRetained`, that the current revision
    is in the history, because "already_canonical" and "superseded" compare with
    the current one and the receipt speaks of what is retained.
  * `AppliedIsSafe`: inductive, with types.
  * `Implements`: initial states map to initial states and every step to a step
    or a stutter of `CanonicalHistory`, under `HistoryInv`, which joins
    `ReceiptInv`, `DeletedStaysHidden` and `UnstoredUnlisted` (a message without
    a row has no listing, so that a tombstone without a row hides nothing).
  * `BudgetIsBounded`: the drainer asks whether an event may be attempted before it
    has the lock, and a batch holds its events from before, so `failures` may
    overrun `MaxDataFailures`. `BudgetCounted` gives the inductive bound: failures
    and the tasks that still hold the event (`Holders`) stay together below the
    budget and the number of tasks. A failure moves one from the second to the
    first, and no task takes an event up again once the budget is spent. This
    needs that an event with a receipt does not fail for its data when it is
    attempted again (`DecidedAgrees`: what its message records agrees with what it
    says, so that the attempt is answered "already_canonical"), which a batch
    writer, that moves a message back without the order guard, can make untrue;
    hence `Importers = {}`, as in `ingest_crash.cfg`.
* `RecoveryProofs`, `CanaryHolds`: a batch in flight was claimed under a phase
  that may have passed. `Untouched` adds that nobody holds a batch before the
  recovery row exists; then a batch outside the canary was claimed after the
  expansion, whose proof is a receipt and is never withdrawn.
* `PollingProofs`: the boundary needs `Passed`, that there is no gap below what any
  poller has passed, as another one may have moved the boundary since it was
  read. Certification needs `Traversal` (everything in the roster up to the
  cursor was classified, unless an id is unknown), `Contiguous` (the batch of the
  current token has every id of the roster from the cursor on) and `Batches`
  (no two pollers have one token).
* `MediaProofs`: `OneIsActive`, `ExpansionIsEarned`, `CompletedIsPublic`,
  `OutcomesHold` and `MediaIsFenced` share one invariant. `CountOK` says that the counter of the
  canary does not run ahead of the completed rows, and `RunnersOK` what a
  runner knows between publishing and finishing: what it is about to record as
  completed is in the gallery.
* `AutomaticProofs` begins with the budget for any callers (`BudgetSpec`,
  `WithinBudget`). `DailyLimit` and `Paced` speak of the ledger, the code compares
  an account row: `BudgetRecord` says how the row covers the ledger of its day,
  and that a lease in flight covers the call under way. The second half carries
  it over to `AutomaticRecovery`: `ImplementsBudget` shows that every step of workers,
  owners and crashes is a step of `BudgetSpec` or leaves its variables alone, from
  which `BudgetIsKept` and `CallsAreApart` follow without another
  induction. `CanaryIsFirst` and `OutcomeIsKept` add what lists, queue and tasks
  remember: `FillsFine` that a cohort is filled only by a worker that saw the canary
  pass, `StepFine` what any step may do to a row (`Stays`) and to a cohort
  (`Sanctioned`: what came out of it stays). `OutcomeIsKept` names the one way back, and
  `RecoveryIsFenced` needs that a work which is over stays over: calls are never
  forgotten (`CallsKept`), so a cohort that was tried is never untried again
  (`StaysTried`).
* `CurationProofs`: `CurationHolds` from `IInv`, which has a part per writer. That an
  offer never answers to the fingerprint of a batch that filled it holds because
  nothing takes `updated_at` back: the fingerprint of an item has no later stamp than
  the offer, and an earlier one once the batch was applied. `AppliedOnce` follows: a
  second completion of the item finds another fingerprint, and is refused. `PauseHolds`
  and `ReplaySpares` follow from the plans a claim was checked against under the
  locks. `AiIsTold` and `AiIsCurrent` need `Tracked`: an active value of the AI is the
  recorded one and of the current revision, *or* an ingestion has that field still to
  list or to visit, *or* the comparison was lost. None of them assumes anything of
  deaths, prices or extraction.
* `LocationProofs`: `RolloutHolds`, `CanariesComeFirst`, `OwnerPrevails`. The strengthening
  `Record` says that failures are counted within their bound, that outcomes
  go with receipts, that a worker remembers the mode its lease was given in, and
  that nothing is leased for application but canaries, until these are verified.

* `MediaIsFenced`, `RecoveryIsFenced`, `ReplayIsFenced` and `ValidationIsFenced`, one
  in each of these modules: `FencedLease` is implemented. Every module says once,
  from what a step does to the one row and the one worker, when it is a step of the
  abstract lease (`ClaimMaps`, `FinishMaps`, `AbandonMaps`, `ArrangeMaps`) or none
  (`LeaseUntouched`), and then goes through its actions. What a claim must show is
  that its token is new. Where the token is the runner or worker this is because it
  has no other claim (a runner that discovers or claims has no key, in `RunnersOK`);
  where claims are numbered it needs `ClaimsFine`: no worker holds a number that its
  row has not come to, and an idle one holds none.

Model-checked only is liveness, which is beyond the prover. Every invariant and action
property of a passing run is stated by a theorem. What the code does against its
documents (section 3) is not proved of course, but the theorems are about modules
that do it.

## 5. Not modelled

* **Data.** Texts, extraction rules, contacts and parse issues (a revision is or is
  not a candidate, or yields a constant set of fields); the contents and
  derivatives of media files; the association of media by adjacency or reply,
  with its retained grouping context; run rows, which nothing reads back; token
  counts of AI calls.
* **Time.** Backoff times and the re-eligibility of failed records under a new
  retry policy version; in the queues of media, AI recovery, replay and location a
  lease may run out and a deferred row become due at any moment, which includes
  what the clock would do.
* **Ingestion.** Several ids in one delete callback, whose events are separate in
  the code too; promotion and the offer upsert at the level of their statements;
  batch checkpoints of the historical import.
* **Complete import.** `claim_run` takes expired leases or its own; checkpoint and
  release are fenced by owner and token. The checksums of what exists are read
  before the claim, and the work between two checkpoints is not fenced but
  idempotent, with the batch transaction that `TelegramIngestion` has as
  `ImportMessage`. Verification raises when a live edit made the export stale;
  the job stays RUNNING until its lease expires, and FAILED is never written.
* **Geocode cache.** In `geocoding.py` `_resolve` looks the cache up and claims the
  miss in two transactions: a resolver that looked before another one completed
  can claim the deleted miss afresh and call the provider again
  (cf. `DATA_MODEL.md:550`). The completion inserts with `ON CONFLICT DO NOTHING`,
  which keeps one result per query. The default wait is no wait, so that a waiter
  looks six times and fails the stage. A failed AI address recovery is cached as
  "no result", which never expires (`address_recovery.py:108`).
* **AI.** The generation of proposals in batches and the review of places; an
  owner's acceptance applies the latest candidate. The daily limit of enrichment, and
  its feature switch but for the pause it causes. Batches with several items. A superseded work
  whose claim is still held can come back through a deferral, which `OutcomeStays` does
  not exclude.
* **Replay.** Several releases, the pause on a version downgrade and messages that
  are deleted meanwhile.
* **Location validation.** Several targets, rewritten addresses, observation
  receipts (which keep the first outcome), review statuses, the next eligible
  time, the order among canaries, the command for pending pins and the retry of
  selections out of scope. The daily budget of the geocoder, whose spacing starts
  anew with the UTC day.
* **Everything request-scoped or stateless.** Browse and map queries, admin views,
  identity, favourites, contacts, status reports, the web frontend, deployment
  scripts, migrations: `PROJECT.json` lists each with its reason. They are the
  larger part of the repository's lines; what they share with the models are
  rows that the modules above keep.

## 6. What could follow

1. `OfferProjection`: promotion and offer upsert statement by statement under
   read-committed isolation: lost promotion, duplicate primary offers.
2. The complete import around `ImportMessage`, whose job lease would be a fifth
   implementation of `FencedLease`.
3. The geocode cache and its claims of a miss.
4. `WorkerSupervision`: stages, cancellation, run rows.
5. Pure algorithms (numbers and areas in listings, scores of places, map queries)
   against reference definitions over bounded inputs.
6. Liveness of the unattended queues under an assumption about the provider and
   the budget.
