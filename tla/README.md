# A verification of tmdb-mteam-hub

tmdb-mteam-hub follows a Douban wanted list, finds torrents for its movies and series on
M-Team, has qBittorrent download them and links the files into a media library. It is one
process: an axum HTTP server, a background worker, a configuration file and a SQLite file. This
directory holds TLA+ modules for what decides *what is done when, and by whom*: the subscription
repository and everybody who calls it, the attempts' steps against the outside world, the
worker's loop, the service from its start to its death, the two lists that are read page by
page, and the cache of the Douban catalogue; the TLC runs that check them on small instances; and TLAPS
proofs, for every value of the constants, about the repository and its refinement, the attempts,
the service, the cache and the worker. Paths below are relative to the repository's `src/`, which holds
its own `src/`.

Contents: [inventory](#inventory) · [modules](#modules) · [runs](#runs) · [fairness and
assumptions](#fairness-and-assumptions) · [proofs](#proofs) · [findings](#findings) · [not
modelled](#what-is-not-modelled) · [plan](#plan)

## Inventory

| Component | State | Operations | What makes it correct |
|---|---|---|---|
| Subscription repository, execution (`storage/subscription_repo/claim.rs`) | the rows of `wanted_subscription_records`: stage, claim (operation, attempt id, lease), due time, retries, force flag, payload | `claim_due` (expired, forced, due, metadata only), `claim_one`, `extend_lease`, `finish`, `fail`, `release` | an attempt that lost its row moves nothing; no row becomes unselectable by accident; one bad row does not stop its account |
| Subscription repository, polls (`subscription_repo/poll.rs`) | `subscription_meta`: generation, open poll, failure count, times, last complete snapshot; `next_poll_at` | `begin_poll`, `apply_complete_snapshot`, `record_incomplete_snapshot`, `record_poll_failure` | only the newest poll may close; only a complete snapshot infers absence; the schedule neither stops nor spins |
| Subscription repository, user commands (`storage/subscription_repo.rs`) | the same rows | `force_retry`, `confirm_candidate`, `replace_candidate`, `add_manual_candidates`, `update_detail`, `backfill_metadata_titles`, reads | a conditional write loses no update and changes nothing a running attempt acts upon |
| Domain types (`subscription/repository.rs`, `repository/payload.rs`, `model.rs`, `ports.rs`) | none | dispositions, payload deltas, stage to operation, poll backoff | a stage has one operation; the delay is positive and capped |
| Schema v5 (`storage/schema_v5.rs`) | the SQLite file | create, preflight | its CHECK constraints are never run into |
| Episode recognition (`subscription/episode.rs`) | none | what a name stands for | a series is complete when its episodes are there; what is recognized can be stored |
| Queries (`queries.rs`, `wanted_source.rs`, `http/subscription_queries.rs`, `http/dto/subscriptions/*`, paging in `douban.rs`) | none; a cursor at the client, a position in a reading | list pages, the wish list into a snapshot | nothing is skipped or shown twice; what is not read is not taken to be gone |
| Execution effects (`subscription/execution_effects*`) | none of its own; the tracker, qBittorrent and the disk | metadata, search and push, progress, link, replacement cleanup | reports only what its operation can bring about; nothing is pushed before a cleanup |
| Effect reconciliation (`subscription/effects.rs`, `effect_adapters.rs`) | none of its own | find-or-add a torrent, plan and make hard links | a lost answer adds no second torrent; no file of somebody else is touched |
| Execution service (`subscription/execution.rs`) | attempts in flight | batches of bounded concurrency, `claim_one` on request | never more attempts than its concurrency, and a batch ends |
| Worker and poll service (`subscription/worker.rs`) | `next_poll_at` in memory | the loop: metadata, poll, due batch, sleep | every due row is attempted, every due poll made, while enabled |
| Posters (`posters.rs`, `poster_backfill.rs`) | files, poster URLs | fetch once, backfill in pages | edits nothing but the poster |
| Operation logs (`operation_logs.rs`, `storage/operation_log_retention.rs`) | append-only rows | append in the command's transaction, list, prune | retention deletes the oldest only |
| SQLite access (`storage/sqlite.rs`, `blocking.rs`), service lock (`service_lock.rs`) | connection, lock file | one `BEGIN IMMEDIATE` transaction per command | one live process per state directory |
| Configuration (`config.rs`, `http/config.rs`) | file, snapshot and its revision | `update`, `snapshot`, atomic replacement | file and snapshot agree; a crash leaves the old or the new file |
| Management authentication (`http/auth.rs`, `app/auth_security.rs`) | failed logins per peer | login, logout, the guard | budgets recover and stay bounded |
| JSON caches (`tmdb_cache.rs`, `app/douban_catalog.rs`) | files in a directory, without a lock | `get`, `get_any`, `put`, `remove_prefix`, `cleanup_expired`; `library`, `mark_interest`, `tag_history` | nobody is shown another account's lists, nor an older list than the last mark left |
| Application services, clients (`app*`, `clients/`, `douban.rs`) | none of their own | facades over external services | an error of a service is an error of its caller |
| Frontend (`frontend/src`) | Vue stores | views, request races | an answer to an old request is dropped |

**How they interact.** The worker and the HTTP handlers share one repository. A *poller* opens
a poll in one transaction, fetches the wanted list for seconds to minutes, and closes the poll
in another; a manual poll may overlap the worker's. An *executor* claims a row in one
transaction, talks to the tracker, qBittorrent and the disk without any lock, and settles in
another; its lease may run out meanwhile. A *client* reads a row in one request and writes in
another, carrying the revision it read. A *user* forces a retry without reading. The process
may stop between any two of these steps.

**The process as a whole.** A start takes the lock beside the configuration file, loads the file,
opens, migrates or creates the database, checks it, backfills titles and serves. A setting is
saved by one job at a time, whose caller may go away before it ends. The worker takes one
snapshot of the configuration per turn: it settles metadata, polls if a poll is due, runs a batch
of due rows and sleeps. A kill or a loss of power may come at each of these steps.

**What is hard.** Everything between two transactions: an attempt that returns after its lease,
after a reclaim, or after a poll took the row away; two polls that finish in the wrong order; a
clock set back between them; a write based on a stale read; and sequences of a dozen commands
that each rewrite due time, retry count, force flag, tags and stage, after which the row must
still be one that a selector returns. Selection itself is decided twice, in SQL and in Rust, and
a disagreement stops the whole account. Beyond the database: qBittorrent, which lists later than it
answers and deletes later still; a disk on which the user works as well; files that were renamed
but not synced; and lists that move while they are read. `PROJECT.json` lists these under `hazards`, each at its
line, with the properties that watch it.

## Modules

| Module | What it is |
|---|---|
| `SubscriptionRow` | one row and, as pure operators, the row each command leaves behind (`...Row`), the WHERE clause of each selector (`...Candidate`), what Rust's `classify` says of it (`Classified...`), the CHECK constraints (`RowWellFormed`) and what the loader accepts (`Loadable`) |
| `ExecutionOutcomes` | what an attempt may report, as a function of what it claimed |
| `PollRetryPolicy` | the backoff after failed polls, a recursive function |
| `SubscriptionRepository` | the state machine: one action per repository command, and the actions of its callers between commands; the properties |
| `SubscriptionLifecycle` | the abstract specification: stages, who owns a subject, who may move it on |
| `LifecycleRefinement` | the mapping from the repository to the lifecycle |
| `MCSubscriptions` | values, symmetry and view for TLC |
| `SubscriptionEffects` | what an attempt does call by call to the tracker, qBittorrent and the disk, beside a user and a tracker who do as they like |
| `QbReconciliation` | pure: two listings of qBittorrent, and whether to use, add or stop |
| `LinkRetry` | pure: what a file of a torrent becomes in the library, and what a cleanup may remove |
| `CandidateSelection` | pure: searches merged, rules, what may be downloaded, the choice for an episode |
| `EpisodeCoverage`, `TvMetadata` | pure: what a name stands for; where season and number of episodes come from |
| `PayloadRules` | pure: what the repository demands of a payload |
| `SubscriptionWorker` | the worker's loop, its batches and its schedule in memory; liveness |
| `StorageService` | the service from start to death: lock, configuration file and its manager, database; liveness |
| `FileConfigRules` | pure: normal form, validation and patches of a configuration |
| `LibraryReading` | the wish list read into snapshots, the stored list read by cursor; liveness |
| `CatalogCache` | the Douban catalogue's cache: requests and a cleaner over shared files |
| `MCEffects`, `MCWorker`, `MCService`, `MCReading`, `MCCatalog` | their values for TLC |
| `SubscriptionRepositoryProofs`, `SubscriptionStepProofs` | the proofs about the repository, its refinement of the lifecycle included |
| `SubscriptionEffectsProofs`, `StorageServiceProofs`, `CatalogCacheProofs`, `SubscriptionWorkerProofs`, `LibraryReadingProofs` | the proofs about the attempts, the service, the cache, the worker and the readings |
| `FiniteOrders` | lemmas they share: least numbers, ranks in a finite ordered set |

### State and actions against the code

* A repository command is one `BEGIN IMMEDIATE` transaction, so it is one action, with every
  write it makes: `Finish` is the fence of `require_live_attempt`, the merge of the payload delta
  into the *latest* payload, the disposition's stage, due time and retry count, the clearing of
  the claim, and the revision. A command that returns an error changes nothing; its caller then
  forgets its attempt, poll or read (`DropAttempt`, `DropPoll`, `DropRead`). The same actions
  stand for a process that dies: nothing but the database survives it.
* `rows[s]` keeps the column names. `claim` is the three columns of an attempt, which the schema
  makes NULL together. Times are `Nat`, revisions and generations count up to named bounds.
* `executors[e]` is what a claimed attempt holds in memory; `revoked` is a history bit, set when
  a poll clears the attempt in the table. Nothing the code decides reads it.
* Selection is kept twice. `FirstExpired`, `First(ForcedRows)` and `First(DueRows)` are the SQL,
  `Classified...` is Rust; a claim needs both, and `SelectorsAgree` says they never part. Ties
  that SQL breaks by columns that are not modelled are broken by chance, which allows more.
* `at \in Recent`: pollers and HTTP handlers read the clock before their transaction, executors
  inside it. `Terminals(p)`: the poll service never closes a poll before it began.
* The payload is reduced to what executions and commands read: for each torrent whether it is a
  candidate and how it was found, whether it is being downloaded, failed or retired, the user's
  choice, and the two replacement flags. Downloads have no order: "the current download" is any
  that is not retired.
* The world outside answers as it likes within what an operation can report
  (`FinishOutcomes`, `FailOutcomes`): a search finds any candidate list, a push succeeds or not,
  a download is ready or not, linking is complete, planned, waiting or — for a series — asks for
  the next episode.
* `UpdateDetail` offers the edits the repository's port accepts. In production only the poster
  backfill calls it, and it edits only the poster: that is `SkipEdits = FALSE`. With
  `SkipEdits = TRUE` clients also set and clear the skip reason, which the port allows; two
  properties are checked there.

How the modules divide the system: `SubscriptionRepository` knows every command on a row and
lets attempts, polls and clients do anything at any time; four other state machines each open
one thing it leaves closed and close what it opens. `SubscriptionEffects` opens an attempt and
takes from it that a row has one attempt at a time and that nobody changes what it acts upon;
`SubscriptionWorker` opens the loop and reduces an attempt to its end; `StorageService` opens the
process; `LibraryReading` opens a poll's fetch. `CatalogCache` stands beside them: it shares the
configured account with the others and nothing else. They are checked one by one.

**`SubscriptionEffects`.** `attempt[s].pc` is the place in `execute_search`, `execute_link` or the
replacement where the attempt waits for a call. One action per call, in the code's order:
`FetchTorrent`, `ListTagged`, `ListHashed` (with the decision of `reconcile_qb_torrent`),
`AddTorrent`, `VerifyAdded`, `SettlePush`; `Progress`; `Link`, `Probe`, `LinkFile` for each file,
`SettleLink`; `Replace` (which journals in one attempt and cleans in another), `VerifyLinks`,
`RemoveLink`, `DeleteTorrent`, `TorrentGone`, `SettleReplacement`. Settling is the repository's
merge, now with the order of downloads and the files' outcomes, and what the repository's
validation refuses is not written (`Accepted`): the attempt is lost, and the next one reports the
same. `LoadMeta` is `execute_meta`, with whatever season a title names; `Confirm`, `AddManual`,
`Restart` are the commands of the user. The rest is the world: `Qb...`, the user's
hands (`User...`), a tracker that serves another file (`Republish`), and `AttemptsLost`, which is a
crash or a failed call. An inode is the hash, the file and the copy it belongs to, so a file that
was deleted and downloaded again is another one. Names are what `recognize` finds in them; the
effect key, a SHA-256 in the code, is the pair it is computed from.

**`SubscriptionWorker`.** `worker.pc` follows `spawn_subscription_worker`: `Turn` (snapshot,
cancellation), the metadata batch, `Watch` (mode, schedule), `EndPoll`, the due batch, `Rest`,
`Wake`. A batch is `Claim`, `ClaimNothing`, `ClaimFails`, `Settle`, `SettlementRefused`,
`OrphanEnds`, `BatchOver`: `live` are tasks whose attempt the row still has, `orphans` are tasks
whose row the same batch has reclaimed. Times are what is left of them, so there is no clock
to bound and behaviours are infinite.

**`StorageService`.** `file.now` is what a read returns, `file.kept` what a loss of power may leave:
a rename adds to `kept`, a directory sync reduces it to `now`. `job` is the closure on the
one-permit blocking executor, which ends although its caller was dropped (`attached`). `db` has
its journal: a writer's name while it writes, `"hot"` when that writer is dead. A journal is
removed by a name that is not synced, so `removed` remembers what a loss of power may roll the
database back to (`Remains`). `page` is what a
browser shows. `astray` is a history bit: a save whose caller went away has put the file ahead
of the memory.

**`LibraryReading`.** `poll` is `LibraryPagination` of `douban.rs` together with the snapshot made of
it; `rows` keeps of a row what lists order and filter by; `visit` is a client with its cursor.
`wished`, `undisturbed`, `still` and `shown` are history for the properties.

**`CatalogCache`.** A request is a record at a `pc`, and a call to Douban or to the file system is one
step: `AskLibrary`, `LookUp`, `FetchList` for each of the two lists, `StoreLibrary`; `AskMark`,
`MarkAccepted`, `Invalidate` (file by file, as `remove_prefix` goes through the directory),
`CountTags`; and `put` for both, which opens, writes and renames a temporary file that all writers
of a key share (`OpenTemporary`, `WriteTemporary`, `Rename`). `files` maps names to contents; a
writer holds the file it opened, whatever its name has become (`Moved`), so a late write may tear
what another request has just published. A list is the number of changes it shows. There is no
clock: any file may have expired when it is looked at (`LookUp`, `CleanUp`), and what is then
removed is what bears the name by then. `settled` is history: the change that every later answer
must show.

## Runs

The first four runs, `tv_docs` and `cleanup_docs` are instances of
`SubscriptionRepository` in `MCSubscriptions`, each with the actors its question needs; the others
have a module each.
Deadlock is not checked where clock, generations, copies or faults are bounded or the process
may be told to stop, so that the model may come to an end; `reading` and `catalog` check it.

| Run | Actors and bounds | Shows |
|---|---|---|
| `claims` | 2 executors, 3 attempt ids, 3 polls, 1 subject, 1 torrent, lease 2, clock to 2 | `NoLostWork`, `SelectorsAgree`, `RetryBudget`, `LeaseExclusive`; the repository implements `SubscriptionLifecycle` (`ImplementsLifecycle`) |
| `editors` | 2 clients that may edit anything, 1 executor, 2 polls, bootstrap skipping | `TypeOK`, `RowsWellFormed`, `ClaimFreezesPayload`, `RevisionIdentifiesDetail`, `SkippedRunsOnlyMetadata` |
| `replacement` | 2 torrents, 1 client, 1 executor, 2 polls | `ReplacementOnTrack`, `ConfirmedChoiceKept`, `NoPushBeforeCleanup` |
| `polls` | 2 pollers, 4 generations, 2 subjects, clock to 2 forwards and backwards, readings 1 old | `MetaWellFormed`, `CurrentPollCanClose`, `ActiveIsSeen`, `PollBackoffBounded` |
| `effects` | 1 subject, movie or series of 2 episodes; 2 torrents of 1 and 2 files, one of which the tracker may serve anew, with a file of no episode or of the zeroth in Chinese; titles that name no season or season 0; the user may have one already, and meddles once; files may come to exist twice (3 copies, one of them the user's) | `TypeOK`, `OneTorrentPerEffect`, `PushedWasListed`, `CurrentIsUnique`, `LinkedIsOurs`, `ReportsAccepted`, `CompletedIsCovered`, `UsersThingsKept`, `ForgottenIsGone` |
| `worker` | 2 accounts, 2 rows of the first of which one never settles, batch 4, concurrency 2, 5 configurations, 1 doing of the user, 1 fault | `ChangesTakeEffect`, and, under fairness, `PollsGoOn`, `AttemptsGoOn`, `StopEnds` |
| `service` | 2 processes of one directory and 1 of another, 1 page, 2 saves or transactions together, 1 fault; files and databases that are right, old, unknown and broken | `ConfigSurvives`, `FileIsMemory`, `SavesOverSeen`, `CommittedIsKept` and, under fairness, `ServiceComesBack` |
| `reading` | 4 subjects, 2 dates and none, pages of 2, at most 2 pages, limits 3 and 4, 2 marks, 1 failure; the client takes pages of 1 or 2 and any filter | `CompleteIsWhole`, `ListedOnce` and, under fairness, `WishIsFollowed` |
| `catalog` | 2 requests, 2 accounts, 1 limit, 1 tag, 1 mark with the tag up to twice, 1 incident (change of the account, failed write, dropped request, crash) | `OwnAnswers`, `MarksAreShown` |
| `shared_torrent` | as `effects`, with 2 movies that find one torrent and a user who keeps out | [findings](#findings) |
| `tv_docs`, `cleanup_docs` | as small as they go | [findings](#findings) |

**Why these bounds suffice to reach what matters.** With two executors and lease 2 in a clock of
three instants an attempt expires while its executor is alive, is reclaimed by the other one,
and the first one returns late; three attempt ids are one more than executors, so a dead attempt
can stay in a row while both executors work on something else. `MaxRetries = 2` lets a row fail,
fail for good, and be forced again. Three polls insert, deactivate and reactivate a row, or turn
it into a series. One subject is enough where the property is about one row, as no command but a
poll and the start-up backfill touches two; the selectors' order and the snapshots' sets need
two subjects, which `polls` has for snapshots. Two torrents are needed for a replacement only.
Four generations let two pollers supersede each other twice and let the backoff reach its cap of 3. Retry
delays of 1 put a due time before, at and beyond the end of the clock.

In `effects` two torrents let an older download be taken for the newer one, two files let one be
linked and the other not, and two copies of a torrent's files let a link outlive the file it was
made to. One step of the user is enough to put something in the way at any point; crashes are
not bounded. Of the names, one shows the season twice, one runs backwards, one has a zero, and one
has a zero in Chinese; TMDB lists a season 0, which must not be taken.
In `worker` the slots are as many as the rows, so a row that hangs leaves one slot for the other
one; batch 4 is the default and allows a row to be claimed several times in one batch. The poll
interval is twice the retry interval and the lease twice the idle one, so every order in which
they run out occurs. In `service` one fault cuts off every step of a start, a save and a
transaction. Two saves let the second one meet what the first one left, and so do two
transactions, of which a loss of power takes back the last one alone; a third process has the lock of another directory, hence meets the others in the database alone. In
`reading` the list of four fills two pages or is cut by the limit of 3, and rows of one date are
told apart by their subject. In `catalog` two requests are a reader and a writer, or two writers
of one temporary file, in every order; one mark and one incident come at any step of them. With
two limits, or two marks, it is out of TLC's reach.

**Symmetry and view.** Executors, attempt ids, pollers, clients, torrents and subjects are
interchangeable in `MCSubscriptions`: no definition orders them, no property names one, and no liveness is checked.
The same holds of requests and accounts in `catalog`.
The view (`Relevant`) forgets revisions: they are only compared for equality, between a row and
a client's read of it, and whether the two are equal stays in the view; `MaxRevision` is never
reached. It forgets what a stale read contains, since its client can only drop it, and what a
lost attempt was going to do, since its executor can only drop it too; which subject such an
attempt still acts on, and until when it believes to be entitled to, stays.

The actions whose actors are absent in one run are taken in another; every action is taken in a
passing run.

## Fairness and assumptions

`SubscriptionRepository`, `SubscriptionEffects` and `CatalogCache` state no fairness and claim
nothing to happen: their actors may stop at any time. The other three have liveness properties:

* `SubscriptionWorker`: weak fairness of the loop's own steps, of every attempt's end and of time.
  The loop is one task that awaits calls with timeouts (HTTP clients, SQLite's busy timeout), and
  a poll's fetch is bounded likewise; the end of a manual poll, what the user does, errors and
  crashes have no fairness. Time passes while the worker sleeps or waits, not during its own
  steps. Attempts of rows that are not `Troubled` end before their lease does (900 seconds by
  default against calls of half a minute); those of `Troubled` rows are refused each time.
  `AttemptsGoOn` assumes fewer of these than slots. Forced retries are left to
  `SubscriptionRepository`.
* `StorageService`: weak fairness of starts, because the container is restarted whenever it ends
  (`deploy/nas/docker-compose.yml:5`, `restart: unless-stopped`), of the blocking job, and of the
  commit of a transaction that has begun. Users are under no obligation.
* `LibraryReading`: weak fairness of polls, which `PollsGoOn` gives, and Douban fails finitely often.

Assumptions on the outside:

* `SubscriptionEffects`: an attempt begins when no add is on its way (an add of a dead attempt is
  listed before the next attempt looks for it: a failed attempt is retried after 30 seconds at the
  least, `config.rs:586`; a retry that the user forces sooner is left out); the user puts nothing
  at a target that is being removed at that moment and adds no torrent that is being deleted;
  torrents have files of their own on the disk; the tracker's file is reduced to its hash.
* `LibraryReading`: `CompleteIsWhole` is about a list on which nothing moved up while it was read.
  A mark that is taken away, or renewed, moves the later entries across the page boundary, and a complete
  snapshot may then miss one; the next poll brings it back, as `WishIsFollowed` shows.
* `StorageService`: a page loaded from the process that runs (`SavesOverSeen`); the revision starts
  at 1 in each process, by plan, so a page of an earlier one may match by chance.

* `CatalogCache`: a file can be removed whenever the code tries to (a failure is logged and ignored);
  the accounts' keys make distinct file names, none of which begins with another one and `_`, as
  the numeric ids of Douban do. `MarksAreShown` leaves out a request that was reading or storing the
  list when Douban accepted the mark: it may store what it read before, behind the invalidation, and
  that list is shown until it expires, is invalidated or is refreshed.

And of `SubscriptionRepository`:

* `LeaseExclusive` is checked with a clock that only moves forward. It is a wall clock; set back,
  a lease can be in force again after the row was reclaimed. The fence does not rest on it:
  `ImplementsLifecycle` and the proofs do without.
* `NoLostWork` is checked with `SkipEdits = FALSE`. An editor that clears a skip reason through
  `update_detail` leaves a row without a due time; no production caller does.
* A transaction is atomic and isolated (SQLite's `BEGIN IMMEDIATE`).
* Attempt ids are fresh (UUIDs): a new id is not in the table nor held by an executor.
* The constants satisfy `RowAssumption`, `ClaimAssumption`, `NullAssumption`, `DelayAssumption`
  and `RepositoryAssumption`, all evaluated by TLC in every run. They say that numbers are
  numbers, that a lease and the first delay last at least a second, and that NULL is not a value.
  The other modules' assumptions say the same of theirs; `OptionsAssumption` is what
  `SubscriptionWorkerOptions::try_new` demands.

## Proofs

The theorems hold for any sets of subjects, torrents, attempt ids, executors, pollers, clients,
names, processes and configurations, any retry limit, lease, delays, clock movements, lag, copies
and bounds, under the named assumptions on constants, which TLC evaluates in every run. A further
hypothesis is in the theorem, where one is needed. Every inductive invariant was checked
with TLC first, on the instance of a run.

### The repository

* `SubscriptionRepositoryProofs`, of rows: for each row function, a lemma that it takes a good row to
  a good row. `RowOK` is: typed, accepted by the CHECK constraints, loadable, within its retry
  budget, on the track of its replacement, and running nothing but metadata while skipped. `Follows`
  adds how the new row relates to the old: a higher revision, and the claim kept, cleared or granted.
  And for what an attempt reports: whatever the world answers, it is a typed outcome, one
  that leads back to the search stage when it prepares a replacement, and nothing but a disposition of
  its operation (`FinishOutcomesOK`, `FailOutcomesOK`, `FinishDispositions`).
* `SubscriptionRepositoryProofs`, of the repository: the inductive invariant

      IInv == TypeOK /\ RowsOK /\ ReferencesOK /\ OneHolder
              /\ ClaimFreezesPayload /\ RevisionIdentifiesDetail

  one lemma per action, and `Spec => []IInv` (`Invariance`). From it follow, each as a theorem of
  `Spec`, `TypeOK`, `RowsWellFormed`, `SelectorsAgree`, `RetryBudget`, `SkippedRunsOnlyMetadata`,
  `ReplacementOnTrack`, `ClaimFreezesPayload` and `RevisionIdentifiesDetail`.
* `SubscriptionStepProofs`: `StepForms` sorts the steps by who takes them - an executor's claim,
  extension or settlement, the end of an actor, a user's or a client's edit, a poll, the clock - and
  says for each what it makes of every row (`ClaimMade`, `Extended`, `Settled`, `Edited`,
  `Sighted`). A property of steps is then one lemma per form: `ConfirmedChoiceIsKept` and
  `CleanupComesFirst`. `WorkIsNeverLost` adds that a claim is of a row with a due time or a lease,
  under `~SkipEdits`, which is what production does: the poster backfill edits only the poster.
  `LeasesAreExclusive` is about a clock that is never set back (`ClockSteps \subseteq Nat`); its
  invariant `AllGuarded` says that an attempt within its lease which no poll revoked is the attempt
  of its row.
  A further part is the invariant of polls, `PInv`, beside `IInv`. That the current poller can close
  needs that it began after everything the account knows of (`PollersKnown`) and that no
  row was seen later than the account was updated (`RowsSeen`); that `active` means seen needs
  that at most one poll is open, the last one begun, and that the last complete snapshot is of a
  poll that is over (`MetaOrdered`). The clock may move as it likes. Theorems `MetaStaysWellFormed`,
  `CurrentPollsCanClose`, `ActiveMeansSeen`.
  Then the backoff, `BackoffStaysBounded`. Its delay is a recursive function, and the
  library's induction is out of the provers' reach; instead, `LeastOf` (the natural numbers are well
  founded) gives a least number of failures for which there is no delay, or one out of bounds, and
  that number is refuted (`DelaysExist`, `DelaySecsIs`, `DelayBounded`).
  The last part is `RepositoryImplementsLifecycle`, the refinement mapping step by step. A claim grants, an outcome settles, a refused or dead executor vanishes, a command redirects, a
  snapshot polls, and every other step stutters. It needs `IInv` and that a claimed row is no longer
  queued (`Started`).

Why the strengthening is needed: `ReplacementOnTrack` after `Finish` depends on what the executor
holds being what the row holds — its outcome was computed from the payload it claimed — hence
`ClaimFreezesPayload`. That in turn is preserved by a claim only if the new attempt id is nobody
else's, hence `OneHolder`. `RevisionIdentifiesDetail` is preserved only if a row never returns to
a revision that a client has read, hence every step must raise the revision of a row it changes
(`Advances`) and no client may hold a revision above its row's (`ReferencesOK`). The common part
of all steps is one lemma, `CarefulStep`: a step that replaces rows only by rows that follow them,
and adds attempts and reads only for rows as they are, keeps `IInv`.

### The attempts

`SubscriptionEffectsProofs` proves all nine properties of the run `effects`, for any number of
subscriptions, torrents, files and names, any copies and any meddling. The base is `StateOK`: rows,
qBittorrent and the disk are of their kinds, and a running attempt acts upon the row as it is
(`AttemptFits`), which holds because nobody but the attempt writes to a claimed row. Then, each
inductive beside `StateOK`:

| Invariant | What it adds, and why | Theorems |
|---|---|---|
| `FlowInv` | not only what carries a key is unique but what may come to carry it, adds on their way included (`Claimants`); an add is made only when nothing of the subscription is on its way (`NothingImported`) and nothing was listed by the tag | `OneEffectOneTorrent`, `PushedMeansListed` |
| `LinkInv` | what an attempt planned to skip or accept, and what it noted as linked, is already ours; no step of the world makes a path ours or anybody else's in between | `LinkedStaysOurs` |
| `CompletedInv` | a completed series covers all its episodes by the journal; with `LinkInv` the journal is true | `CompletedMeansCovered` |
| `MovieInv` | a search has only failed and retired downloads, and what failed is what the next attempt pushes again, because the candidate that was authorized stays so (`Authorized`) | `OneDownloadPerMovie` |
| `CleanInv` | a cleanup knows every torrent listed under the row's tags; what it has passed holds no link of ours; when it deletes, nothing is left to remove | `NothingOfTheUsersGoes`, `NothingIsLeftBehind` |

`EffectsAreTyped` needs `StateOK` alone. `PayloadsAreAccepted` needs beside it `RowsAccepted`, that
what is written is valid: of a row as `StateOK` has it, the validation can refuse nothing but what
the names of its files say (`OnlyNamesAreRefused`), and of these, going down to what `recognize`
makes of a name (`MarkerIsValid`), nothing but a zero in Chinese numerals (`OnlyZerosAreRefused`).
What an attempt reports is such a row, unless its title says season 0 (`ReportIsOK`). There is no
hypothesis on names or titles: the two zeros are refused, each time, and the property names them
(`ShowsZero`; see [below](#findings)). The invariants were also checked on a variant of the run
with two subscriptions, because the instance of the run has one. The proofs found what TLC cannot:
arms of a `CASE` in `QbReconciliation` and `LinkRetry` that overlapped, where TLC took the first one and the
semantics allow any; the order of the code is now an `IF`.

### The service

`StorageServiceProofs`, for any number of processes in any directories, any pages, saves and faults:

* `FileStaysMemory` from `FileInv`: the lock leaves one process of the directory past `"down"`, so it is
  enough to say, for each `pc` and each stage of a save, how that one's memory and the file are
  related. The hypothesis `~IsJob(Null)` says that "no job" is not a job.
* `CommittedStays` from `DatabaseInv`: a database is missing only while nobody has it open and
  nothing is committed; what is committed, and not taken back by a loss of power, is on the disk
  under its name, and what a loss of power may roll back to (`removed`) lacks at most the last
  transaction.
* `PagesSaveOverSeen` from `PageInv`: a page that carries the revision of its process shows what that
  process published last, because every publication raises the revision.
* `ConfigAlwaysSurvives` from `ConfigInv`, which follows a configuration from the file or a patch
  through the job to the file and its backups. It rests on `NormalStays`: for every configuration,
  normalizing twice is normalizing once. The ids of the servers are a recursive function over
  their list, which is there (`IdsExist`, by the least length without one); an id that was made
  unique is free, so it is kept the second time (`NormalServersStay`). Keywords and rules are
  arranged by their rank in an order (`FiniteOrders`), and what is arranged has every place as its
  rank (`KeywordsStay`, `RulesStay`). `PatchesMakeConfigurations` says that a patch leads
  from configurations to configurations. What is found, sent and brought is assumed to be made of
  the right parts (`ConfigurationsAssumption`), which the deserializers of the code see to.

### The cache

`CatalogCacheProofs`, for any accounts, tags and limits, any number of requests at a time, marks and
incidents. `Typed` says that a file holds what its key promises under both of its names, and that
whoever has a file open has it under a name of the key it writes; `FileStep` is what a step can do to
the files of a key: lose or tear them, publish what is under the temporary name, or bring in the
value of a request that is storing under that key.

* `AnswersAreOwn` (`OwnAnswers`) from `CountsInv`: a history that is stored, in either file, or on its
  way to it leaves room for the uses of a tag that Douban accepted and nobody has counted yet, a
  repeated word as often as the mark has it. Requests that count at
  the same time read the same history, so both leave that room; one of the two counts is lost and
  none is made up.
* `MarksStayShown` (`MarksAreShown`) from `ListsInv`: what a list on its way shows is at least each
  change that is `Due`, those of marks that are still invalidating included. A mark becomes due when
  it is accepted and no rival is under way, hence nobody has to be told; what was stored before
  counts as shown only once its name has been removed. `settled` follows a mark whose names have all
  been removed.

The three invariants were checked on the instance of `catalog`, and with two marks (of a tag once)
for each account on one without incidents.

### The worker

`SubscriptionWorkerProofs`, for any rows, accounts, options and faults: `ChangesAlwaysTakeEffect`
from `WorkerInv`. That two batches at most are claimed on a replaced configuration needs a
bound for each point of the turn: as long as the worker's snapshot is not the configuration, what
has been claimed since the change is at most what the turn can have claimed by now (`MostClaims`). A
change begins the count anew, and the next turn takes a new snapshot. That no more attempts run than
`concurrency`, reclaimed ones whose first task still runs included, is part of it, since a batch
claims only while it has room. `WorkerInv` was checked on the instance of `worker`.

### The readings

`LibraryReadingProofs`, for any wish list, page sizes, limits, filters, marks and failures. That a finite set
can be put in order is proved without induction: among the elements of a set that an order ranks, every
rank below its size is taken, by an injection into an interval of that size (`RanksAreTaken`, in `FiniteOrders`).

* `WholeSnapshots` (`CompleteIsWhole`) from `WishInv`: of an undisturbed reading that goes on, every
  wished subject is on the list still, and one at a place before `start` is in the reading. A new mark
  shifts all places back by one, so the places passed are only fewer. A page that leaves room is taken
  whole (`TakenIs`), and only an empty page makes a reading complete.
* `ListsShowOnce` (`ListedOnce`) from `VisitInv`: of the rows that have not changed, those the client is past
  have been shown once if its filter takes them, and all others never. It rests on `ListPageIs`: a page
  is exactly what lies between its cursor and the next one, although each partition's query is
  bounded. A row that a bounded query leaves out follows more rows than the page takes (`FirstOfIs`), so
  it also follows the page's last row. The cursor is compared as a key; the row it was made of may have
  changed or moved.

`WishInv` and `VisitInv` were checked on the instance of `reading`.

### What is only model-checked

* Liveness (`PollsGoOn`, `AttemptsGoOn`, `StopEnds`, `ServiceComesBack`, `WishIsFollowed`): under
  fairness, hence with `ENABLED`, which TLAPS does not do. All safety properties of the passing runs
  are proved.

## Findings

* **`cleanup_docs`** (code). A replacement first journals the files to delete, then deletes them
  in another attempt. A poll that in between finds the movie to be a series resets the artifacts
  (`storage/subscription_repo/poll.rs:1190`) but keeps the two replacement flags. The next attempt
  cleans up an empty list, reports success, and the old torrents and files stay for ever. The
  repository's README (line 61) says that a cleanup keeps its records until it succeeded, and
  `force_retry` (`storage/subscription_repo.rs:710`) refuses to lose that journal.
* **`shared_torrent`** (code). A subscription whose torrent qBittorrent already has under its hash
  adopts it and adds no tag. When the subscription that did add it is given another torrent, the
  cleanup looks for other owners among the tags only (`execution_effects/replacement.rs:156`), finds
  none, and deletes the torrent and its files while the other one is downloading them. The
  README (line 61) and the function's message say that it stops when a torrent is shared.
* **`tv_docs`** (document). `docs/architecture/data-storage.md:63` says a series is never claimed;
  it is, and `docs/architecture/overview.md` describes that it is.

Met on the way, without a run. `subscription/repository.rs:1453` says a poll must preserve a row's
retry, lifecycle, scheduling and detail state; a change of kind resets them on purpose
(`subscription_repo/poll.rs:1190`). `docs/architecture/data-storage.md:73` says the caches can be
deleted and rebuilt; the history of tags (`app/douban_catalog.rs:963`) lies among them, is read at
any age and comes from nowhere else, and once no mark was made for one TTL the cleaner removes it
(`tmdb_cache.rs:145`). A file named `第0集` is recognized as episode 0
(`subscription/episode.rs:166`; a zero in any other form is refused), and a title that says
"Season 0" or `第0季` makes season 0 of a series whose episodes Douban counts
(`execution_effects.rs:1133`; not `第零季`, whose zero is filtered, nor of one that TMDB is asked
about). The payload that reports either is refused (`repository/payload.rs:624`, `:431`), so the
attempt cannot settle: its row is leased and tried again for ever. Both are in the instance of
`effects`, and `ReportsAccepted` says that nothing else is refused. The database is opened with SQLite's
own settings but for `DELETE` journals (`storage/sqlite.rs:367`), and with these SQLite does not sync the
directory after it has removed a journal: a loss of power may bring the journal back and take back
a transaction that was reported. `CommittedIsKept` says that it is the last one at most. A word that a mark has
twice among its tags is kept twice (`douban.rs:918`) and counted twice in the history
(`app/douban_catalog.rs:938`), so that a count may exceed the number of marks; `OwnAnswers` is about uses.
A series may keep an older download current after a newer one
is pushed again (`subscription/repository.rs:2143`), which is why `CurrentIsUnique` is about movies. A
link made right before a crash is in no journal until the next attempt accepts it, and
`ForgottenIsGone` is about what is journaled. The comment at `storage/sqlite.rs:252` says a start cannot
recover a hot journal; the migration that comes before opens the file to be written and does
(`Migrate`), without which `ServiceComesBack` fails.

## What is not modelled

| Left out | Why |
|---|---|
| Row data that decides nothing modelled | titles, posters, issues, `updated_at`, `inactive_at` |
| Validation of texts and times in a payload | inputs are payloads that pass it; episodes, downloads and link states are checked (`PayloadRules`) |
| Syntax | TOML, HTML, JSON, torrent files, the digits in a name: a parsed value is the input |
| Paths in the library | how category, title and season become a path; a target is one place per file |
| `MaxRetries` per row | one value for all rows: a row gets its limit when a poll inserts it, no command changes it, and none compares the limits of two rows |
| Several accounts in `SubscriptionRepository` | no command joins rows of two accounts; `SubscriptionWorker` has two |
| The composition of the six state machines | their product is out of TLC's reach; what one takes from another is named above and checked there |
| Busy timeouts, `ensure_cache_roots_are_isolated` | a transaction that waits too long is an error of its caller, which is modelled |
| Operation logs | appended in the same transactions, read by no command; retention is one statement by age |
| Management authentication | a throttle per peer under one mutex, apart from all else; what a token must be is in `FileConfigRules` |
| Poster files | nothing that is modelled depends on them |
| The cache of TMDB as an instance of its own | a directory of its own, used as `library` uses the other one and never invalidated: it can do nothing that `CatalogCache` does not |
| The order of the tag history | only the counts are kept; that one of two counts is lost when requests overlap (`app/douban_catalog.rs:909`) is what the code does |
| Passwords of servers without ids | kept by the normalized id (`http/config.rs:364`), modelled as it is (`PasswordOf`); no document says which server is the same one |
| Frontend | stores and views; its pages appear as clients with the revision or cursor they hold |
| HTTP mapping, OpenAPI, redaction | I/O and wiring |

## Plan

Done: the six state machines, checked; all their safety properties and the refinement, proved.
What is left: login throttling and log retention, if runs can be spared for them.
