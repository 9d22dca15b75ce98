# Verification of agentnews

TLA+ models of `src/` (agentnews: a publication that imports research runs of
Sneferu, stores them in SQLite, and serves them over a FastAPI server and a static
site), the TLC configurations that check them on small instances, and TLAPS proofs
for every instance. Paths below are relative to `src/src/agentnews/` unless they
begin with `docs/`.

Contents: 1 inventory, 2 plan, 3 the modules and the code, 4 what the runs check,
5 fairness, 6 what is proved, 7 where code and documents disagree, 8 what is not
modelled, 9 how to run it.

## 1. Inventory

The processes: one API server (uvicorn, one process; synchronous work goes to a
pool of threads that share **one** SQLite connection), any number of CLI commands
(each with a connection of its own, some for seconds, `watch` for ever), and the
programs around them: Sneferu, which writes run directories, the operator, the
clock. What they share is the database file, the runs directory, the lockfile of
`watch` and the PID file of the server.

| component | code | state it keeps | operations | hard behaviour | what makes it correct |
|---|---|---|---|---|---|
| Package store, lifecycle | `storage.py`, `cli.py` | `packages` rows: status, `publish_after`, stamps, `is_sample` | import-run (with `--replace --stage --sample --force`), watch, withhold, republish, sample, lazy publication by reads | reads without a transaction, then UPDATEs by id alone; several commits per command; commands that stop half-way | the documented status machine; one sample; a run once and an id for one run; forced imports never published; due packages published |
| Ingestion, admission | `ingest.py`, `filter.py` | parsed citations, content hash, verification states | gather citations, hash, verify links, identity check, admit, recompute the hash | order of hash and verification, ordinals from three sources, slow or silent servers, a time budget | what was read stays up to its row; the hash says whether a bundle was altered; the minimum of citations |
| Watcher | `cli.py: cmd_watch` | lockfile, `_stop`, the queue and transaction of a scan | start, scan, import one, log, stop | half-written runs, uncaught exceptions, signals at any point, one connection for many runs | one watcher; each run decided once; new runs served; SIGTERM ends it |
| Rate limiter | `ratelimit.py`, `api.py` | four kinds of rolling windows in memory, `request_log` | count or refuse, headers, warm-up | restarts and crashes between answer and log row, whole seconds against floats, boundaries | no window over its limit; headers that tell the truth |
| API keys, key cache | `auth.py`, `storage.py` | `api_keys` rows, cache entries | create, revoke, expire, validate | a cache without a lock in a thread pool, revocation in another process | revoked keys refused after 60 s, keys in force accepted |
| Server connection, request log | `db.py`, `api.py` | open transaction, its snapshot, the write lock | lazy pass, reads, log row | threads that share a transaction, lock timeouts, errors that are dropped | every request logged, reads fresh, the lock released |
| Routes, middleware, errors | `api.py`, `models.py`, `examples/fetch_bundle.py` | a handler's progress, the pool's threads | gate, read, answer; timeout, log, ETag | several calls per answer with commands between them, a timeout while the thread goes on | what is served was published; the tamper check is right; one log row for each answer; everyone is answered |
| Log retention, reports | `storage.py` | `request_log` | purge, two reports | text timestamps of two formats | the rows that the limiter's next warm-up counts stay |
| Migrations | `db.py` | `schema_migrations`, the tables | apply | processes that start together, kills | the schema is whole where a process goes on; a server comes up |
| Backup, restore | `cli.py`, `db.py` | database, `-wal`, PID file | checkpoint, copy, replace | writers and checkpoints meanwhile, a left-over WAL, a stale PID file | a copy is one state; a restore gives that state; none under a server |
| Static site | `cli.py`, `render.py` | files of the site | deploy | file by file, a crash half-way, two deployments at once | a deployment leaves what it listed; nothing unpublished is shown |
| Rendering | `render.py` | none | templates, Markdown | none: formatting | - |
| Configuration | `config.py` | `.env`, `os.environ` | load, `ensure_log_salt` | two first starts, a variable that is set but empty | one salt for all lives of the server |
| Deployment scripts | `scripts/` | systemd, nginx | install, deploy | outside the program | - |

`PROJECT.json` lists every hazard of these components at its line, with the
properties that stand guard over it.

### How they interact

* Every command and every read of the API goes through `packages`. SQLite gives
  each *statement* atomicity and one writer at a time; the code's units are larger
  (read, decide, write), so everything between is up to interleaving.
  `PackageStore` has one step for each read and each committed write.
* A request passes the gates of `RateLimit`, of which the first is `KeyAuth`'s
  `require_api_key`, runs a lazy pass of `PackageStore`, reads, and is logged; these
  database accesses are the steps of `ServerConn`, and its log row is what
  `RateLimit` reads at the next start.
* `watch` imports with `RunAdmission`'s steps into `PackageStore`'s rows; what
  `WatchLoop` adds is the lock, the signals, the dedup and the transaction that
  a failed import leaves to the next one.

* Before any of this a process has gone through `Startup` (configuration, salt, migrations);
  `DatabaseFile` is the same database seen from below, as the files that SQLite keeps and
  that backup and restore copy; `Responses` is the request seen from its client, across
  the calls that `PackageStore` and `ServerConn` look into; `StaticSite` is what nginx
  serves beside the API.

The modules meet at these named interfaces rather than in one product: the product
of ten of them has no property that two neighbours do not have, and no instance of
it is small enough to check.

## 2. Plan

In the order in which the modules are worth having:

1. `PackageLifecycle` and `PackageStore`: what the publication promises its readers,
   and the interleavings under it. *Done; every safety invariant and action property of its
   runs proved, and the refinement.*
2. `KeyAuth`. *Done; its safety proved.*
3. `ServerConn`, `WatchLoop`, `RunAdmission`. *Done; their safety proved.* `RateLimit`.
   *Done; the safety of one life of the server proved.*
4. `Startup` (configuration and migrations), `DatabaseFile` (backup, restore, PID file),
   `Responses` (routes, middlewares, clients), `StaticSite`, and purge-logs in
   `RateLimit`. *Done; their safety proved.*
5. Abstract specifications worth adding: an *exclusive worker that decides each run
   once*, which `WatchLoop` refines. What a *gate* promises (a bucket that forgets exactly
   after 24 h) is `LifeInv` of `Gates_proofs`.
6. Proofs next: `RateLimit` WindowCap across restarts, which has to count the rows of the
   log in two orders (section 6), and the refinement of item 5. Of the safety properties and action
   properties of the runs none is left without a theorem.

## 3. The modules and the code

Every definition that stands for code is mapped to its lines in `PROJECT.json`;
here is how to read them.

**`PackageLifecycle`** is the abstract specification: the status machine that
docstrings and guards of `storage.py` state (`absent → imported → staged → published
⇄ withheld`, and removal), one package at a time, with the one operation that
moves several packages, `LazyPublish`.

**`PackageStore`** is the code. `pkg[q]` is a row, with the columns that decide
anything: status, run, `is_sample`, `publish_after` (NULL, future, passed), whether
`published_at` and `withheld_at` are set, and `extensions.agentnews.forced_import`.
`seen` is `ingest_runs`. `pc` and `job` hold each process's next step and what it has
read. A SELECT is one step; a transaction (first write to commit) is one step, since
it holds the write lock; so `withhold` is `WithholdRead` (status checked) and
`WithholdWrite` (UPDATE by id), import-run is up to seven steps. An UPDATE on an id
without a row does nothing (`Update`). A pass over due packages reads its ids in
`LazyScan`, and then works through them (`LazyRead`, `LazyWrite`); in the server other
threads may commit its transaction early, in the CLI all is committed at the end or
rolled back (`LazyAbort`). `Stop` ends any command between two steps: killed, out of
`busy_timeout`, or by an uncaught exception. `Stick` is a write of the server (a pass's or a
log row's) that runs out of `busy_timeout`: `api.py` swallows the exception and rolls nothing
back, so the server's passes rest (`ServerStuck`) until a later commit gets through (`Unstick`) or
the server is started again (`Restart`). The ids generated by `generate_id` are fresh;
`--replace` reuses the old one. Each run is naive or not for good: `compute_latency`
raises on a naive `run_completed_at` (`Unpublishable`). How a run is parsed and admitted is
`RunAdmission`'s; here the flag "force" says that it was rejected and forced in.

**`KeyAuth`**: `row` is `api_keys`, `cache` is `KeyCache._entries`. `validate_key` is
`Begin` (the lookup), `Drop` (the `del` of an expired entry, which raises when another
thread was first), `Select`, `StoreResult`, `Return`. A revocation is `FindRow` and
`RevokeRow`. Time is ages and remaining lives in ticks, so the clock has no bound.
`dead` counts the ticks since a key was revoked or expired.

**`RateLimit`**: `dq` are the four dictionaries of deques as ages; `Count` is a request
at its gates, in the order of the route's dependencies: each gate passed counts it, the
first full one refuses. This is one step because the gates are `async` functions
without an `await` between check and append. The row of `request_log` is written later
(`LogRow`) or lost (`LoseRow`, `Crash`); `WarmUp` rebuilds the windows at a start. A second
is `Second` ticks: the log stores whole seconds and Retry-After is in whole seconds
while the windows hold floats. `phase` is the time since midnight, which decides what
`Purge` deletes: `purge_logs` compares `YYYY-MM-DD hh:mm:ss` with `YYYY-MM-DDThh:mm:ssZ` as
text, so the whole day of its boundary goes.

**`ServerConn`**: the shared connection. `inTx` is `in_transaction`, `snap` the snapshot that
its transaction reads, `lock` the database's write lock. A thread's `execute` is
`TestBegin` and `BeginTx` and `Write`, its `commit` `TestCommit` and `Commit`: Python's
sqlite3 tests and acts in two steps and other threads come between. What SQLite
and sqlite3 do is external and modelled as documented by them: deferred BEGIN, snapshot
fixed by the first read, SQLITE_BUSY at once for a stale snapshot, after a wait for
a taken lock. `Escape` is a route that raises: the exception passes `request_logger`, so nothing
is logged and nothing committed. `calm` records that requests have not overlapped and no write met a lock.

**`RunAdmission`**: one import from `parse_citations` to `recompute_content_hash`. A
citation is what the later steps tell apart: the JSON type of its title and of its other
details (authors, year, excerpt), what its link leads to, its `verified` state. `Column` is what
SQLite's TEXT columns make of a number. Numbered lines and bullets come in any order and number,
then corpus entries; `hash` is the payload that was hashed. A numbered line whose ordinal a
bullet took is `dropped` (`ingest.py:591`).
`Resolve` and `CheckIdentity` take 0 to `Slow` ticks each, and the deadline is looked at
where the code does.

**`WatchLoop`**: `cmd_watch` and `_import_one` for each watcher, on a runs directory that
`Produce` fills: a directory, then `signature.json`, then the rest. `tx` are the package
rows in the open transaction of the scan, which a failed INSERT leaves and the next
`Commit` stores. `Kill`, `Term`, `Interrupt` and `Fault` may come at any step; `StartFails` is
the lockfile created and its pid not written, which ends the command before its `finally`.

**`Startup`**: `proc[p]` is a process on its way from `init`, `migrate`, `serve` or the
systemd unit: its command, next step, what `os.environ` has of LOG_SALT, and the migrations
it believes pending. `file` is LOG_SALT in `.env` (no file, no line, an empty value, or a salt).
`ReadSalt` and `AppendSalt` are `ensure_log_salt` split where another process may come between
its read and its write, as `CreateSample` and `WriteSample` are `write_text` of the first `.env`
where a kill may leave the file empty (`whole` is false meanwhile); a unit that ends by itself is
"failed" and one that was stopped "off"; `EnsureTable`, `AppliedMigrations`, `Apply`, `CommitMigration` are
`run_migrations`, split in the same way; `Kill` comes anywhere.

**`DatabaseFile`**: `main` and `wal` say for each page which commit wrote it last. What
SQLite does with them is external. The server's life is `StartServer`, `WritePid`, `Bind`,
`StopServer`, `RemovePid`, `CloseServer`, in the order of the lifespan and of uvicorn, which
binds its socket between them. `Backup` to `BackupCopy` and `Restore` to `RestoreCopy` are
the two commands, whose `shutil.copy2` takes a step for each page. `Restore` is no more than the
check of the PID file (`ServerRunning`), and `RestoreOpen`, which truncates the database, a step
of its own: a server may begin to take requests in between.

**`Responses`**: `handler[q]` has the calls that a request's handler still has to make,
each in a thread of the pool, and what it has read; `outer[q]` is where the middlewares are:
`inside` the timeout, about to `log`, `logging`, `sent`. `Timeout` moves on without the handler,
which then goes on or is cancelled (Starlette's versions differ: `Cancel`). `Edit` is any
commit of the CLI. `Limit` is a refusal of the two gates of `/v1/sample`, which need no thread.
`AsHashed` are the versions whose import stored the citations as it had hashed them, which no
verified import does: `Match` is the recomputed hash against the stored one. `May` is the order in which `fetch_bundle.py` asks.

**`StaticSite`**: `index` and `page` are files as the set of what was written to them
since they were last truncated, because `write_text` truncates, then writes, and two writers
may do so at once. `--replace` is `ReplaceDelete` and `ReplaceInsert`, two commits, and
`citations[p]` is `None` between them. A deployment goes through `List`, `TruncateIndex`, `WriteIndex`, `Exists`,
`Unlink`, `RemoveDir`, `MakeDir`, and for each package `Cits`, `Create`, `Write`; where the
directory has changed under it, `Clash` ends it with the OSError.

`MCPackageStore` and `MCKeyAuth` define the instances that a `.cfg` cannot; `*_proofs` hold
the proofs.

## 4. What the runs check

| run | instance | question |
|---|---|---|
| `store_serial` | 1 CLI process, all commands and flags, delay on or off at each command, 3 ids, 2 runs (1 naive), 2 stops | Does the store implement the lifecycle when commands do not overlap, though they may stop half-way? Stamps and forced imports. |
| `store_concurrent` | 2 CLI processes, all commands, `--replace --sample`, 2 ids, 2 runs (1 naive), 1 stop | What the unique indexes and the reuse of ids keep under every interleaving: one sample, an id for one run. |
| `store_live` | 2 CLI processes and 1 server thread, import (`--force`), watch, withhold, republish, 2 ids, 2 runs (1 naive), 2 stops: commands that end half-way, lock timeouts and restarts of the server | Without `--replace`: nothing is served early or forced, an import does not undo a later transition, a due package is published unless a naive one or a lock timeout holds up the passes. |
| `rate` | one key, IP and user agent, limits 2, 2 and 1, a window of 2 s of 2 ticks, 3 requests in it, 1 restart or crash, 1 row lost, purge-logs of 2 days at any time | The caps, across a restart too, Retry-After, and that nobody is refused who has room. |
| `key_cache` | 1 key, 1 guess, 2 threads, 1 operator, TTL 1, lifetimes 1 and 3 | Revocation and expiry take effect after TTL and for good; keys in force are accepted; guesses are not. |
| `conn_threads` | 3 threads, 1 CLI writer | Committed rows, fresh reads, the lock's release. |
| `admit` | 2 ordinals, 5 kinds of links, titles of text or a number, details absent or a number, minimum 2, budget 3, fetches up to 2 ticks; with and without verification | What was read is kept, the hash, the minimum, the budget. |
| `watch` | 2 watchers, 2 runs of any of 6 natures, all events, a full disk under the lockfile too, 1 database error | The lock, dedup, whole packages, SIGTERM. |
| `startup` | 1 unit that may be stopped, 1 operator, 2 migrations, 3 salts, `.env` absent, without LOG_SALT or with one, 2 kills | Whole schema, one salt, a server comes up unless the operator stops it. |
| `database_file` | 2 servers, 1 writing command, 2 pages, 2 commits, 1 kill | When a backup is one state, when a restore is exact, and what the PID file's check guards. |
| `responses` | 1 agent, 1 reader, 1 taster of the sample, 2 requests of theirs, 1 thread, 2 commits of the editor, the package in any status at first, version 1 stored as it was hashed and the others not | What is served was published, what the tamper check compares, the log, and answers for everyone. |
| `static_site` | 2 deployers, 2 packages, 3 commits, 1 crash | What a deployment leaves, and what a visitor may see at any moment. |

Why these bounds are enough. The hazards of the store are between two commands and
one row: two processes, two ids (one old and one new, or two rows a pass may take) and two
runs show each of them, and the third id in `store_serial` leaves room for a reused id
and a fresh one; the proofs show the same for any number. In `KeyAuth` the race is between two
threads and one key. The windows of `RateLimit` need one request more than the limit, one tick
before and after the boundary, and a second of more than one tick. A third thread in
`ServerConn` can end a transaction that the second uses and the first began. Two
ordinals let a bullet, a numbered line and a corpus entry collide in every pair. In `WatchLoop`
the transaction left by one run needs a second run to commit it, and the lock a second
watcher. `Startup` needs two processes (any race is between two) and two migrations, so that
one may be applied and the next not. Two pages are enough to tear a file, and two commits to
tear it across a state that was committed; the second server is there to take the PID file of
the first. In `Responses` one thread is the tightest pool (with more, what waits is served
sooner), two requests let any two overlap or follow each other, and two commits are a deletion and
an insertion around the second read of a bundle, or an insertion and its publication where
the row is missing at first. `StaticSite` has two deployments over each other, which is what a
watcher and an operator are, and a package that is deployed while the other is removed; three
commits are a whole `--replace` and the publication of the new row. In `store_live` one naive and
one other run let the one hold up the passes for the other, and two stops a lock timeout and the
restart that ends it.

`store_serial` has one process on purpose: it asks what commands do that stop half-way, with
every flag. What happens between two commands is the question of `store_concurrent` and
`store_live`, for the properties that survive it, and of section 7 for those that do not.

Bounds that are no fact of the program: `MaxStops` and `MaxFaults` (how often
something goes wrong), `MaxKills`, `MaxCrashes` and `MaxRestarts` (the same of killed and started
processes), `MaxCommits` and `MaxEdits` (commits of others), `MaxRequests` (requests of all
clients), `MaxRows` and `MaxLost` (requests in a window, rows lost), `Last`
(runs, ordinals, pages), one altered citation, and `Bound` in `KeyAuth` (any longer time). `admit`
and `responses` set `CHECK_DEADLOCK FALSE`: an import ends, and so do the clients.

The conditions in the properties of the later modules say what is *not* promised, and each
is needed: without it the statement is in section 7. `BackupIsOneState` asks that the checkpoint
was not kept waiting and that nobody moves pages during the copy (`calm`), `RestoreIsExact` that
nobody is connected and nobody was killed before, `RefusedUnderServer` that no second server is
started and that the server did not begin to take requests between the check and the truncation,
`LockIsReleased` that some request comes through `request_logger` now and again (`SomeAreAnswered`:
its commit is what ends the transaction), `DueIsPublished` that no due package is naive and no
lock timeout has stuck the server, `MatchIsExact` that links were not verified and no field is a
number, `ServerComesUp` that the unit was not stopped and `.env` is no half-written one,
`LockFollowsHolder` that the watcher was not killed and could write its pid, `SaltIsKept` that no two processes write a salt at once, `TamperCheck` and the second
half of `ServedWasPublished` that no `--replace` commits meanwhile (`quiet`), `SiteIsSnapshot` that
no other deployment runs beside (`whole`).

Each property was also run against the code with a plausible bug in it (a dropped
guard, a missing reset, a swapped order); these mutants are the definitions marked
"mutant" beside the ones they change, and each breaks its property.

## 5. Fairness

* `PackageStore!FairSpec`: the server's passes go on (`WF(Lazy(p))` for server threads: API
  reads keep coming, and a pass that has begun is not abandoned by the event loop), those that a
  naive package ends included, and the clock passes every `publish_after`. It is not assumed that
  a pass gets its write through: after a lock timeout `Lazy` is disabled, and nothing makes
  `Unstick` or `Restart` happen. Nothing is assumed of CLI commands.
* `KeyAuth!FairSpec`: a validation ends (each step is a local computation or one SELECT),
  and time passes. Nothing is assumed of requests, operators or restarts. `Prompt` says
  that no tick falls between a SELECT and the store of its result: a tick is of the order of
  seconds. Without it `RevocationTakesEffect` fails (section 7).
* `Startup!FairSpec`: every process goes on, and systemd starts the unit again when it has
  failed (`Restart=on-failure` of the unit file), not when it was stopped and not for the first
  time. `RestartSec=5` keeps the starts below systemd's default limit of five in ten seconds, so
  the limit never ends them. `ExecStartPost` asks for `/healthz` while the service, of
  `Type=simple`, may not listen yet; a start that it ends is one of the `MaxKills` kills: were it to
  lose that race for ever, no server would come up. Nothing is assumed of the operator.
* `Responses!FairSpec`: some handler or middleware takes a step as long as one can: SQLite's
  busy timeout bounds each call, and a free thread takes a call that waits. Which one is left
  open, so that no order of the pool's queue is assumed. Nothing is assumed of `Timeout` or `Cancel`.
* `ServerConn!FairConnSpec`: requests keep coming, each thread goes on, and a CLI command
  that holds the write lock commits or dies: every write of the CLI is followed by its
  commit without user input. That a route does not raise is not assumed: a thread may take
  `Escape` each time, and `LockIsReleased` has the condition that says so.
* `WatchLoop!LiveSpec`: a watcher takes its next step, and one is started when the lockfile
  is free (systemd or an operator does); `TermStops` needs only the first.

All of it is weak fairness: no step has to be taken that is not enabled from some
point on for ever.

## 6. What is proved

TLAPS proves for all values of the constants, from the named assumptions of the
modules only (`ConstantsAssumption`, `KeyAssumption`, `RateAssumption`, `ConnAssumption`,
`ResponsesAssumption`, `WatchAssumption`, `AdmissionAssumption`, `StartupAssumption`,
`StaticAssumption`, `NoFileAssumption`, `FileAssumption`: what the constants are) and, where
a theorem says so, a hypothesis on the constants: a way of using the program. Each of these
hypotheses is met by runs of section 4, and each is needed: section 7, or the text here, says
what happens without it.

`PackageStore_proofs` - `Spec => []IInv` and from it

* `TypeCorrect`: `TypeOK`;
* `SampleIsSingle`: `OneSample`;
* `RunsAndIds`: `RunStoredOnce` and `PidNamesRun`;
* `NaiveStaysUnserved`: `NaiveNeverServed`.

None of the last four is inductive. `IInv` adds what a process relies on from its
earlier reads: `HasArgs` (a step that names a run or package has one) and `Intent` (an import
that reuses an id holds the id issued for its run; a write that will publish or withhold names
an id issued for a run with a proper stamp), and for rows `RowsOK`: a stored row names
the run its id was issued for, and an absent row is no sample. The argument for
`NaiveNeverServed` is the interesting one. A process checks a row, and by the time it
writes, the row may have been deleted and inserted again under the same id; it is safe
only because the id was issued for a run and comes back for that run alone, and being naive is
a property of the run. The same reasoning fails for forced imports, which is
not a property of the run: section 7.

The other properties depend on what a process may rely on of a *row* between its read and
its write. `Spec => []Owned` (`OwnedInvariance`) says what that is, under `NoTakeover`: no
`--replace`, or one process. `Claim`: an import that goes on finds the row it inserted, still
imported; what a pass selected is due or has moved on to published or withheld; what curation
checked is still in one of these two. `Apart`: no two imports finish one row. `Columns`: how
status, `publish_after` and the forced mark go together. From it

* `ForcedStaysUnserved` (`ForcedNeverPublished`): `NoTakeover`; `store_forced_race` shows why;
* `NotServedEarly` (`NotBeforeItsTime`): `NoTakeover` and a delay at every import; with `--replace` a
  pass that had selected the old row publishes the new one under its id at once;
* `ServedStaysServed` (`NeverBackToStaged`): no `--replace`, which takes packages away on purpose.

Three more need `NoTakeover`, and that no pass publishes what another pass published and an operator withheld
since (`store_stale_pass`). `NoStalePass` is where that cannot happen: at most one process runs
passes, or none withholds. `Spec => []Ordered` (`OrderedInvariance`) adds to `Owned` that a row
which a process will publish still has the stamps of one that is not (`Fresh`). From it

* `StampsAreRight` (`StampsMatchStatus`);
* `WithheldUntilRepublished` (`WithheldLeftByRepublish`, of which `store_stale_pass` is the
  counterexample without the hypothesis), also without `--replace`;
* the refinement (`ImplementsLifecycle`: the initial states map to the lifecycle's, and each step
  to one of its steps or a stutter), in the two cases that the hypotheses come to:
  `OneProcessImplementsLifecycle`, of one process with every command and flag, and
  `ProcessesImplementLifecycle`, of any number that interleave, without `--replace` and with one
  process that runs passes. It is not proved, and does not hold, for processes that replace under
  each other or for two that run passes (`store_forced_race`, `store_stale_pass`). `RowChanges` is the lemma behind this and the
  action properties: whatever a step is, it changes the rows in one of nine ways (none but a
  sample flag, removed, born, staged, published, withheld, republished, published by a pass, or its
  time has come), each with what its author relies on. With `--replace` and two processes all
  three fail, by the import or the pass that goes on with a row that was replaced under it.

`Gates_proofs` has the two gates of a request. Of `KeyAuth`: `Spec => []IInv` and from it
`TypeCorrect`, `KeysInForceServed` (`InForceNotRefused`), `GuessesRefused` (`GuessNeverAccepted`), and
`RevocationWithinTTL` (`Prompt => RevocationTakesEffect`). `KeyOK` relates the table, the history
and the cache: a cached refusal is still true (revocation and expiry are for ever), and a fresh
cached acceptance is at least as old as the key has been dead. `ThreadOK` says the same of what
a thread carries between its SELECT and its store.

Of `RateLimit`: `RateSpec => []LifeInv` and from it `CapInOneLife` (`restarts = 0 => WindowCap`),
`RefusalsAreDue` (`RefusedOnlyWhenFull`) and `RetryAfterIsRight` (`RetryAfterIsNear`); the last two
say `restarts = 0` themselves. `LifeInv` says of each bucket (`WindowOK`) that the deque, once it
is pruned, is exactly what the bucket let pass within 24 hours, and that its entries are in order,
oldest first. The order is what makes lazy pruning from the left right: without it an old entry
behind a younger one would stay. `WithinPops` and `PoppedOnce` say what popping from the left
leaves, and that this determines it; `AgedAlike`, that the deque and the history stay alike when
time passes; `RoundsDown`, what the whole seconds of Retry-After lose.

`Server_proofs` has the server, in two specifications without a common variable. Of
`ServerConn`: `ConnSpec => []ConnInv` and from it `ConnectionTyped`, `CommittedWhenAnswered`
(`InsertedIsCommitted`), `LoggedOneByOne` (`LoggedWhileCalm`) and `FreshReads`
(`ReadsAreFresh`). `Waits`: a log row in the open transaction means that a transaction is open
and that the row's own thread is before its `commit()`; whoever ends the transaction
earlier commits the row. `Calm` holds as long as requests come one by one: the transaction
that a raised pass leaves open has the write lock (`LockedIfRead`), so that no CLI command can
commit and make its snapshot old, and the next request's `commit()` ends it.

Of `Responses`: `Spec => []AnswersInv` and from it `AnswersTyped`, `AnswersArePublished`
(`ServedWasPublished`), `VerifyIsOfTheBundle` (`TamperCheck`) and `AnswersAreLogged`
(`AnsweredAsLogged`). `VerifyIsOfTheBundle` does not say that there are no false alarms: a version
outside `AsHashed` gives one each time, and those are all the imports that verified a link
(`MismatchIsAlteration` in section 7). It says that the answer is about the bundle that was
fetched, and so tells exactly whether that import stored what it hashed.
None is inductive, because a handler outlives its request and commits come between its calls. The
invariant says for each request (`Fine`) where the middlewares and the log are (`LogOK`), that what
a handler has left to do tells what it has read (`HandlerOK`), that a version which it read through
the gate of publication was shown while the request was open (`ShownOK`), and that without a
`--replace` the package is still the one that was read (`QuietOK`); for each agent, that a hash is
asked for only after its bundle (`VerifyOK`); for the store, that a commit leaves a package with
its own citations and never reuses a version (`StoreOK`).

`WatchLoop_proofs` - `Spec => []WatchInv` and from it `TypeCorrect`, `OneWatcherAtATime`
(`OneWatcher`), `LockIsFollowed` (`LockFollowsHolder`), `LoggedAtMostOnce` (`LoggedOnce`) and
`ServedWhole` (`ServedIsWhole`). `LockInv` adds to the two lock invariants that an orphaned
lockfile means that nobody runs. `LoggedOnce` needs `JobOK`, on what a watcher carries from its
reads to its writes: the run at hand has no row of `ingest_runs` yet, is not met again in
this scan, and is none of those whose package row waits in the open transaction. It holds
because all other watchers are off (`Alone`). `PartlyImported` - a package without its
citations is imported - is what makes `ServedIsWhole` inductive.

`RunAdmission_proofs` - `Spec => []AdmissionInv` and from it `TypeCorrect`, `MinimumIsMet`
(`StoredMeetsMinimum`), `BudgetIsNearlyKept` (`NearlyWithinBudget`) and `SkippedMatchIsExact`
(`MatchIsExact`, which says itself that nothing was verified and that no title or detail is a
number). `Verified`: a citation without a link never has a state that counts. `Skipped`: without
verification nothing touches the citations after they were hashed. `Stored`: the rows are the
citations as the TEXT columns give them, which is the same where all is text. With it `LinesInv`,
and from that `ReferencesAreKept` (`ReferencesKept`): each bullet, and each numbered line with a new
number before the first bullet, is a citation of its own and keeps its link up to its row. Of the
numbered lines after a bullet it says nothing: those may be dropped (`NoReferenceLost` in section
7). That a bullet gets a free ordinal rests on `GreatestOrdinal`: the greatest of a set of ordinals is the
one least distant from `Last`, by the well-foundedness of `<`.

`Startup_proofs` - `Spec => []Migrated` (with `TypeOK`) and from it `TypeCorrect` and
`MigrationsAreWhole` (`SchemaIsWhole`). `Pending` is what a process between its SELECT of the
versions and its `BEGIN` relies on: whatever it does not mean to apply is there already, for
nothing is ever taken away. That `apply` takes the least version still to come needs that there
is one (`Least`). `SaltKept` (`SaltIsKept`) follows from `OneFile` under `Empty \notin First`:
the first `.env` has no empty `LOG_SALT`, which `load_dotenv` reads as one that is set.
`OneAtATime` holds while no two processes write a salt at once: all salts around are the
file's (`Fits`), and who is about to write one found none there.

`DatabaseFile_proofs` - `Spec => []FileInv` and from it `TypeCorrect`, `BackupIsCommitted`
(`BackupIsOneState`), `RestoreGivesBackup` (`RestoreIsExact`) and, under `MaySignal`,
`RestoreRefused` (`RefusedUnderServer`). `BackingUp`: the pages copied are those of the main file,
which is one of the states since the checkpoint until somebody moves pages to it. `Restoring` says
the same of the way back. `Recovered`: after a clean close the main file is all there is.
`Listening`: the PID file names the server that may take requests. `Checked`: who has looked and
found none is right until a server begins to take requests, which ends `calm`; that window, between
`cli.py:832` and `cli.py:835`, is excluded by the property itself and shown in section 7. `MaySignal` says that
`os.kill(pid, 0)` is not denied; where it is, `restore` takes the server for stopped and begins.

`StaticSite_proofs` - `Spec => []SiteInv` and from it `TypeCorrect` and `SiteShowsPublished`
(`PagesWerePublished`); with it `Spec => []SnapInv`, and from that `SiteIsWhole`
(`SiteIsSnapshot`). `Carries`: what a deployment goes through and the page it has open are
of its list, and its list was published. `Cited`: what is published has the citations of its row,
though `--replace` has them deleted for a while. `Named`: a deployment that is about to write to a
file by its name finds one, because `rmtree` takes the name away from the deployment that
holds it.

`SnapInv` follows a deployment that has the site to itself (`Single`) from step to step: what
`Brought` says is there after each of them, from the truncated index over the emptied directory to
the pages, which are those of the packages that are no longer on its list of work. Nothing is assumed
of the site it began with, which killed and clashing deployments have left in any state; whoever
comes later ends `alone`, and a write through a handle without a name reaches no page.

Only model-checked:

* liveness (`DueIsPublished`, `RevokedIsRefused`, `LockIsReleased`, `TermStops`, `ServerComesUp`,
  `EveryoneAnswered`), which is out of the prover's reach;
* `WindowCap` after a restart. The rows of the log are in the order of the answers and the deques in
  the order of the requests, so that the proof has to count the same requests in two orders, through
  `SelectSeq`, which is recursive: that is induction over data. For the same reason
  `RateTypeOK` is proved of no more than the deques.

`RateTypeOK` is no property of a run; it holds on the instance of section 4 when added to it.

## 7. Where code and documents disagree

Each of these statements is an operator at the end of its module, and TLC refutes it with the
configuration given. A `.cfg` of its own checks that one property; where the table says
"`x.cfg`, P", take the constants of `x.cfg`, `SPECIFICATION Spec` (`RateSpec`), and `INVARIANT P` or
`PROPERTY P` (the latter for the statements about steps, of the form `[][...]_vars`).

| configuration | property | what happens, and what it contradicts |
|---|---|---|
| `store_stale_pass` | WithheldLeftByRepublish | A lazy pass selected a package, another pass published it, the operator withheld it, and the first pass publishes it again (`docs/ARCHITECTURE.md:329`: republish alone leaves `withheld`). |
| `store_forced_race` | ForcedNeverPublished | With `--replace`, a forced row takes the id of the row a lazy pass had selected, and is published (`cli.py:217`). |
| `store_stage_never` | StagedIsPublished | `import-run --stage` leaves `publish_after` NULL: staged for ever (`docs/API.md:368-369`). |
| `store_replace_id` | RunKeepsId | `--replace --sample` deletes, is refused, and the run's next import gets a new id (`docs/API.md:378-379`). |
| `store_sample_refused` | SampleIsReplaced | `import-run --sample` is refused when a sample exists (`docs/API.md:370-371`). |
| `store_poison` | DueAlwaysPublished | A due naive package ends each pass before the others (`storage.py:207-210`; FR-006, `docs/API.md:368-369`). After a lock timeout, with `MaxStops = 1` and no naive run, the server's own writes fail and the package stays staged. |
| `rate_retry` | RetryAfterIsEnough | After Retry-After seconds the request is refused again: the seconds are truncated, and an entry exactly 24 h old counts (`docs/USER_GUIDE.md:244`). |
| `rate_warm_refusals` | WarmCountsPassed | A restart counts refused requests (`docs/API.md:75-76`). |
| `rate_warm_pages` | RoomSurvives | A restart counts pages and health checks into the window of `/v1/sample` (`docs/SECURITY.md:105-106`). |
| `key_immediate` | RevocationIsImmediate | The CLI's revocation does not reach the server's cache (`auth.py:4-5`). |
| `key_stalled` | RevocationTakesEffect, not Prompt | A validation that stalls before its store gives a revoked key another 60 s (`auth.py:5`). |
| `key_reason` | ReasonIsTrue | A string that never was a key is "revoked or expired" at its second attempt (`docs/API.md:54`). |
| `key_prefix` | RevokesTheKeyMeant | Two keys with one prefix: the other is revoked (`docs/API.md:410`). |
| `key_cache_race` | NoUncaughtError | Two threads delete one expired entry: KeyError, a plain 500 (`docs/API.md:44`). |
| `conn_stuck` | ServerCatchesUp | Though requests are answered all the time: after one "database is locked" the server's transaction stays open; its next read fixes a snapshot, and once a CLI command commits, every later write of the server fails and every read is old, until a restart. `docs/SECURITY.md:143-145` says that `retry_on_lock` handles it; nothing calls it. |
| `conn_lost_rows` | EveryRequestLogged | Two BEGINs collide and one log row is dropped (`docs/OPERATIONS.md:230-232`). |
| `admit_hash` | UnalteredMatches | The hash is computed before `verified` is set: a verified import mismatches (`docs/API.md:240`). |
| `admit_hash.cfg` with `Urls = {"none", "malformed"}`, `Details = {"null", "number"}` | UnalteredMatches | A year, author, excerpt or title that is a JSON number or boolean comes back as text (`docs/API.md:240`), with `--skip-verify-urls` too. |
| `admit_mixed` | NoReferenceLost | A numbered line whose number a bullet before it was given is dropped without a word (`ingest.py:591`; `ingest.py:530`: "Bullets get the next free ordinal"). |
| `admit_budget` | WithinBudget | The last fetch may end after the budget (`docs/ARCHITECTURE.md:336-337`). |
| `admit_identity` | WrongPaperNotVerified | Out of time or an unreadable title page: verified without comparison (`filter.py:11-12`). |
| `watch_torn` | RowsAreWhole | An INSERT of citations that fails half-way is committed by the next run of the scan, truncated (`storage.py:75`: "Single-shot insert"). |
| `watch_partial` | NewRunIsServed | A half-written run is logged as failed and never tried again (`docs/API.md:359`). |
| `watch_poison` | NewRunIsServed | An empty artifact ends every watcher at that run. |
| `watch_stale` | NewRunIsServed | After SIGKILL no watcher starts until the lockfile is removed. |
| `watch_fault` | NewRunIsServed | A lock timeout after the INSERT leaves the run `imported` for ever (`docs/OPERATIONS.md:383-385`). |
| `rate.cfg` with `PurgeDays = {1}` | WindowCap | `purge-logs --days 1` deletes rows that are a few minutes old, all of the day before its boundary, and a restart then forgets requests of the last 24 h (`docs/SECURITY.md:121`, `docs/API.md:351`). |
| `startup.cfg` with `First = {Empty}` | HashesAreSalted, SaltIsKept | `.env.example` ships `LOG_SALT=`: the new salt goes to the file, but `os.environ` has the name already, so the server hashes with the built-in salt, and its next life with the new one (`docs/SECURITY.md:54`). |
| `startup.cfg` | OneSalt | Two first starts each append a salt (`config.py:167`: "into .env if absent"). |
| `startup.cfg` | NobodyFails | The second of two `run_migrations` fails on the tables of the first (`db.py:89`: "Apply pending migrations"). |
| `database_file.cfg` | BackupIsConsistent | A checkpoint that has to wait is given up in silence, and pages move during the copy: the file lacks commits or mixes two states (`docs/OPERATIONS.md:295`). |
| `database_file.cfg` | BackupFileIsWhole | A killed backup leaves a truncated file, which restore takes. |
| `database_file.cfg` | RestoreReplaces | The `-wal` file of a killed process is replayed over the restored pages. |
| `database_file.cfg` | NoRestoreUnderServer | `serve` starts after restore has looked for its PID and before restore truncates the file (`cli.py:832-835`). Or a second `serve` finds the port taken and removes the PID file, which now was its own: the first server runs on without one (`db.py:172`). |
| `responses.cfg` | BundleIsWhole, MatchIsOfTheBundle | `--replace` between the two reads of `fetch_package`, or between bundle and hash: citations of another version, or "Match: True" for a bundle the client does not have (`examples/fetch_bundle.py:124`). |
| `responses.cfg` | MismatchIsAlteration | A version that its import did not store as it was hashed, which `admit_hash` shows to be every verified one: `match: false` of an unaltered bundle (`docs/API.md:240`). |
| `responses.cfg` | SampleIsPublished | `get_sample` looks at no status: a withheld or staged sample is served (`static/reuse-license-v1.md:41`: "withheld from future distribution"). |
| `responses.cfg` | AllLogged | An uncaught error passes `request_logger`: no row for a 500 (`docs/OPERATIONS.md:230-232`). |
| `static_site.cfg` with `MaxCrashes = 0` | LinksResolve | Two deployments over each other: one fails on a directory that the other removed or filled, and the index that stays names pages that are gone. The OSError ends a watcher. |

Two more follow from the order of the middlewares without a model: a 504 and a 500 carry no
security headers (`docs/OPERATIONS.md:264`, `docs/API.md:60`), because the middleware that adds
them is inside of both; and the logger awaits a thread outside of the timeout, so that an
answer may take longer than the 30 seconds. And a kill of `init` within `write_text` leaves an
empty `.env`, which the next `init` takes for a finished one (`cli.py:63`): the condition `whole`
of `ServerComesUp`.

## 8. What is not modelled, and why

* Markdown, templates, scores and the run type: functions of text without state. What they
  decide enters as a nondeterministic outcome (`Admit`'s other reasons, `Unpublishable`).
* `usage_report` and `costs_report`: they read.
* The routes of pages without a database, the feed, the catalog and the index: they are
  the list again, or constants. Response models and header texts.
* Environment variables other than LOG_SALT: read once; their values are constants.
* The assets and fixed pages of the static site: the same bytes each time.
* systemd, nginx and `deploy.sh`: what they decide is in the assumptions of `Startup` (one unit,
  restarted, with EnvironmentFile) and `StaticSite` (who deploys).
* Latency, sizes, encodings, header wording.

## 9. How to run it

`tlc -config <run>.cfg <module>.tla` with the pairs of `PROJECT.json`, for the
configurations of section 7 with the module of that component (`MCPackageStore` and `MCKeyAuth`
for the `store_*` and `key_*` ones); `tlapm M.tla` for the `*_proofs` modules. The
runs take from a second to about two minutes each on two cores.
