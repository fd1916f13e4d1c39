# maven-haste: formal model

TLA+ models of maven-haste (a caching Maven proxy written in Rust), the TLC
configurations that check them, and machine-checked proofs about them. Source
paths below are relative to the repository: `src/cache/serve.rs` and so on.

## 1. The system

maven-haste answers Maven requests from a local directory of files, described
by a SQLite table of artifact records; what it does not have it downloads from
an ordered list of upstream repositories. It runs on a multi-threaded tokio
runtime: each request and each background refresh is a task; tasks share the
database, the directory and a few in-memory registries. The commands of the
same binary (`cache verify`, `cache remove-prefix`, `config check`) run as
processes of their own on the same storage.

| Component | State it keeps | Operations |
|---|---|---|
| Cache manager (`cache/serve.rs`, `download.rs`, `types.rs`, `mod.rs`) | flights (path -> `OnceCell`), refreshes (paths being refreshed), serve registry (path -> number of responses), references of shared temporary files | `get`, `download_initial`, `refresh`, `trigger_refresh`, `run_flight`, `ServeGuard`, `SharedTemp` |
| Installation, eviction (`cache/install.rs`, `io.rs`) | files and directories under `storage.root`; temporary files | `install_bundle`, `enforce_capacity`, `remove_records`, `remove_empty_parents` |
| Database (`db.rs`, `sql/`) | `artifacts`, `negative_cache`, `user_version` | one statement or transaction per call; `run_migrations` |
| HTTP layer (`server.rs`) | the response body with its guard | `artifact`, `cached_response`, `TrackedBody`; ranges, conditional requests, health, statistics |
| Request scheduler (`upstream.rs`) | two queues, counts of permits, the burst counter | `acquire`, `schedule`, `release`, dropping a receiver |
| Upstream client (`upstream.rs`) | none of its own | `fetch`, `refresh`, `fetch_from`, retries |
| Circuit breaker (`circuit.rs`) | per repository: mode, failures, since when | `allow`, `record_success`, `record_failure` |
| Source fallback and negative cache (`cache/download.rs`) | local: excluded, negative, upstream_failure; `negative_cache` | `prepare_fetch`, `select_stable_download`, `checksum_issues` |
| Routing, request paths (`routing.rs`, `request_path.rs`) | none: pure functions | glob rules, path parsing, cache policy |
| Storage preparation (`storage.rs`) | the directory of partial files | `prepare`, its probes, `cleanup_parts` |
| Maintenance (`cache/maintain.rs`, CLI) | none; a second process on the same stores | `remove_prefix`, `verify` |
| Configuration, logging, CLI | none that lives on | wiring |

How they interact. `artifact` calls `get`; a miss enters the flight of its
path, so that concurrent clients share one download; a checksum path enters the
flight of its main file from within its own. The initialiser of a flight runs
`prepare_fetch`, which asks the repositories that the routing rules leave, in
order; every request takes a permit from the scheduler and is let through or
skipped by a circuit. The result is a bundle of temporary files, the main file
and the checksums computed from it, which `install_bundle` records and renames
into place before it evicts what exceeds `cache.max_size`; or, for a repository
without cache writes, a temporary file that the waiting requests share. A hit
on a stale mutable path starts a detached refresh that installs the same way
but holds no flight. Every process prepares the storage, which removes the
partial files it finds, and all but `config check` migrate the database.

What is hard here:

- the table and the directory share no transaction, and a task may be dropped,
  or the process killed, between any two steps on them;
- eviction, installation, refresh and responses touch the same path, and
  exclude each other only by registries that are consulted at one moment and
  relied upon at a later one;
- the operations on a registry are several operations on a concurrent map, and
  other threads run between them;
- a `OnceCell` whose initialiser is dropped is taken over by a waiter, while the
  database or file system call it was in goes on without it;
- waiters of the scheduler disappear while they are queued;
- reports to a circuit breaker come late, or never;
- the retry loops (rounds, attempts, validations) nest;
- another process sees the files and the tables of a server, but none of its
  registries; two processes may migrate one database.

What makes each component correct:

- *stores*: no file without a record; a served body is the one its record
  describes; a checksum matches the main file next to it; an interrupted
  install is repaired by the next request; eviction restores the limit;
- *flights*: one download per path; every request ends; a completed flight does
  not stay registered;
- *guards and temporary files*: a guarded response finds its file; a path does
  not stay busy; a shared file goes with its last holder, and no partial file
  is forgotten;
- *scheduler*: limits, exact counts, no lost wakeup, order, no starvation;
- *circuit breaker*: one probe per recovery timeout; recovery;
- *fallback*: 404 only for what is missing everywhere; other sources are tried;
  the loop ends;
- *responses*: the bytes that the request names, never past the end;
- *starts*: a process that is up finds the whole schema and, if it is a server,
  an empty directory of partial files.

## 2. Modules

| Module | Models | Checked by |
|---|---|---|
| `ArtifactCache` | requests, flights, refreshes, installation, eviction, cancellation and kills, over several paths, one await to the next | `MCArtifactCache`, `Store*.cfg` |
| `Library` | what the cache promises of artifacts that never expire, without records, flights, renames and repairs | refined by `ArtifactCache` |
| `Serving` | the requests of one path, one operation on a shared object at a time: flights, guards, shared temporary files, eviction and refresh | `MCServing`, `FlightReplaced.cfg`; within `Processes` |
| `Responses` | conditional and range requests, with a reference | within `Processes` |
| `TempFiles` | the directory that `Serving` and `Startup` share | |
| `Startup` | processes that prepare the storage and migrate the database | `MCStartup`, `SchemaRace.cfg`; within `Processes` |
| `Processes` | composition: a server (`Startup`, then `Serving`) beside the commands | `MCProcesses`, `Processes.cfg` |
| `RequestScheduler` | admission of upstream requests | `MCRequestScheduler`, `Scheduler*.cfg` |
| `Admission` | what the scheduler promises, without its queues, counts and loop | refined by `RequestScheduler` |
| `UpstreamClient` | the search over sources, circuits, negative cache | `MCUpstreamClient`, `Upstream*.cfg` |
| `Routing` | the rules of the repositories and the glob matcher, with a reference | within `RoutedClient` |
| `RoutedClient` | composition: the search of `UpstreamClient` over the candidates that `Routing` finds | `MCUpstreamClient`, `Upstream*.cfg` |
| `*_proofs` | proofs about the module of that name; `LoneClient_proofs` about `ArtifactCache` with one client | tlapm |

How they meet. `ArtifactCache!Fetch` is `prepare_fetch` with its answer left
open (some version, nothing, a failure): what `UpstreamClient` produces.
`UpstreamClient`'s wait for an answer contains the wait for a permit, which
`RequestScheduler` describes. Neither hands anything back but its result, so
they are checked apart. `RoutedClient` EXTENDS `UpstreamClient` and `Routing`: the
candidates of a search are what the rules of a configuration leave for a path. `Processes` EXTENDS `Startup` and `Serving`, which share the
variable `parts` of `TempFiles`; it also EXTENDS `Responses`, which says what
the response of `Serving` answers. Two modules state promises: `RequestScheduler`
implements `Admission` under the mapping `AdmissionOf` (`ImplementsAdmission`), and
`ArtifactCache`, without limit, refreshes and late calls and until a flight is
overtaken, implements `Library` under `Shelf`, `Digests` and `Lent`
(`ImplementsLibrary`).

`ArtifactCache` and `Serving` describe the same requests at two grains.
`ArtifactCache` relates several paths (the checksum and its main file, the
victims of an eviction) and takes what a task does between two awaits as one
step, but for the end of a flight: there each task that was in it takes the
outcome, compares its cell with the registered one, and removes by the path in
another step, as `run_flight` does on several threads. `Serving` splits every
step into the operations on shared objects, for one path, and takes an
installation as the renaming of one file.

What breaks the registry of flights is visible at both grains: a task compares,
another one removes the flight, a newer flight is registered, and the first
removes that. In `ArtifactCache` the variable `overtaken` remembers that a flight
was registered between the comparison and the removal of another task. The
properties that rest on flights begin with `overtaken \/`, and the `Store` runs
set `MayOvertake` to FALSE: they say what holds until that happens.
`FlightReplaced` shows that it does happen, and that two downloads of one path
come of it.

Dropping a request does not stop the database or file system call it is waiting
for: both run on threads of their own (`db.rs:322-335`, `tokio::fs`). `Cancel` in
`ArtifactCache` leaves such a call in `late`, at most `MaxLate` of them, and it
lands at any later moment beside whoever has taken over (`Land`); a request that
is dropped between two calls, or when the bound is reached, leaves none. In
`Serving`, whose stores are one file and its row, a call is done with its request
or not at all.

### ArtifactCache

A *worker* is a client task or the refresh of a path. A step is what the code
does between two awaits: one database statement, one file-system call, or one
update of a registry.

| Variable | Code |
|---|---|
| `records` | table `artifacts`: path -> the content described |
| `files`, `dirs` | files and directories under `storage.root` |
| `flights` | `CacheInner.flights`: the cell registered for a path, or `NoFlight` |
| `cells` | each `OnceCell`: the task that initialises it, `Vacant`, or its outcome |
| `pc`, `job` | where each task is, and its locals, the cells it holds among them |
| `budget` | `remaining` of `enforce_capacity` |
| `late` | calls of dropped requests that are still under way |
| `overtaken` | history: a flight was registered under the removal of another |
| `crashes` | bound on kills |

`refreshes` is not a variable: a path is in it exactly while its refresh worker
is not idle. Nor is the serve registry: a path is guarded exactly while a task
that serves it is between `acquire` and the end of its body.

| Actions | Code |
|---|---|
| `Begin`, `StatFirst`, `Hit`, `GetFinal`, `StatFinal`, `Guard` | `CacheManager::get`, `positive_cache`, `trigger_refresh` |
| `Open`, `Finish` | `cached_response`, `finish_access` |
| `Enter`, `Initialise`, `Complete`, `Take`, `Remove` | `run_flight` (entry, `get_or_init`, its end, the clone of the outcome with the comparison, the removal by path) and `remove_completed_flight` |
| `GetFlight`, `StatFlight`, `Fetch` | `fetch_main_or_cached`, `prepare_fetch`, `prepare_bundle`, `refresh` |
| `GetSum`, `StatSum`, `SourceGet`, `SourceHash` | `download_initial`, `regenerate_checksum`, `build_checksum` |
| `Mkdir`, `Upsert`, `Rename` | `install_bundle_inner` |
| `Stats`, `Candidates`, `Evict`, `Unlink`, `Delete` | `enforce_capacity`, `remove_records` |
| `Cancel`, `Land`, `Crash` | the handler is dropped; a call that it left is done; the process is killed and restarted |

Abstractions: one generated checksum stands for the three; content is the
upstream version and who wrote the file (a checksum computed by the cache or
fetched); the age of records, the order of eviction candidates and upstream
answers are left open, so the model contains every order the code can produce;
a cell is one of `Cells` and is used again when nobody holds it (an `Arc`); a
checksum whose main file is passed through, not stored, is left to `Serving`
(section 5); what a restart does to storage and database is `Startup`.

### Serving

| Variable | Code |
|---|---|
| `record`, `file` | the row of the path; whether its file is there, and of the size in the row |
| `outdated` | who has written a row that was written again before their file was renamed into place |
| `parts` | the partial files in `storage.tmp_dir` |
| `registry`, `value`, `cell` | the entry of the path in `flights`; the outcome in each `OnceCell`; the cell a task holds |
| `active` | the entry of the path in `ServeRegistry`, with its count modulo `Width` |
| `refs` | the references of each `SharedTemp` |
| `held` | the outcome a task has taken, or the part it is writing |
| `evicting` | where an eviction is with the path; `never` without a size limit |
| `refreshing` | where the refresh of the path is, the entry in `refreshes` included; `never` for a path that is immutable |
| `left`, `interfered` | history: the parts of dropped requests; whether, while there were requests, a file was removed or the row rewritten for another version |

| Actions | Code |
|---|---|
| `Begin`, `Get`, `Stat`, `Mark` | `get`, `positive_cache`, `ServeRegistry::acquire` |
| `Enter`, `Initialise`, `Take`, `Leave`, `Remove` | `run_flight`, `get_or_init`, `remove_completed_flight` (comparison and removal) |
| `StatFlight`, `Fetch`, `BrokenOff`, `Delivered` | `fetch_main_or_cached`, `download_main` |
| `Upsert`, `Rename`, `Settle` | `install_bundle` |
| `Open`, `Finish`, `Respond` | `cached_response`, `TrackedBody` dropped, the 500 |
| `Unmark` | the second operation of `ServeGuard::drop` |
| `Cancel` | the handler is dropped at an await |
| `EvictPick`, `EvictFile`, `EvictRow`, `EvictEnd` | `path_is_busy` in `enforce_capacity` and `remove_records`, the unlink, the deletion of the row; the handler in which it runs is dropped |
| `RefreshRow`, `RefreshFile`, `RefreshEnd` | a refresh installs a version, in two steps, or ends without |

The eviction is that of another path's handler; one eviction and one refresh are
at the path at a time. A refresh is started by a stale hit (`Mark`). Its own
partial file is none of `parts`. On a path that is immutable every version has the
size of the first (what an upstream released stays), so that a file that is there
fits; on a mutable one a row may describe another version than the file until
the file of that row is renamed into place, or for good if the order of rows and
files differs between two installations (`outdated`).

A flight goes when nobody holds it and the registry does not name it (an
`Arc`), and with it the reference to the temporary file in its outcome.

### Startup and Processes

| Variable | Code |
|---|---|
| `version`, `applied` | `PRAGMA user_version`; the migrations whose changes are committed |
| `writer`, `snapshot` | SQLite's write lock; whether the transaction of a process has read, and if what it read is still current |
| `stage`, `listing`, `index` | how far a start is; the parts `cleanup_parts` has found; the migration it is at |
| `removal` | where a command is in `remove_prefix` |

`Launch`, `Sweep` and `Checked` are `storage::prepare`; `ReadVersion`, `Ready`,
`Apply`, `TimeOut`, `Stamp` and `Commit` are `run_migrations`, statement by
statement; `Exit` and `Kill` end a process at any step. SQLite's rules for a
deferred transaction (wait for the lock on a first statement that writes,
refusal when it writes after it has read and the database has changed) are
external code, modelled in `MayWrite`, `Apply` and `Commit`.

In `Processes` the actions of both are conjoined with what they leave alone:
`Started`, `Cleanup`, `Check`, `Migrate` and `End` are a start and an end,
`Request` and `Drop` the requests of a server that is up, `Maintain` its eviction
and refresh, `Select`, `Unlink` and `Delete` the command `cache remove-prefix`. A server that ends loses its
memory (`Forget`). A sweep or a removal while requests run sets `interfered`
until all of them have ended.

### RequestScheduler

The mutex is `scheduling`. `acquire` and `release` change the counts and start
the `schedule` loop; every iteration of the loop is a step (`GrantForeground`,
`GrantBackground`, and `EndSchedule` for its exit), so that a receiver can be
dropped between any two. Only client tasks drop: refreshes are detached.
`sinceBackground` is a history variable for one property.

### UpstreamClient

`Begin`, `Expire`, `Remember` and `Forget` are `prepare_fetch` and the negative
cache; `Ask`, `Conclude`, `Found`, `NotModified`, `NotFound`, `Rejected` and
`Unanswered` are `fetch_ordered` and `fetch_repository`; `Delivered`,
`BrokenOff`, `Checksum` and `Issues` are `download_main`,
`select_stable_download` and `checksum_issues`. A 304 is accepted from any
repository, for whatever purpose, whether or not the request was conditional: it
ends the search for the path (for a client, who asked without conditions, with
502), skips a checksum, and ends a validation with the first download. Content
that stays unstable fails its repository whether or not that is in `down`. The
same search machinery serves the path, its checksum and the second download of
the path, as `fetch_from` does in the code. A search keeps the set of repositories it has
still to ask; `First` is the one it asks next: the preferred repository, then
the candidates in their order. Time is a `Tick` that lets the ages of circuits
and negative entries grow up to their timeouts. `down` says which repositories
may fail; it changes at any time. `told` and `sinceProbe` are history.

`get` consults the negative cache once more before it enters a flight and
answers 404 on the same condition as a search without sources; the model has
the second look only. The model allows two client downloads at once; for one
mutable path flights allow one, so it has more behaviours than the code.

### Routing and Responses

Pure operators. `GlobMatches` is a recursive function of the pair of
positions, as the memo of the code is (a pair rather than two arguments, and
IF rather than CASE, because tlapm reads that form of recursion only). Its
reference, `Denoted`, cuts the path into pieces that the letters and wildcards of
the pattern stand for, where a globstar before a slash stands for whole segments,
as README line "`**` matches across `/`" and the test
`globstar_matches_zero_or_more_path_segments` (`routing.rs:147`) read it. The code
also lets it stand for a part of a segment, so the two agree on the patterns
without it (`Plain`) only. `Included` is the rule "first match decides" in terms
of the reference.

`RequestedRange` and `CachedResponse` follow the arithmetic of the code, in its
order, on headers that are records; their reference is the set of positions a
header names, and, independent of any file, whether a header is invalid and so
to be ignored (`server.rs:590-591`). Where the code compares with the size of the
file before it has seen that a header is invalid (`Disputed`), it answers 416
instead of the whole file; the property says that no byte is sent then.

## 3. Runs

| Run | Question | Bounds |
|---|---|---|
| `StoreRestart` | Does a lone client survive every interruption, and does eviction restore the limit and go no further? | 1 client, 2 artifacts in one directory, 2 versions of sizes 2 and 3, limit 5, 1 kill |
| `StoreShared` | Do clients that share flights, with cancellation and a kill, get one download and the right bytes? Is the cache a `Library`? | 2 clients, 1 artifact and its checksum, 2 cells for each path, 1 kill |
| `StoreRefresh` | What do guards and busy marks keep while a client, refreshes, evictions and a late call meet on a path? | 1 client, the refreshes of a metadata file and of its checksum, 1 version, limit 2, which every download exceeds, 1 late call |
| `Scheduler` | Limits, counts, wakeups, order, burst; is it an `Admission`? | 3 downloads, 1 refresh, a repository of limit 1 and one of limit 2, global limit 2, burst 2 |
| `Upstream` | Does the fallback try everything and never invent a 404, beside a refresh of the same path? Is every repository asked by the rules? | 1 client, 1 refresh, 3 configured repositories, of which the rules leave 2 (one without cache writes), a checksum path, whose content is not validated |
| `UpstreamCircuits` | Do late and missing reports break the circuit breaker, and does every fetch end? | 2 clients, 1 repository, threshold 2, recovery of 2 ticks, 2 attempts, 2 validations, 1 cancellation |
| `Processes` | What do flights, guards, temporary files and starts keep between threads and processes? | a server with 2 requests, and either its eviction and refresh or 1 command, 2 migrations, 2 names, 2 flights, 1 part of a dropped request, files of up to 3 bytes |

and the five runs of "Where code and documentation disagree" below.

Why the bounds are enough for the questions: two versions of different length
are what a stale file and a record need in order to disagree; two artifacts in
one directory under a limit that holds one of them with its checksum, but not
both, make every install evict and every eviction meet the directory of another
install; a second client is what a flight, a guard and a registry need; one
kill reaches every prefix of an install, and the states it leaves are those a
later kill would start from. In the scheduler the narrow repository is blocked
by its own limit while the global one has room, which is the case
`eligible_index` exists for. Recovery takes two ticks in `UpstreamCircuits` so
that "too early" and "in time" differ; the two attempts and the two
validations there (three in the code) show a pass that is followed by another
and one that is not. `Upstream` leaves validation out, which asks nobody but the
repository it has; with it `NotFoundIsConfirmed` and `EverySourceTried` are
theorems. In `Processes` the
two migrations are those of the code, of which the first may be applied twice
and the second may not; two names and two flights are what two requests can use
at one time beside the part of a dropped one. `Width` = 4 stands for 2^64: the
count of guards can wrap below zero, and two requests are fewer than a width,
which is what the code has too; `Serving_proofs` has the properties for any
number. The constraint `OneMeddler` separates two families of behaviours: a server
whose path is immutable and whose store has no limit, beside a command; and a
server that evicts or refreshes, by itself. `Processes_proofs` has no such bound.

`StoreRefresh` has one client, one version and one late call, because a guard, a
refresh and an eviction are what `GuardKeepsFile` needs, and two installing
workers with a third that evicts are what `InstallNotPicked` needs: the two
refreshes and the client. `Upstream` asks for one path, `a/a`, whose rules need
the order (a later rule would exclude the repository), both wildcards, and a rule
that one star must not satisfy; the third repository is excluded by its rules and
is none of `Repositories`, because no record of the path names it. No rule of the
run has a globstar before a slash.

`RangeServed` says that the file being sent is the one its range was computed for
and, of the pure operators, that they agree with their reference for all bounded
inputs; `RangesServed` proves it for inputs of any size. Symmetry is used in runs
without liveness only, over tasks that nothing orders.

Deadlock is checked in every run.

### Properties

- `NoUntrackedFiles`: a file in the directory has a record (the order "records,
  then renames" and "file, then row").
- `ChecksumOfStoredBytes`: when all is quiet, a checksum that would be served
  is that of the main file that would be served (`StoreRestart`, where the
  single client makes the order of the renames matter).
- `GuardKeepsFile` (`StoreRefresh`): a file that a response has guarded and found,
  and that no eviction had chosen before, is there until the response opens it.
  That is what the registry of `cache/types.rs` does for a response;
  `GuardedFilePresent`, which leaves out "chosen before", is what its comment
  says, and `StoreEvicted` refutes it.
- `OneDownloadPerPath`, `InstallIsBusy` (`StoreShared`): until a flight is
  overtaken, one task downloads a path, and the path is busy while it installs,
  although each waiter removes the flight for itself. `InstallNotPicked`
  (`StoreRefresh`) is what the mark is for: no eviction picks a main file that is
  being installed.
- `InstalledIsServed`, `RequestsEnd`, `CapacityRestored`, `NothingEvictedInVain`,
  `MainBodyMatchesRecord`: see the comments beside them.
- `ImplementsLibrary`: the first version of a main file to be stored is the only
  one, its checksum is there before it, and a client is sent the version on the
  shelf. `Library` says nothing of responses with a checksum: a kill between the
  renames of a bundle leaves a checksum that is served by itself, until another
  download of the main file replaces it.
- With a refresh worker, `ChecksumOfStoredBytes`, `MainBodyMatchesRecord`,
  `ImplementsLibrary` and `InstalledIsServed` do not hold: a refresh holds no
  flight and may install between the renames of a foreground download of the same
  path, or between a lookup and the opening of the file. Nor does
  `NoUntrackedFiles` hold beside an eviction by somebody else, whose deletion of a
  row may come after the file was installed again. The runs without refresh and
  the lone client show them; `StoreRefresh` shows what remains.
- With calls of dropped requests that land late (`MaxLate`), `NoUntrackedFiles`
  holds without a size limit (`FilesTracked`), and `GuardKeepsFile` and
  `InstallNotPicked` always. The others do not: a rename that lands after the next
  download of the path puts the older file beside a newer checksum, a deletion
  that lands late takes the row of a file that has been installed meanwhile.
- `CompletedLeaves`, `TempCounted`, `TempReclaimed`, `BusyReleased`,
  `UndisturbedSucceed`: what the operations of `Serving` keep although threads
  run between them. A guard can be lost (acquired between the last count down
  and the removal of the entry), so that a path is taken for free while it is
  served; what remains true is that it does not stay busy. `UndisturbedSucceed`
  says that a request which ends in 500 was disturbed while it ran: its file or
  the part it waited for was removed, or its row rewritten for another version.
  The server's own eviction and refresh do that as well as another process, and so
  does a second download of a mutable path. Nothing else does: sharing flights, cancellation,
  passthrough files and their sweeping by the last holder make no request fail.
- `VersionBacked`, `SchemaComplete`, `StartsClean`, `RangeServed`.
- `PermitsBalanced`, `LimitsRespected`, `WorkConserving`,
  `RefreshWaitsItsTurn`, `FirstComeFirstServed`, `UnrestrainedServed`,
  `ImplementsAdmission`.
- `ProbesSpaced`, `CircuitRecovers`, `NotFoundIsConfirmed`,
  `EverySourceTried`, `FetchEnds`, `RoutedByRules`.

### Where code and documentation disagree

Five runs expect a violation; each checks one property that the repository
states.

- `StoreInterrupted` / `BodyMatchesRecord`. `cache/install.rs:69-72` says that
  an interrupted install leaves "a record whose file is missing or stale, which
  the next request detects and repairs". Detection is by size. Checksum files
  of one algorithm have one size, so after a kill between the upsert and the
  renames the old checksum is served under the new record.
  `MainBodyMatchesRecord` shows that main files are safe when the versions
  differ in length.
- `StoreEvicted` / `GuardedFilePresent`. `cache/types.rs:9-10`: the serve
  registry exists "so a response never loses its file mid-stream". `get` takes
  the guard after the lookup, and `remove_records` unlinks after its check; an
  eviction in between removes the file of a guarded response before it is
  opened. Once open, the bytes are safe.
- `SchedulerStarves` / `RefreshesServed`. README line 131: the scheduler keeps
  "periodically leaving room for cache refreshes". The burst counter is reset
  whenever a download is granted while no refresh is eligible; a refresh of a
  repository at its own limit can be passed over for ever. The global limit
  alone does not have this effect: `UnrestrainedServed` holds.
- `SchemaRace` / `LatestSchema`. `db.rs:28-31`: `user_version` records the
  migrations "so pending migrations run exactly once". Two processes that open
  an unversioned database both read 0; the second may apply migration 1 again,
  which sets the version back, and fails on migration 2. Every later start then
  fails. `VersionBacked` and `SchemaComplete` hold all the same.
- `FlightReplaced` / `OneDownload`. `cache/serve.rs:236-237`: a finished flight
  is removed "unless a newer flight already replaced it". Comparison and
  removal are two operations on the map; a newer flight may be registered in
  between, and two downloads of one path run at once.

Found beside the runs, and not the subject of one:

- `README.md:129` says cached checksums "are always computed from the bytes
  actually stored". A checksum of mutable metadata that is refreshed on its own
  path, and `x.sha1.sha1`, are stored as the upstream sent them
  (`cache/download.rs:323`).
- Nor does that sentence hold of two clients under a size limit.
  `regenerate_checksum` (`cache/download.rs:566`) hashes a main file whose flight
  has ended, and installs under the flight of the checksum, which a download of the
  main file does not enter. The main file may be evicted and downloaded in another
  version in between, and the old checksum is renamed over the new one.
- The call of a dropped request may land after another task has taken over its
  flight (see above): a checksum of other bytes, or a file without a row, may be
  the result, which neither `README.md:129` nor `cache/install.rs:69-72` expects.
- A start sweeps the parts of a running server, also that of a response or an
  installation (`storage.rs:144`, against `cache/types.rs:82-94`); a second
  `run` does so before it finds the port in use. `UndisturbedSucceed` bounds
  what this costs: requests that were running then fail, and none after them.
- `cache remove-prefix` has a registry of its own, in which nothing is busy
  (`cache/mod.rs:59-61`), and can delete the row of a file that the server has
  just renamed into place.
- The CHANGELOG's removal of negative entries by prefix reaches recorded paths
  only.
- A refresh asks the repository its record came from even if the rules exclude
  it by now.
- `**/` may match a part of a segment: `net/**/loader` matches `net/xloader`,
  because the slash after the stars is swallowed with them (`routing.rs:72-77`). The
  test `routing.rs:147-153` is named `globstar_matches_zero_or_more_path_segments`
  and does not try such a path.
- An inverted range whose first position is at or beyond the end of the file
  (`bytes=9-2` of 4 bytes), one whose last position alone is no number, and any
  invalid range of an empty file are answered 416, because the size is compared
  first (`server.rs:560-580`); `server.rs:590-591` says that an inverted range
  makes the header invalid and that an invalid one is ignored.
- A 304 that nobody asked for ends the search with 502 before the other candidates
  are asked (`upstream.rs:505`, `cache/download.rs:110`), against README line 129,
  "other sources are tried".

### Fairness

- `ArtifactCache`: weak fairness of every task's own steps, because tokio polls
  what can proceed and each await ends (database, file system, upstream
  requests under their timeouts), and of the end of a response. Strong fairness
  of `Initialise`: the semaphore of a `OnceCell` is fair, so a waiter is reached
  however many initialisers are dropped before it. Clients need not ask, and
  may leave at any time.
- `RequestScheduler`: the `schedule` loop goes on; every permit is dropped some
  day, and its holder gets the mutex (strong fairness of `Release`, as the
  mutex is free again and again).
- `UpstreamClient`: a request is answered or times out, time passes; for
  `CircuitRecovers` clients keep asking and the content of the repository does not
  stay unstable, which are premises of the property, not claims. Cancellations are bounded there: a client dropped
  during each and every probe keeps a circuit from closing.
- `Serving`, `Startup` and `Processes` state no fairness: their properties are
  safety.

## 4. Proofs

TLAPS checks every obligation of the `_proofs` modules (SMT, Zenon, and LS4 for
temporal steps). They hold for all values of the constants that the named
assumptions of the modules allow.

`ArtifactCache_proofs`:

- `Typed`: `Shape /\ Placed /\ Owned`. `Shape` is the type of all variables but
  `budget`; `Placed` says a running worker knows its paths; `Owned` relates
  `cells`, `flights` and `pc`: a task inside a download is the initialiser of the
  cell it holds, that of a checksum in its main file's flight still initialises
  its outer cell, and (`Entered`, until a flight is overtaken) that cell is the
  registered one.
- `OneDownload`: a cell has one initialiser, and the initialisers of one path hold
  the registered cell. The property is not inductive by itself: it does not say
  who may enter, nor what the waiters of an earlier flight may still remove.
  A waiter that is about to remove finds its own cell registered, whose outcome
  is set, or none: what it removes is no flight in which somebody downloads.
- `InstallBusy`: `Fitted` adds that the only main path in the bundle of an
  installing worker is its key: the path whose flight it owns or whose refresh
  it is. `InstallUndisturbed` follows: the busy check of an eviction and the
  choice of the victim are one step.
- `FilesTracked`: without a size limit `NoUntrackedFiles` is proved with
  `Tracked`: a worker that renames has a record for each path of its bundle,
  a rename that lands late too, and no worker ever evicts. With a limit an eviction may delete the row of a
  file renamed into place a moment ago; with one client nobody does
  (`LoneTracked`).
- `GuardHeld`: step by step, under every limit and with any late calls: an eviction
  chooses only what is not busy, so not what is guarded; an unlink under way
  names what was chosen before; and no other step removes a file.
- `ChecksumsAgree`, `InstalledServed` and `MainBodiesMatch` assume `Settled`: no
  limit, no refreshes and no late calls, and speak of states until a flight is
  overtaken. Their invariant is `Coherent`. `Agree` says that a
  main file lies under its own record and beside its own checksum; it is not
  inductive without `Sound`, what each task knows at each point of its download:
  a main file is fetched and installed only where none lies, under the record
  written just before and after its checksum, and a regeneration hashes a file
  that stays. `OthersSound` is the heart of the argument: a task that writes
  a row or a file owns the flight of a main path, or hashes a main file that is
  there, and so touches nothing that another one relies on. `MainBodiesMatch`
  adds `Matched`, and `Distinct`: the versions of a path differ in length.
  Without it `positive_cache`, which compares lengths, may take the record it
  read before a crashed install was repeated for that of the new file. Under
  a size limit the first two hold for one client (`LoneClient_proofs`);
  `StoreInterrupted` refutes `BodyMatchesRecord`, the third for checksums too.
- `RefinesLibrary`: each step maps to one of `Library` or a stutter, under
  `Settled`. Only a rename changes the files (`FilesKept`), and by `Sound` what it
  puts in place is the checksum of the version that is there or of none, or a
  main file where there is none and after its checksum (`Renamed`); `Located`
  and `MainFilesStay` keep what is being sent.
- `TypeCorrect`: the whole `TypeOK`, from `Typed`, from `Fitted` for the victims
  and the files still to rename, and from `Counted` for the budgets, which are
  sums of sizes. `TotalSize` is a fold of the community modules: what CHOOSE
  finds for a recurrence over subsets. That such a function exists (`SumExists`),
  that its values are numbers (`SumType`) and that an element taken out takes its
  size out (`SumWithout`, whichever element the fold would have picked) are
  proved without an induction theorem: a smallest set for which it failed would
  not be the smallest.

`LoneClient_proofs`: five theorems of the form `Alone => (Spec => []P)`, for one
client without refreshes and late calls, any limit, any number of artifacts, versions and
kills. Their invariant `AloneInv` adds to the invariants above `Consistent`, of
the stores, and `Knows`, of the client at each place. `Consistent` is what every
interruption leaves: a main file lies under its own record and beside its own
checksum or none, and each file has a row. It is weaker than `Agree`: a main
file may be gone while its checksum is still there, so an eviction in any order
keeps it. `Finding`, `Placing` and `Removing` say what the client has seen, is
installing and has still to evict, with the budget: at each step of an eviction
it is the total of the table, or of the table without the row about to go.
Without the last `LoneCapacity` is not inductive, since the eviction stops when
the budget, not the table, is within the limit; `LoneFrugal`, that nothing is
removed from a table within the limit, is the other side of the same equation.
`LoneTracked`, `LoneChecksums` and `LoneServed` follow from `Consistent` and `Finding`. With a second client
all five need more than the code does: its eviction takes rows of files that
this one has just renamed, and its snapshot is older than this one's rows.

`RequestScheduler_proofs`: the inductive invariant `IInv` is
`TypeOK /\ Queues /\ PermitsBalanced /\ WithinLimits /\ WorkConserving`.
`Queues` says that each queued task is in the queue of its priority exactly
once and nobody else is; without it a grant could serve a task twice and
`PermitsBalanced` would not be inductive. From it follow `SchedulerTyped`,
`SchedulerBalanced`, `SchedulerLimits` and `SchedulerConserves`. `RefreshTurn`
proves the action property with `Earned`, which bounds the burst counter by the
history. `SchedulerInOrder` needs `Queues` too: who is served stands at the first
eligible place of one queue and at no other, and an earlier waiter for the same
repository would be eligible there. `RefinesAdmission` maps each step to one of `Admission` or a stutter:
a grant is an `Admit`, whose guards follow from `PermitsBalanced` and
`WithinLimits`.

`UpstreamClient_proofs`: `IInv == TasksOK /\ CircuitsOK /\ OthersOK`. `Good`, of
a task with its locals and what it was told, says that a repository excluded
has failed and one with a negative entry has said 404; that every candidate
which the search no longer asks has done one or the other; and that a failure
is remembered, by the round or by the loop. `NotFoundIsConfirmed` is not
inductive without it: it speaks of the last place only, while rounds forget
their 404s and failures one by one. `Placed` says what a search may ask. From
them follow `NotFoundConfirmed` and `SourcesTried`. `ProbesKeepDistance` rests
on `CircuitsOK`: the age of a circuit that is not closed never exceeds the time
since its last probe, because whatever opens it again resets its age; and on
`OneFirst`, by which the circuit asked is that of the repository sent to.

`Startup_proofs`: `StartIInv` relates the index of a start, `applied` and
`version`: whoever is at migration `i` finds `1 .. i - 1` applied, and the lock
is held within a transaction only. `StartVersionBacked` and
`StartSchemaComplete` follow for any number of processes and migrations.

`Serving_proofs`: `ServeIInv == Kept /\ (interfered \/ (Backed /\ Present))`.
`Kept` is what holds whatever other processes do: the types, that a completed
flight has somebody who will remove it, that references are counted, that every
part has an owner, and that a marked path has a holder. `Backed` and `Present`
(a part that is written or shared is there; a file that a flight has installed
has its record and fits it) hold until somebody interferes. The theorems are `FlightsLeave`, `PathsReleased`,
`TempsCounted`, `TempsReclaimed` and `FailuresCaused`. The steps of the eviction and
the refresh leave the memory of the requests alone (`Aside`), and set `interfered`
where they break `Present`. The last two of the
counts use `Cardinality(Tasks) < Width`: a process has fewer requests than a
`usize` can count.

`Processes_proofs` composes them: `IInv == StartIInv /\ ServeIInv /\ Tied`. A
step of a start or of a command leaves the memory of the server alone and so
keeps `Kept`; one that removes something while requests run sets `interfered`,
which is all that `ServeIInv` asks for; one that does so while none run finds
nothing that `Backed` and `Present` speak of. `Tied` says that nothing runs in
a server that is not up, and that the parts a server start has yet to find are
those it will sweep, which `ServerStartsClean` needs. `RangesServed` compares the
arithmetic of `RequestedRange` with the positions a header names, one form of
the header at a time (`FromFirst`, `Suffix`, `Ignored`). Every safety property of
the run `Processes` is a theorem.

`Routing_proofs`: `MatchesAsDenoted` says for patterns and paths of any length
that `GlobMatches` accepts what the reference denotes, and for plain patterns
nothing else. `Routed` is the property of the run, for any configuration: the
candidates of a search are the included repositories in their order
(`FirstRuleDecides`, `CandidatesIncluded`, `ConfiguredOrder`), and by the invariant
`Good` of `UpstreamClient_proofs` a search has been told of every candidate that is
no longer in its queue. A recursive function is what CHOOSE finds for its recurrence, so the
proof first shows that there is one to find: the table of where the rest of the
path can be cut into the rest of the tokens satisfies the recurrence of the
matcher (`CuttableAt`, `CutsMatch`). Two functions that satisfy it are equal:
they would differ first where least of pattern and path is left
(`MatchingUnique`). The tokens themselves are read by a recursion, whose
existence is shown from the end of the pattern on (`ReadingExists`).

Only model-checked: liveness (`RequestsEnd`, `UnrestrainedServed`,
`CircuitRecovers`, `FetchEnds`), as TLAPS does not reason about fairness here.
Every invariant and every action property of the runs is stated by a theorem,
with these hypotheses and no others: no size limit (`FilesTracked`); neither limit
nor refreshes nor late calls (`ChecksumsAgree`, `InstalledServed`, `RefinesLibrary`,
`MainBodiesMatch`, the last with versions of different length); one client, no
refreshes and no late calls (`LoneClient_proofs`); fewer requests than
a `usize` counts (`Serving_proofs`, `Processes_proofs`). Each hypothesis is one
the passing runs of the property share, and outside it the code does not keep
the property, or the comments say what is left of it. `Routed` takes from
`RoutedAssumption` that the candidates in their order are what the configuration
leaves; TLC evaluates it for the instance, whose candidates `RouteCandidates`
computes. (That `SelectSeq` selects and keeps the order is an induction.)

## 5. What is not modelled

- failing database calls, full disks, unreadable files (other than missing
  ones and missing directories);
- power loss: SQLite runs with `synchronous = NORMAL`, so a transaction may be
  lost with the machine, though not with the process;
- case-insensitive file systems: records that differ by case only are deleted
  before the new bundle is recorded (`cache/install.rs:40-52`);
- the parsing of paths, headers, URLs and configuration files, hit counters,
  statistics, health, logging: string processing and counters that no decision
  reads;
- a checksum of a main file that is passed through (`cache/download.rs:48-57,97-104`):
  it is built from the shared temporary file and passed through as well, and stores
  nothing; `Serving` has the passthrough of one path;
- the probe files of `storage::prepare` that a kill leaves behind, which nobody
  reads;
- several paths at the grain of `Serving`, several evictions or refreshes of one path
  there, and the calls of dropped requests that land late; liveness at that grain
  and of starts;
- liveness with late calls: the `Store` runs that check `RequestsEnd` have none, as
  no request waits for one.

## 6. What remains

1. What several clients keep under a size limit: `LoneClient_proofs` says what
   one keeps, `GuardHeld` and `InstallUndisturbed` what all keep, `StoreEvicted` what
   two lose.
2. The states after a late call or an overtaken flight: which of them the next
   download of the path repairs.
