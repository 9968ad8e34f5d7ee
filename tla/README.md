# file-analyzer: formal verification

TLA+ models of the concurrent, crash-prone parts of file-analyzer, the TLC
configurations that check them on small instances, and TLAPS proofs of the
results that matter most for every instance. Paths below are relative to the
repository; `server/` stands for `packages/server/file_analyzer/server/`,
`engine/` for `packages/engine/file_analyzer/`, `client/` for
`packages/client/file_analyzer/`.

## The system

file-analyzer turns a repository into tables (*engine*), keeps the resulting
databases hosted, backed up and healed (*server*), and reads them (*client*).
The analysis itself is a sequential pipeline over source text; what is hard to
get right sits around it, where processes share files and databases.

| Part (source) | State | Operations | Interacts with | Hard behaviour | Correct when |
|---|---|---|---|---|---|
| File lock (`server/locking.py`) | a sidecar file, an `flock` on its inode | acquire with deadline, release | every manager of a key; `remove_backups` deletes the sidecar | the path may name another inode than the one locked; holders die | two holders never coexist; acquire returns |
| Database host (`server/dbhost.py`) | `<key>.db`, throttle memory of touches | host, query, touch, remove; chunk rows on SQL backends | catalog rows, key lock | file and row change in separate steps; touches take no lock | a locked reader sees file and row of one upload |
| Session catalog (`server/catalog.py`) | sessions, databases, accesses, servers | register, touch, remove, prune | everything on the server | each statement commits on its own; readers take no lock | a hosted database always has a row |
| Backup manager (`server/backup.py`) | set directories: parts, manifest | backup, rotate, remove a set, remove a key, restore, scrub | host, catalog, key lock, worker pool | deaths mid-set; rotation against pruning; clock labels | a manifest has its parts; the last good set stays |
| Retention (`server/retention.py`) | none; a plan in memory | plan, evict, prune, reclaim | host, backups, catalog | plans without locks, acts later | spares what was used since; spares newest sets |
| Autopilot (`server/autopilot*.py`) | state file, suspect file, catalog snapshots | check, heal, back up, scrub, sweep, rebuild the catalog | host, backups, catalog | acts before it saves; decides before it locks; several servers repair one catalog | never replaces good content by worse; heals what can be healed |
| Supervisor, daemon (`server/supervisor.py`, `daemon.py`) | pid and endpoint files, catalog row, restart times | start, watch, restart, give up, stop | the server process, catalog | files named after the id, not the process; slow starts and deaths | one server, named by its files; restarts bounded |
| Erasure coding (`server/erasure.py`, `backup_pool.py`, `backup_worker.py`, `go/`) | shards | encode, rebuild; file-based worker batches | backups | missing shards, lost batches | any k of n shards restore |
| Sharding (`server/sharding.py`) | shard files and manifest copies on several roots | write, locate, verify, repair, remove | backups, autopilot's scrub | disks that rot, go and come back; deaths between renames and manifests | a manifest means the set restores; redundancy returns |
| Monitor (`engine/monitor/monitor.py`, `scanner.py`) | snapshot of the tree | initialize, scan, process, stop | diff database, log, pool | deaths between commits; exceptions; two monitors | every change reported once, index follows the tree |
| Change-diff database (`engine/monitor/diff_db.py`) | ring, batches, live index, counters | begin, record, update, finalize | monitor, readers | reads the counters outside the transaction; wrap | exactly the last events; numbers unique |
| Change log (`engine/monitor/change_log.py`) | all events | append | monitor | best effort | superset of the ring |
| Monitor pool, control (`engine/monitor/pool.py`, `worker.py`, `control.py`, `session_log.py`) | result files; registry of monitors | run batches; start, stop | monitor | lost results; stop races start | one monitor per repository |
| Injection (`engine/core/inject_pool.py`, `core/go/injector.go`, `unified_db.py`) | one database, many writers | make the structure, inject a block | analysis | transaction borders, the one write lock, a program that dies | an export that returns has every row once |
| Analysis, its planes (`engine/core/analysis_engine.py`, `engine/router/`) | `temp/` (mapping, tables, `.ok` markers), the repository database | stage, start workers, collect, export | worker processes, injection | a worker, a plane or the engine dies; `temp/` and database outlive the run | a good run has the tables of all its shards, from its own mapping |
| Client store (`client/store.py`) | a connection | execute (commits), query | all of the above | stale reads | - |
| Front end, readers, views, the analyzers | none | | | | not modelled: stateless or sequential |

`PROJECT.json` lists the same parts with their status, and under `hazards` the
places, line by line, where this code can go wrong in a way tests hardly reach.

## Modules

| Module | Models |
|---|---|
| `Mutex` | the abstract lock: per file, `Enter` when nobody is in, `Leave` |
| `FileLock` | `locking.py` over inodes: mkdir, open, `flock` attempts, time-out, release, the holder's death; and the one caller that deletes the sidecar's directory, `BackupManager.remove_backups` |
| `HostedKey` | one storage key on the SQLite backend: hosters, readers, backers and janitors over the stored file, the catalog row, the access time and the backup sets |
| `SelfHealing` | the autopilot's tick (check, heal, backup, save) over one hosted database, with re-hosts, periodic backups, damage and crashes between its steps |
| `CatalogRecovery` | the session catalog that several servers share: snapshots, damage, rebuild, registration, adoption of orphans |
| `ErasureSet` | one erasure-coded backup set on several disks: write, verify, repair, drop, remove |
| `ServerFleet` | the processes behind one server id: servers, the supervisor, `stop`, pruning |
| `ChangeMonitor` | the monitor's start, scan cycle, stop and failures over the diff database and the log |
| `BlockLoad` | the abstract load of a repository database: a block's rows appear all at once, and a good load has every block |
| `InjectPool` | the concurrent export: structure, pool of writers, blocks, report |
| `AnalysisRun` | one analysis after another over one `temp/` and one repository database: engine, plane, shard workers |
| `HostedKeyProofs`, `SelfHealingProofs`, `CatalogRecoveryProofs`, `ServerFleetProofs`, `ChangeMonitorProofs`, `InjectPoolProofs`, `AnalysisRunProofs` | the theorems about each |
| `ErasureSetProofs` | those about `ErasureSet`, and about `FileLock`, the lock that whoever works on a set holds |

How they fit together: `Mutex` is what `FileLock` implements. `HostedKey` takes the
key lock as one step and looks inside host, backup and rotation; `SelfHealing`
takes those as one step each and looks inside the autopilot; `ErasureSet` looks
inside one set. `CatalogRecovery` and `ServerFleet` are the two halves of
`catalog.py`, its databases and its servers. `BlockLoad` is what `InjectPool`
implements; `AnalysisRun` takes the export as two steps, structure and rows.

### FileLock

`path` is the inode the sidecar's path names, `fd[p]` the inode process `p` has
open, `flock[i]` who holds the flock of inode `i`. `_open` is two steps (`Mkdir`,
then `OpenExisting`, `OpenNew` or `OpenFails`), because the directory may be
removed in between; the polling loop is `Poll`. `Unlink` and `Rmdir` are the two
halves of `shutil.rmtree`, which `remove_backups` runs after it has released the
lock. An inode without a name and without a descriptor may be reused (`Free`).
The refinement `FilesAreMutexes` maps `Mutex!holder[i]` to the process that is
past `acquire` with inode `i` open: removal or not, every *file* is a mutex.
What is lost when the sidecar is removed is that the *path* stands for one file.
Names that every component has (`LockInit`, `LockSpec`, `lockVars`, `Nil`) are the lock's
own here, so that a module can extend it together with a component that uses the lock.

`HostedKey` does not repeat these steps. There the key lock is a mutex, except
that `RmTree` turns whoever holds it from `"key"` to `"stale"`: that holder no
longer excludes anybody. It is the coarse image of what `FileLock` does in
detail. A waiter that wakes up on an unlinked sidecar is in `FileLock` only.

### HostedKey

| Actor | Code | Steps |
|---|---|---|
| hoster | `DatabaseHost.host` | `HostPrepare` (size, hash and `now`, before the lock), `HostLock`, `HostSwap` (rename over the stored file), `HostUnlist` and `HostList` (`register_database`'s DELETE and INSERT, which commit apart) |
| reader | `query`, `touch` | `QueryThrottled`, or `Query` (DELETE) and `Touch` (INSERT) |
| backer | `backup_database` | `BackupCheck` (suspect? listed? before the lock), `BackupLock`, `Snapshot` (fresh label, online backup, integrity check) or `SnapshotRefused`, `SetMkdir`, `SetParts`, `SetManifest` (last, so it publishes the set), `Rotate` and `BackupDone` |
| janitor | `plan`, `enforce` | `PlanRead`, `PlanDecide`, then `Evict` (`EvictLock`, `EvictSkip`, `Unlink`, `Unrow`, `RemoveBackups`, `Wipe`, `Wiped`, `RmTree`) and pruning (`PruneNext`, `PruneDelete`, `PruneDone`) |
| anybody | | `LockTimeout`; `Fail` for the actors in `Fragile` |
| environment | | `Tick`, `Rot` (damage to the stored file), `PublishSuspects` (the autopilot) |

A set is its label, the second it was begun; `whole` and `manifests` say what of
it is on disk; `snap` what it was made from. Deleting a set is two steps,
manifest first. Content is the number of the upload, or `Bad`. `PlanRead`, `Unlink` and
`Unrow` each stand for several reads or commits of the janitor; their comments
say why nothing that the properties tell apart falls in between.

### SelfHealing

A tick loads `autopilot.json` into `mem` and writes it back as its last step
(`Save`); the file, the row, the sets and `suspect.json` change at once. So a
`Crash` between any two steps forgets what the tick learned and keeps what it did.

| Task | Code | Steps |
|---|---|---|
| check | `_task_check` | `CheckList` (the rows are listed first), `CheckFile` (triage by size and mtime, or deep), `CheckError` |
| heal | `_task_heal`, `_heal_locked`, `_heal_plan`, `_escalate`, `_adopt`, `_lost`, `_install` | `HealSkip`, `HealGone`, `HealSuperseded`, `HealFailed`, `HealNothing`; when nothing restores `HealUnrecoverable`, `HealAdopt`, `HealLost`, `HealDrop`; else `HealStage` (the newest exact candidate that restores, else a rollback), `HealSwap`, `HealList` |
| backup | `_task_backup` | `BackupSkip`, `BackupTask`, `BackupTaskFails` |
| others | `host`, periodic `backup_all` | `Host`, `PeriodicPasses` (looks at the flag), `PeriodicBackup` (takes the lock, later), `DamageFile`, `DamageSet`, `SetReturns` (a disk with the set's shards goes and comes back) |

A checksum is a version and a form, since an online backup of a file has other
bytes than the file: the lineage, the set of checksums the autopilot takes for
the hosted content, exists because of that. `accepted` is a history variable.

A backup set records what it is of, whether the checksum of its source is in the
manifest (`hashed`) and the last upload before its `created_at` (`since`): a file that is
rewritten while the online backup copies it gives a set without `source_sha256`
(`BackupRacing`). So there are two ways for a set to be exact in `_candidates`: a checksum
of the lineage (`InLineage`), or, when its source was not hashed, its date (`ByDate`). `cand`
keeps which it was, for only the first bears out what the heal promises. A trial
of the sets may fail for any of them (`failing`, one mishap): the heal goes to the next
candidate, and with none left escalates. `HealFailed` is what is never escalated: the key
lock stays busy, the re-check cannot read the file, or the pool did not run the restore.

### CatalogRecovery

`st` is `missing`, `bare` (a file without tables), `damaged` or `sound`; `rows`
what can be read from it. Each server is one process for one repository, with
two threads: its uploads (`HostSwap`, then `HostRow`: the DELETE, the INSERT, or
a statement that raises) and its tick.

| Code | Steps |
|---|---|
| `get_or_create_session` | `Join` |
| `_snapshot_catalog` | `Snapshot` |
| `_task_catalog`, `_recover_catalog` | `Look` (without the lock), `Relook` (with it), `Build` (snapshot, salvage, own session), `SetAside`, `Install` |
| `_sweep_orphans`, `_register_orphan` | `AdoptLook`, `AdoptRow` |
| `_store`, `_ensure_schema` of whoever connects | `Peek` in a server, `Stranger` in a new process |
| environment | `Die`, `Damage` (of any rows of the catalog, of the file, of a snapshot) |

`ini` is `SessionCatalog._initialized`: a process that made the tables once does
not make them again, so a catalog that vanishes under it becomes `bare`. Rows of
`servers` are in `ServerFleet` only; that a rebuild re-registers just the server
that did it is not modelled. `Build` always succeeds here: a rebuild that fails
its integrity check leaves everything as it was and is tried at the next tick.

### ErasureSet

`place[r]` is what root `r` shows: whether the directory is there, which shard
files, intact blocks, temporary files and manifest copy it has; `away[r]` is the
content of a disk that is not mounted. A write is `WriteBegin` (placement), then
`Stage`, `Rename`, `Publish` and so on, which repair shares; the manifest copies
are written one at a time, and deletion takes them first. The scrub is
`ScrubBegin`, `ScrubNothing`, `ScrubLost`, then `Judge`, in which the autopilot
asks whether all the set's roots are there. Of the code over GF(256) one fact is
used: any `K` intact blocks of a stripe give the others. `MakeRoot` is the backup
of another database, whose `mkdir` makes the directory of an absent disk.

### ServerFleet

`proc[p]` walks through `serve` (`Bind`, `WriteEndpoint`, `WritePid`, `Register`)
and `_teardown` (`Unregister`, `RemovePid`, `RemoveEndpoint`). The supervisor is
`Probe...`, `BeginRestart`, `StopOld`, `KillOld`, `CleanFiles`, `CleanRow`,
`Spawn`, `Started` or `StartFails`; a start that fails on its port is tried once
more on a free one. `Stop...` is `DatabaseServer.stop` in another process,
`Prune...` is `list_servers`. The endpoint file, the pid file and the row are
named after the id, so each is shared by a process and its successor. Taking the
row out may fail, which the code passes over in silence (`ClearRow`). History
variables count starts given up while their child was alive (`slow`), rows pruned
under a live server (`lost`) and restarts (`attempts`).

### ChangeMonitor

One action is one committed transaction of the diff database, or one read made
outside a transaction. `Open`, `Adopt`, `Seed`, `Seeded` are `initialize`;
`Scan`, `ReadFile`, `Compare` are `scan_once`, the tree being read a file at a
time while it may change; `BatchRead` ... `Finish` are `_process_events` in the
order of its commits. `Raise` is an exception out of any step: the loop's
`set_status` then commits what `record_events` had inserted so far. `Crash` is
the death of the process; its open transaction is gone. `hist`, `known` and
`finished` are history variables that no action reads except to extend them.

Left out: the settle window, the hash cache and callbacks (no effect on which
commits happen), statuses, the refresh of the unified database.

### InjectPool

A table is the number of its committed rows. `Structure` drops and makes the
tables; then `Take`, `Insert` and `Commit` are a worker with one block, `Report`
the generator's reading of the results. With the Go injector (`engine = "go"`) an
`Insert` belongs to the block's transaction and takes SQLite's write lock; in the
Python fallback `BeginImmediate` takes it and `ScriptCommits` gives it up, since
`executescript` first commits what is open, and each `Insert` commits alone.
`BlockFails` is a statement that fails or a write lock that did not come within
the busy timeout; `InjectorDies` the Go program's death, after which nothing is
known of the file and nothing is run again in Python.

The refinement maps `BlockLoad!rows` to `Seen`: what a reader of the file sees
with the Go injector, and with the fallback the tables that have all their rows.

### AnalysisRun

A file is known by the run whose mapping it was made from, 0 being no file.

| Code | Steps |
|---|---|
| `AnalysisEngine.run` | `Census` (what the repository holds decides the shards), `Clean`, `Emit`, `Collect`, `StageRaises`, `ExportStructure`, `ExportRows`, `Finish` |
| `RouterPlanes.run` | `PlaneEnds`: exit code and markers |
| `plane.go` | `Start`, at most `Workers` at a time |
| `worker.py` | `Read`, `WriteTables`, `WriteOk`, or `WorkerFails`, before its marker or after it |
| environment | `GroupDies` (all of it), `PlaneDies` or `EngineDies` (its workers live on: `OrphanWorks`); a file that `RemoveTemp` cannot remove |

`StageRaises` is an exception of the collection (a table cut short) or of a later
stage. A census that finds nothing raises before it touches anything, so there is no step.

`ExportStructure` drops the tables of the classes it is about to fill, and those
of `Core`, which it always does; the tables of other classes stay.

## Runs

Every run's cfg names its bounds; each property of a passing run is also broken
by a mutant of the code, listed in `PROJECT.json`.

| Run | Question | States |
|---|---|---|
| `FileLock_removal` | while a remover deletes the sidecar and anybody dies: is every file a mutex (`FilesAreMutexes` refines `Mutex`), do descriptors, flocks and holders agree (`LockInv`), does every acquire return (`AcquireReturns`)? | 2.5 k |
| `HostedKey_rotation` | do rotation, damage and a death ever cost the last set of the hosted content (`ContentStaysBackedUp`); does a backup see a torn pair (`PairUnderLock`)? | 535 k |
| `HostedKey_prune` | do pruning and rotation leave every manifest its parts and the key its newest set, when backer and janitor may die? | 109 k |
| `HostedKey_evict` | does eviction spare a key re-hosted since the plan, by an upload that may have begun before it? | 621 k |
| `SelfHealing_healing` | does a heal by checksum ever install what nobody accepted (`HealInv`), does a flag keep new backups from rotating the last good set out (`FlagStopsRotation`), is everything that can be healed healed (`EventuallyHealed`)? | 684 k |
| `CatalogRecovery_recovery` | does a rebuild ever replace a sound catalog (`SoundIsSpared`) or lose a readable row (`RebuiltCovers`); does each hosted file of a live server get its row back (`HostedIsListed`)? | 93 k |
| `ErasureSet_scrub` | does a manifest mean the set restores, at any point of writing, repair and removal (`ManifestMeansShards`); does repair ever take away (`RepairKeeps`); does redundancy return (`RegainsRedundancy`)? | 441 k |
| `ServerFleet_fleet` | is there one server per id (`OneServer`), is it the one its files name (`ServingIsNamed`), are restarts capped (`RestartsCapped`), does service return (`ServedOrGivenUp`)? | 819 k |
| `ChangeMonitor_converge` | ring, counter, log and batches with a death at any point; does the index reach the tree? | 769 k |
| `ChangeMonitor_mishaps` | does the index ever run ahead of the ring, whatever fails (`IndexNamesItsEvent`); do the events of a file follow on from each other over a stop, a restart and what changed in between (`Chained`)? | 6.1 M |
| `InjectPool_inject` | has an export that returns every row once (`OkMeansWhole` in `LoadInv`), is a block of the Go injector ever seen in part (`LoadsWholeBlocks` refines `BlockLoad`), does every load come to a verdict (`EveryLoadEnds`), whoever dies or times out? | 59 k |
| `AnalysisRun_analysis` | are the tables of a good run its own and no others (`OkHasOwnTables`), are they complete even with strays of an earlier run about (`OkHasEveryShard`), does a failed run keep what it staged (`FailureKeepsTemp` in `AnalysisInv`), does every run end (`EveryRunEnds`)? | 159 k |

### Bounds, and why they are enough

* *FileLock*: three processes (a holder, a waiter, a newcomer) are what a broken
  exclusion takes; four inodes let the path change more often than there are
  processes to notice. The theorems cover every number of both.
* *HostedKey*: `MaxHosts = 2` gives one re-upload, 3 in `evict` one before the plan and
  one after it; `MaxTime` of 3 or 4 gives
  `Keep + 1` sets and a rotation that deletes; `Keep` 1 and 2 give "newest" and
  "newest of several". Ages are 9 (never reached) where a run is not about them.
  `MaxBackup = 0` in `prune` says that a backup takes less than
  `debris_max_age`, which is an hour by default.
* *SelfHealing*: two uploads (a lineage can outlive one), `Keep = 2` (an exact
  set and one to roll back to), one damage (which may be the rewrite during a backup),
  one set lost, perhaps for a while, one crash or failure: a heal that fails and is
  tried again, from another set or from the one that returned.
* *CatalogRecovery*: two servers (two that repair at once), two tokens (a server
  whose session was lost mints another), two uploads, one snapshot, one death and
  one damage, each between any two steps.
* *ErasureSet*: `K = M = 1` on three roots, so that a shard can move to a spare
  root; two stripes, so that damage to different shards of different stripes is
  survivable though no shard is whole; one hit more than `M`.
* *ServerFleet*: five processes and two faults: a server, a replacement that
  fails, its second try and another restart. `MaxRestarts = 1` in a window of one
  tick reaches the cap and, at clock 2, the window's end.
* *ChangeMonitor*: a ring of two wraps with the third event and a batch of three
  is longer than the ring. One content suffices in `converge`, since what is
  compared is presence; `mishaps` has two contents and two edits, one of which may be
  made while the monitor is stopped, `Deletable` keeping one file present. `mishaps` has
  no deaths, which are in `converge`: a `Raise` that ends the process leaves what a
  death at that step does, or more.
* *InjectPool*: two workers compete for the write lock; three blocks leave one in
  the queue; two rows are a part and a whole; two exports write into what the
  first left, each by either engine.
* *AnalysisRun*: two runs, the second over the leavings of the first; two
  shards on two workers, either of them absent from either run; three mishaps, such as
  a plane and an engine killed in the first run and a worker that fails in the
  second. Three shards on two workers, where one waits for its start, pass with
  one mishap, and two shards on one worker with four; no run is kept for them.
* Deadlock is checked in FileLock and SelfHealing. Elsewhere clocks and budgets
  run out and the system may rest.

### Fairness

* `FileLock`: weak fairness of `Open` and `Poll`, for `acquire` loops until it
  holds the lock or its deadline passes. Nothing is assumed of holders: they may
  keep the lock for ever, and `Timeout` still ends the wait.
* `SelfHealing`: the loop ticks for ever and `check_interval` passes (strong
  fairness of `CheckDue` and of a scheduled `TickStart`: requested ticks only
  delay it); the deep check comes due again and again (strong fairness of
  `CheckFile(TRUE)`); a tick that began goes on (weak fairness of its steps).
  Nothing is assumed of uploads, periodic backups or damage, whose number is
  bounded, nor of the heal's back-off.
* `CatalogRecovery`: the tick recurs and runs `_task_catalog` and the sweep; a
  begun task and a begun upload go on; the catalog lock is free again and again,
  and whoever waits for it gets it in the end (strong fairness of `Look`, whose
  thread may be busy, and of the tick's steps). A wait that times out is another
  try at the next tick.
* `ErasureSet`: weak fairness of the scrub, which comes round again and again,
  and of a deletion that began. Crashes are bounded; disks need not come back.
* `ServerFleet`: weak fairness of the supervisor's loop and of each process on
  its way up or down. A process that hangs is excepted, being a fault.
* `ChangeMonitor`: weak fairness of each monitor's `Cycle`: the scan loop never
  ends by itself, and a monitor that is down is started again. Edits, stops,
  crashes and exceptions have no fairness.
* `InjectPool`: weak fairness of each worker and of the report: a statement
  returns, or fails after the busy timeout. Nothing says that it succeeds.
* `AnalysisRun`: weak fairness of the engine and of each shard's worker; the
  parsers are taken to return. Failures, deaths and orphans have none.

## Proofs

All are checked by TLAPS from the named assumptions on the constants only.

| Theorem | Says | Assumes |
|---|---|---|
| `ErasureSetProofs!LockInvariance`, `LockExclusivePerFile` | `LockInv`; per-file exclusion | - |
| `ErasureSetProofs!LockRefines` | `FileLock` implements `Mutex` file by file, removal and deaths included | - |
| `ErasureSetProofs!LockExclusive` | the lock is exclusive | `Removers = {}` |
| `ErasureSetProofs!TypesKept` | types; with them, that every repair places each damaged shard on a root | - |
| `ErasureSetProofs!ManifestInvariance` | a set with a manifest can be restored | in the property: no stripe hit more than `M` times, no disk away around a removal |
| `ErasureSetProofs!RepairOnlyAdds` | no step of a backup or repair, nor a crash in one, loses a set | in the property: no second copies of a shard |
| `HostedKeyProofs!BasicsInvariance` | types, one holder of the lock, an upload in hand has its number | - |
| `HostedKeyProofs!Discipline`, `Restorable` | a published set has all its parts | `PruneOnly`: no eviction |
| `HostedKeyProofs!RotationInvariance`, `LastSetSurvives`, `ContentSurvives` | the last set, and the last set of the hosted content, survive | no janitor; damage is detected |
| `HostedKeyProofs!PairInvariance`, `PairSeenWhole` | no torn pair | no janitor; no hoster dies, in particular not between the swap of the file and its row |
| `HostedKeyProofs!EvictionSparesUploads` | an eviction spares what was hosted since its plan | `OneUploader`: one hoster, who does not die, and no readers; any backers and janitors, any ages, any budget |
| `HostedKeyProofs!LastSetSurvivesPruning` | janitors that prune, and rotation, leave a key its last complete set | `PruneOnly`; `OneUpload`; `BackupsAreFast`: a backup takes less than both ages |
| `SelfHealingProofs!HealInvariance` | `HealInv`: a lineage holds only accepted content, and a set exact by checksum restores only accepted content | - |
| `SelfHealingProofs!FlagHoldsSets` | while the flag is up, no backup that begins rotates the good sets out | - |
| `CatalogRecoveryProofs!RecoveryInvariance`, `SoundSpared`, `RebuiltKeeps` | the lock order of repair and registration; no sound catalog with rows is set aside; no readable row is lost | - |
| `ServerFleetProofs!FleetInvariance`, `NamedWhileServing` | the one process is the supervisor's and its files name it | in the property: no slow start, nothing pruned |
| `ServerFleetProofs!OneServerPerId` | live processes are at most one more than the slow starts | - |
| `ServerFleetProofs!RestartCap` | no window has more than `max_restarts` restarts | - |
| `ChangeMonitorProofs!TypeInvariance`, `TypesKept` | types | - |
| `ChangeMonitorProofs!IndexInvariance` | the index names its event | - |
| `ChangeMonitorProofs!RingInvariance`, `SeqInvariance` | the ring is the last events, numbers are unique | `Alone`: one monitor, one capacity, no exceptions |
| `ChangeMonitorProofs!LogInvariance`, `BatchInvariance` | the log holds the ring; the batches are the last ones | `Alone`; in the properties: no death |
| `ChangeMonitorProofs!ChainInvariance` | the events of a file follow on from each other | `Alone`; `Steady`: no stops, or offline changes are recorded and some file stays; in the property: no death, no exception, no file that could not be read |
| `AnalysisRunProofs!FailureInvariance`, `OwnTables`, `EveryShardHasTables` | a failed run keeps what it staged; a good one has the tables of all its shards, from its own mapping | in the properties: nothing stuck in `temp/`, no worker that outlived its plane or engine |
| `InjectPoolProofs!LoadInvariant`, `OkIsWhole` | an export that returns has every row of every block once | - |
| `InjectPoolProofs!InjectionLoadsWholeBlocks` | `InjectPool` implements `BlockLoad` | - |

The arguments:

* **FileLock.** `LockInv` says that descriptors are open exactly inside the poll
  and the critical section, that a holder has the flock of its inode and a flock
  belongs to its holder. Exclusion per file follows at once, and with it the
  refinement: a step into the critical section is `Enter` of that inode, a
  release or a death in it is `Leave`, all others stutter. Exclusion per *path*
  needs in addition that all descriptors are open on the file the path names
  (`SidecarStays`), which holds as long as nobody removes it.
* **HostedKey, parts.** `CompleteIsRestorable` alone is not inductive: writing a
  manifest needs the parts still there. `SetsInv` adds that writer and deleter
  hold the one lock (`OneHolder`, `WritersLocked`) and that a writer about to
  publish finds its parts (`PartsInPlace`). Eviction is excluded because
  `RmTree` breaks `OneHolder`.
* **HostedKey, rotation.** `BackupInv` adds that the set being written is newer
  than all others and holds the hosted content (`NewestInHand`,
  `SnapshotInSet`), that its manifest is there when rotation starts
  (`Published`). `_rotate` keeps at least one newest directory, and that one is
  complete and holds the hosted content.
* **HostedKey, pair.** Inside a hoster's locked section the pair may differ;
  `PairInv` says it differs only there, and by that hoster's own upload.
* **HostedKey, eviction.** The janitor compares the time in the row with the one in its
  plan, so `EvictInv` is about times: a plan names no later time than the row it read
  (`UsedShows`: if anything was hosted since, the row is later, or its upload still
  holds the lock), and an upload in hand is later than the row it replaces
  (`UploadIsLater`). That needs one uploader: `host` takes its time before it
  waits for the lock, so of two uploads the one hosted last may have the earlier time.
* **HostedKey, pruning.** `SparesNewest` says that the sets a janitor is about to prune are
  not the newest complete one, which `remove_set` does not look at again. It stays true
  because sets only get newer: whatever is published after the plan was made is newer
  than all it lists (`PlanIsOlder`), and what is being written is neither debris nor old
  yet (`InTheMaking`, where `BackupsAreFast` is needed).
* **ErasureSet, placement.** `Targets` is the one placement in which each damaged shard
  is where `repair_set` puts it given those before it. That there is one is proved by
  taking the longest prefix that can be placed and extending it by a shard.
* **ErasureSet, manifests.** `LedgerInv` keeps books for each stripe: there is a set `H` of
  at most `hits` shards such that all others are intact wherever they are, mounted or
  not, and are somewhere while any manifest copy is left (`Sound`). Damage and outages
  add to `H` what they hit. A repair puts back whole shards only; a removal takes
  every manifest before it takes a shard (`Orderly`). With at most `M` hits at
  most `M` shards of a stripe are not found intact, which is `Recoverable`.
* **ErasureSet, repair.** With one copy of each shard at most, the copy a reader locates is
  the only one; a step of a repair leaves it, or replaces it whole.
* **SelfHealing, flag.** A backup that begins while the flag is up is refused, one that
  passed before it is `passed = "down"` at the step the property looks at; a set that is
  lost is not in the property, one that returns takes no other away, and no other step
  touches the sets.
* **SelfHealing.** Both the saved and the running copy of a lineage must be sound
  (`LineageSound`), because a crash brings the saved one back. `IHealInv` adds
  `Control`: which fields of the tick are set at which of its steps, so that the
  step that installs has a candidate chosen under the row it finds.
* **CatalogRecovery.** `SoundIsSpared` needs that a rebuild's `Relook` is still
  true when it acts: `Locked` says that whoever builds, sets aside or registers
  has the lock, so only damage and connections that take no lock can come in
  between. Connections make at most an empty catalog of one that is gone
  (`GoneIsEmpty`), which loses nothing, and damage takes rows away, which keeps
  `RebuiltCovers`. That the salvage covers what it reads is `SalvagedTyped`.
* **ServerFleet.** While no start was given up, `InHand` says that a live process
  is the one the supervisor tracks and that the id's files follow its state,
  step by step on its way up and down; between `CleanFiles` and `Spawn` nobody
  is alive. `OneServerPerId` counts: `CountInv` bounds all live processes and
  those the files name, apart from the tracked one, by `slow`. `RestartCap` keeps
  the deque equal to the history in the window (`CapInv`).
* **ChangeMonitor, ring.** `RingInv` places every row: event `n` in slot
  `(n-1) % c`, among the last `c` (`Placed`), and conversely each of the last
  `c` has its row (`Kept`). Recording a batch preserves both by two facts about
  remainders (`SameSlotApart`, `SlotComesAround`): equal slots are `c`
  apart, and any `c` numbers in a row meet every slot. A death between any two
  commits changes neither.
* **ChangeMonitor, log and batches.** `LogInv` follows the events of the cycle in hand: up to
  `archive` they are in the ring and not yet in the log, and the outcome a row shows is
  the one that will be appended (`Logged`). The batches are the ring once more, one row a
  batch (`BatchRows`), of which the one in hand is not finished.
* **ChangeMonitor, chain.** `Carried` relates the snapshot the scan compares with to
  `known`, what the events so far ended with, at each step of a cycle, a stop and a
  start; `Lasting` says that, as long as every file could be read, a started monitor finds
  an index with some file in it, so that it is not taken for a first run.
* **ChangeMonitor, index.** An index row is written from the event just
  committed; `Written` carries that fact from `RecordWrite` to `Index`, and
  `hist` only grows.
* **InjectPool.** That a good report means whole tables needs to know of each block
  where it is: in the queue with an empty table, with exactly one worker
  (`InOnePlace`), done with all its rows (`RowsAreKnown`), or failed; a report is
  good only if none failed and all are done. The refinement uses the same: the
  table of a block in hand holds what its worker committed of it, so the Go
  injector's `Commit`, or the fallback's last `Insert`, is the abstract `Load`.

* **AnalysisRun.** `TablesThere` is what the plane's exit code and markers show: a process
  of this run that ended well left its tables, and nobody takes them away before the
  collection. That they are its own needs `TempIsOwned`: after `Clean`, tables in `temp/`
  are of this run unless their shard was stuck or an orphan may write it (`Foreign`).

Only model-checked: liveness, which this prover cannot do (`AcquireReturns`,
`EventuallyHealed`, `HostedIsListed`, `RegainsRedundancy`, `ServedOrGivenUp`,
`Converges`, `EveryLoadEnds`, `EveryRunEnds`). Every safety property of the runs is
stated by a theorem; where the theorem has assumptions, the configuration of the run
satisfies them or the run goes beyond them on its small instance, as
`ChangeMonitor_mishaps` does.

## Disagreements with the documentation

Each of these appears when the named cfg is changed as given and the named property, which its
module defines, is checked alone (under `Spec` for safety, `FairSpec` for
liveness); constants not given stay as they are in the cfg. Of one whose condition
`Uncrashed` or `Unharmed` is dropped, that condition of the property is left out.

| Claim | What the code does | Seen in |
|---|---|---|
| "A cross-process exclusive lock backed by a sidecar lock file" (`locking.py:45`) | `remove_backups` deletes the sidecar after releasing it; waiter and newcomer hold two files (`backup.py:724`) | `FileLock_removal`: `MutualExclusion` |
| "the newest set of every database that is still hosted is always kept" (`retention.py:11`) | `_evict` gives up the lock before `remove_backups` (`retention.py:306`); sets of a new upload go | `HostedKey_evict`, `MaxAge = 0`: `ContentStaysBackedUp` |
| "Every database always keeps its newest set" (`docs/server.md:181`) | a plan between `register_database`'s DELETE and INSERT sees no database (`catalog.py:198`) | `HostedKey_prune`, `MaxHosts = 2`, `BackupMaxAge = 0`, `DebrisMaxAge = 9`, `Keep = 1`, `Fragile = {}`: `LastSetKept` |
| "again sparing each live database's newest set" (`retention.py:14`) | `remove_set` does not look again at which set is the newest (`backup.py:705`) | `HostedKey_prune`, `Budget = TRUE`, `MaxBackup = 1`, both ages 9, `Fragile = {}`: `LastSetKept` |
| "skips it if it was re-hosted or read since the plan was made" (`retention.py:23`) | a throttled read leaves no trace (`dbhost.py:461`); a read between the touch's DELETE and INSERT even looks like none | `HostedKey_evict`, `Readers = {r1}`, `Throttle = 1`, `MaxAge = 0`, `MaxTime = 4`: `EvictSparesUsed` |
| the same | `host` takes `updated_at` before it waits for the lock (`dbhost.py:169`): of two uploads, the one hosted last may look older than the plan | `HostedKey_evict`, `Hosters = {h1, h2}`, `Backers = {}`: `EvictSparesUsed` |
| the same | a hoster that dies between the swap of the file and its row leaves new content under the old time (`dbhost.py:204`) | `HostedKey_evict`, `Fragile = {h1}`: `EvictSparesUsed` |
| the same | whoever waited for a lock file that `remove_backups` deleted excludes nobody | `HostedKey_evict`, the condition on `held` left out: `EvictSparesUsed` |
| "Refuses keys flagged in `suspect_keys`" (`backup.py:414`) | asked before the wait for the lock, not after (`backup.py:422`): a backup that passed the test rotates the last good set out | `SelfHealing_healing`, `MaxHosts = 1`, `MaxMishaps = 0`: `FlagSavesSets` ("no backup of them can rotate the last good sets out", `autopilot.py:27`) |
| heal restores "an *exact* copy of the hosted content" (`autopilot.py:29`) | a set whose source was not hashed is exact by its date (`autopilot.py:1716`); the source is not hashed when it is rewritten during the backup (`backup.py:442`), so the rewrite, which nobody accepted, may be what is restored | `SelfHealing_healing`, `MaxHosts = 1`, `MaxLoss = 0`, `MaxMishaps = 0`: `ExactIsHosted` |
| a backup is taken when there is none of the current content (`autopilot.py:38`) | `_lineage` (`autopilot.py:1250`) keeps the saved lineage while `updated_at` is the same; after a crash between an adoption's write of the row and the tick's save, it never learns the adopted checksum, no set counts as one of the current content, and every check that runs is followed by another backup | `SelfHealing_healing`, `MaxHosts = 1`: `BackupsSettle` |
| a database whose file is gone is dropped when nothing can restore it (`autopilot.py:34`) | sets that exist but fail to restore count as none, so the row goes while sets remain (`HealDrop`) | read off `HealLost`, `HealDrop` |
| "A damaged or deleted catalog is rebuilt from the newest good snapshot (or recreated empty)" (`docs/server.md:208`) | whoever connects before the autopilot looks makes an empty catalog of a deleted one (`catalog.py:74`), which is healthy: the snapshots are not used, only hosted files are adopted again | `CatalogRecovery_recovery`: `DeletedIsRebuilt` |
| the same promise of the heal | a catalog rebuilt from an older snapshot names the content before the last upload; the file then counts as drifted, and what is exact is the older content | `CatalogRecovery_recovery`, `MaxDeaths = 0`: `RowsFollowFiles` |
| "an unmounted disk never triggers this" (`autopilot.py:17`) | the test is whether the directory exists (`autopilot.py:1239`), which another database's backup makes anew (`sharding.py:192`): a set the absent disk would restore is dropped | `ErasureSet_scrub`, `NRoots = 2`, `NStripes = 1`, `MaxHits = 0`, `MaxOutages = 2`, `MaxCrashes = 0`: `OfflineNeverDropped` |
| "Any k intact shards rebuild each stripe" (`sharding.py:15`) | of two copies of a shard the first file found is used, damaged or not (`sharding.py:345`) | `ErasureSet_scrub`, `NStripes = 1`, `MaxCrashes = 0`: `AnyKRebuild` |
| repair restores missing manifest copies (`backup.py:1057`) | a copy that is there but unreadable counts as present while the shards are whole (`backup.py:860`) | `ErasureSet_scrub`, `NRoots = 2`, `NStripes = 1`, `MaxHits = 1`, `MaxOutages = 0`, `MaxCrashes = 0`, `Rot = TRUE`: `RegainsRedundancy` |
| "never a manifest pointing at missing shards" (`backup.py:646`) | a manifest copy on a disk that is away during the removal comes back with it | `ManifestMeansShards` without its condition `removed => spent.outages = 0` |
| "optionally pruning ones whose PID is dead" (`catalog.py:318`) | the row is deleted by its id after its process was looked at, when a successor may have registered (`catalog.py:344`) | `ServerFleet_fleet`: `PrunesTheDead` |
| "monotonic 1-based global sequence" (`diff_db.py:54`) | after an exception `set_status` commits half a batch without its counter (`monitor.py:365`) | `ChangeMonitor_converge`, `MaxCrashes = 0`, `MaxFaults = 1`: `SeqNamesOneEvent` |
| the same | two monitors read the counter outside a transaction (`diff_db.py:347`) | `ChangeMonitor_converge`, `Monitors = {m1, m2}`: `SeqNamesOneEvent` |
| "the live index of the current on-disk state" (`diff_db.py:23`) | the snapshot is replaced before its events are processed (`monitor.py:238`); an exception loses them | `ChangeMonitor_converge`, `MaxCrashes = 0`, `MaxFaults = 1`: `Converges` |
| the same | without `record_offline_changes` a restart deletes no rows | `ChangeMonitor_converge`, `RecordOffline = FALSE`, `MaxStops = 1`: `Converges` |
| "a strict superset of the FIFO -- nothing is thrown away" (`change_log.py:11`) | a death between `record_events` and `append_events` | `ChangeMonitor_converge`, `Uncrashed` dropped: `LogHoldsRing` |
| "`change_batches` ... is capped the same way" (`diff_db.py:11`) | a batch never finalised leaves its slot to an older one | `ChangeMonitor_converge`, `Uncrashed` dropped: `BatchesAreLast` |
| "the current tree is the baseline, not a change" (`monitor.py:214`) | a death while seeding: the rest is reported as created | `ChangeMonitor_converge`, `Unharmed` dropped: `Chained` |
| "changes that happened while the monitor was down are still surfaced" (`monitor.py:195`) | an emptied index is taken for a first run | `ChangeMonitor_converge`, `Files = Deletable = {f1}`, `MaxEdits = 4`, `MaxStops = 1`, `MaxCrashes = 0`: `Chained` |
| "consecutive change events" (`diff_db.py:9`) | a ring reopened with another capacity keeps rows in their old slots | `ChangeMonitor_converge`, `Files = Deletable = {f1}`, `Contents = {c1, c2}`, `MaxEdits = 5`, `MaxStops = 1`, `MaxCrashes = 0`, `Capacities = {2, 3}`, `MaxCapacity = 3`: `RingIsLastEvents` |
| "any failed block rolls back and raises" (`docs/core/db-generator.md:143`) | in the Python fallback `executescript` commits the `BEGIN IMMEDIATE` before it and runs the block in autocommit mode (`inject_pool.py:57`), so the rows before the failing statement stay | `InjectPool_inject`: `FailedRollsBack` |
| "Schema-definition tables reference file_details, so they must be dropped before it" (`db_generator.py:272`) | class tables are dropped only if this run has rows of them (`db_generator.py:287`), `file_details` always: analysed again after the last file of a class is gone, a repository keeps the class's tables, whose `file_id`s name other files or none | `AnalysisRun_analysis`: `TablesOfOneRun` |
| "start clean" (`analysis_engine.py:428`) | files that cannot be removed are passed over in silence (`analysis_engine.py:373`), the workers of a killed Go plane or engine go on writing, and the collection takes every file of `temp/tables`: tables of an earlier mapping get into the database | `AnalysisRun_analysis`, `OkHasOwnTables` without its condition on `orphans` and `stuck` |

## Not modelled, and why

* *The analyzers, converters, parsers, views and readers*: by far most of the
  repository's lines. They are sequential or stateless, and what they compute is
  parsing and layout over data no finite model stands for. Request routing,
  read-only SQL tests and logs of the front end are of the same kind.
* *GF(256)*: `erasure.py` and `go/backup.go` compute over 256-element tables;
  `ErasureSet` uses the one fact that any `K` blocks give the rest.
* *The batch pools* (`monitor/pool.py`, `backup_pool.py`): what they may return is
  in the models (any subset of results, a failed job); their own files are not.
* *The SQL backends of the host and the catalog*: chunk rows, and sessions
  inserted without a file lock. Read off the code: the sweep adopts nothing there
  (`autopilot.py:2090`), so a row that is lost stays lost.
* *Of the analysis*: the Python plane, which has no workers that outlive it; the
  linkage and archive stages, which may only raise; building the Go programs.
* *Of the heal*: a row that cannot be written after the file was swapped (the death there,
  which is modelled, leaves the same), `updated_at` taken before the wait for the key
  lock (`dbhost.py:169`), so that a set made in the wait may count by its date, and a
  rewrite during a backup that moves neither size nor mtime.
* *Of the servers*: `stop all_for_repo`, a `stop_pid` that gives up, and a SIGTERM between
  `Register` and `_install_signals`, which ends the process as `Die` does.
* *Of the monitor*: `stop` and `start` of one object, whose snapshot is still in memory
  (`monitor.py:372`); `Open` always reads it from the database.
* The registry of monitors and the client store: planned below.
* *The rest of the autopilot's sweep*, VACUUM, reports, status rows, and the
  background threads' start and stop.
* Time is counted in steps or seconds and never set back.

## Plan

1. `ChunkedHost`: chunk rows and their separate commits, under the key lock.
2. `MonitorControl`: `stop_monitor` against `start_monitor`, and a scan thread
   that outlives its ten seconds.
3. The batch files of `monitor/pool.py` and `backup_pool.py`: a result is
   reported at most once and belongs to its batch.
4. A clock that is set back, in `HostedKey`.

Each of the runs answers a question of its own; what only shows a disagreement is a
row of the table above.

Theorems next: `EvictSparesUsed` and the pruning theorem with several uploads, under a
condition on their times; the ring and the log after exceptions, for the events that
were committed with their counter; `RowsFollowFiles` of `CatalogRecovery` for the servers
that did not lose a session.
