# TLA+ verification of the Nextcloud sync plugin

This directory models the synchronisation engine of the plugin in TLA+. TLC
checks the models on small instances, and TLAPS proves theorems about them for
every value of their constants. Paths below are relative to the repository;
the implementation is `src/` and its specification `docs/spec.md`.

- [Inventory](#inventory): the parts of the system, their state, and what makes each correct
- [Modules](#modules) and how they correspond to the code
- [Runs](#runs), their bounds, and what they show
- [Deviations](#deviations) of the code from what its documents say
- [Fairness](#fairness), [Proofs](#proofs), [Limits](#limits), [Plan](#plan)

## Inventory

The plugin keeps an Obsidian vault and a Nextcloud folder the same. It runs in
one JavaScript thread: everything is atomic between two `await`s, and every
`await` lets vault events, timers and other operations in. Other devices write
to the same folder through the server only. On mobile the app is killed at any
moment, without notice.

| Component | State | Operations | Correct when |
|---|---|---|---|
| **Session** `sync/SyncEngine.ts` (`syncManual`, `runSyncSession`, `incrementalSync`) | `running`, `stopRequested`, `retryQueue`, the session's counters | start, list, classify each file, scan local files, absence deletion, convergence gate, save, drain | an unresolved file is looked at again; nobody's version is replaced unseen |
| **Remote listing** `sync/scan/RemoteListingSource.ts` | `remoteRootEtag`, `fullScanSkipCount` in the state | probe the root ETag, short-circuit to a listing rebuilt from the rows, or list and arm | the rebuilt listing is what the server would answer |
| **Transfers** `sync/transfer/TransferService.ts`, `uploadStrategy.ts` | none | upload with `If-Match`, download, size limit, refusal of empty bodies | the row recorded describes the file and the server's version |
| **Deletion** `sync/deletion/DeletionService.ts` | none | prove and delete on the server, restore, drop a row, trash locally | only content this device synced is deleted |
| **Conflicts** `sync/conflict/ConflictApplier.ts`, `sync/ConflictResolver.ts`, `sync/merge/*` | clean sides, merge bases | identity check, hold, tie, prefer one side, merge and push | neither side is lost; a push that failed is made later |
| **Watch mode** `sync/watch/WatchOperations.ts` | path locks, `pendingPaths` | single-file sync, delete, rename, folder operations, drain | never beside a session on the same path; no deadlock of two-path locks |
| **State store** `data/StateDB.ts`, `util/AsyncMutex.ts` | rows, root ETag, `saveTimer`, two files | set, save, debounced save, flush, reset, load and recovery | a restart brings back a state that was real, never an older one |
| **Directories** `sync/directory/*` | directory rows | L/R/T table: create, delete, trash, track | an empty or failed listing deletes nothing |
| **Breaker, renames** `sync/SyncEngine.ts`, `util/limits.ts`, `sync/RenameTracker.ts` | candidates of one session | mass-delete limit, hash and file-id renames | a deletion wave beyond the limit is refused whole |
| **Concurrency** `util/ConcurrencyLimiter.ts`, `runFileBatch` | slots, bytes in flight, per-directory chains | limit transfers by count and bytes | no deadlock, no starvation, budget respected |
| **Directory cache** `network/RemoteDirCache.ts` | proven directories, MKCOL in flight | single-flight creation of ancestors | only a proven directory is remembered |
| **Local adapter** `data/LocalAdapter.ts` | ignore list | temporary file, removal, rename | a crash leaves a readable file |
| **Other stores** `data/MergeBaseStore.ts`, `CleanSideStore.ts`, `SyncHistoryStore.ts` | a map each | set, save, load | as the state store |
| **Engine life cycle** `main.ts`, `SyncEngine.ts` (`abortAndWait`, `resetIndex`) | `currentRun`, the engine held | stop and wait, reset, mirror, tear down, build | a command waits for the save of the session it stops |
| **Mirror** `sync/mirror`, `sync/mirrorPlan.ts` | the plan between planning and answer | plan, download, remove, create, make the rows agree | later sessions send nothing of the old vault back |
| **Resolution** `sync/resolution`, `ui/forceResolution.ts`, `ui/compareResolution.ts` | clean sides | push, pull, restore a side | a line is dropped only by a choice of the user |
| **Plugin bundles** `sync/plugins/*` | directions, held settings, plugins awaiting restart | choose a bundle's direction, order its files, forget unlisted plugins | one version's files together; settings never in an old schema |
| **Creation times** `sync/ctime` | none | rewrite creation times | metadata only |
| **Clients, shell, UI** `network/*`, `main.ts`, `ui/*`, `auth/*` | connection, settings | WebDAV requests, vault events, dialogs | I/O and presentation |

How they interact. `main.ts` turns vault events into watch operations and timers
into sessions. Both run the same per-file code: classification, transfers,
conflicts, deletions. All of it reads and writes the rows of one `StateDB`,
whose row says which content both sides last agreed on (`localHash`,
`remoteId`) and which stat of the local file that was (`localMtime`,
`localSize`, the *signature*, which lets a scan skip reading the file). The
session's listing comes from the server or, while the root ETag matches, from
the rows themselves: rows that are wrong then become a wrong picture of the
server. The gate at the end of a session is the only protection against that.

Hard behaviours: a session and a watch operation on one path; the user saving
between two awaits of an operation on the same file; another device writing
between listing and request; requests that fail, or that succeed and whose
answer is lost; a crash between any two steps, which undoes the rows but not the
file or the server; `requestStop`; the debounced save that persists whatever is
in memory; the three-step replacement of the state file.

## Modules

| Module | What it is | Composes |
|---|---|---|
| `FileSync` | one file, await by await: user, other devices, server, sessions and watch operations | |
| `VaultSession` | whole sessions over several files: first sync, incremental sync, re-seeding | one step per file |
| `TransferBatch` | the transfers of one session: slots, byte budget, directory chains, folder cache, client writes | limiter, cache, client |
| `DirSync` | folders: reconciliation, breaker and its resolution, watch operations | session, watch mode, cache |
| `Conflict` | one note on several devices: decision, merge, merge base, clean sides, the user's commands | resolver, merge, stores |
| `Plugins` | one plugin's bundle here and elsewhere | session, Obsidian |
| `Mirror` | Mirror from remote, and the sessions after it | mirror, session |
| `StateStore` | the persistence protocol of `StateDB` | |
| `Engine` | sessions, commands, tear-down around the store | `EXTENDS StateStore` |
| `AtomicStore` | what the persistence promises the engine | implemented by `StateStore` |
| `FileSync_proofs`, `Engine_proofs`, `TransferBatch_proofs`, `DirSync_proofs`, `Mirror_proofs`, `VaultSession_proofs`, `Plugins_proofs`, `Conflict_proofs` | theorems and proofs | each `EXTENDS` what it is about; `Engine_proofs` holds those of `StateStore` as well |
| `MC*` | TLC instances: sets, settings, sizes | |

The modules divide the system by question. What interleaves within one file is
`FileSync`; there a step runs from one `await` to the next. In `VaultSession`,
`DirSync`, `Plugins` and `Mirror` what happens to one file is one step, because
their questions are about what a session computes from a listing and about many
files: a reader who doubts that step finds it taken apart in `FileSync`.

### FileSync

One file of a vault that has other tracked files. The interleavings that matter
are between operations on the same path, because rows of different paths are
independent except through the root ETag and the session's counters, both of
which are in the model.

| Variable | Code |
|---|---|
| `srv`, `rev` | the file on the server with its stored checksum (`oc:checksums`); its ETag, which Nextcloud also propagates to the vault root |
| `disk` | the vault file |
| `base` | `StateDB.getFile(path)`; `sig` stands for the two signature fields matching the present stat |
| `root`, `skips` | `remoteRootEtag`, `fullScanSkipCount` |
| `saved`, `timer` | the state file as last persisted; a `requestSave` is due |
| `retry`, `pending` | the path is in `retryQueue`, in `pendingPaths` |
| `events` | vault events whose debounce, or whose wait for the path lock, is not over |
| `pc`, `op` | for each of the two actors `scan` and `watch`: the await it stands at and what it has read so far |

A step runs from one `await` to the next. `op` holds what an actor read earlier
and uses later, which is where stale values come from: the listing entry
(`info`, taken at version `at`), the row and the hash at classification, the
body read or fetched. The labels of `pc` name the awaits: `classify` is
`processRemoteFile` (or the local scan, for a file absent from the listing),
`read`/`send` are `uploadFile`, `fetch`/`write` `downloadFile`, `conflict` to
`sendMerged` `ConflictApplier`, `proof`/`delete`/`missing` `DeletionService`,
`recheck`/`ask`/`trash` the absence deletion, `record` the re-stat and `setFile`
that ends a transfer.

Data is abstracted: a body is a model value and stands for its own SHA-256; the
outcome of the conflict resolver is chosen from `Decisions`, and a merge may
produce any body. A crash, a failed request, a stop, a deferral and a throwing
session each cost one of `MaxFaults`. `Env` switches the environment's
behaviours on by name (see the module's header), so that a run can ask its
question without the deviations another run is about.

### StateStore

`mem` counts the versions of the in-memory state; a file is the version it holds
and whether all of it was written. The job at the head of `queue` runs through
`write`, `finish`, `remove`, `rename` (`doSave`), and `load`, `adopt` are the
recovery. A crash may come at any step. `AtomicStore` says what the engine may
rely on, in three actions: memory moves ahead, the durable version moves up to
at most memory, and a restart brings memory back to the durable version.
`Recoverable` (what `load` would return) is the refinement mapping.

### TransferBatch

`queue` and `active` are `createLimiter`, `free` and `waiters` the
`ByteSemaphore`, `chain` the promises of `dirChains`, `proven` the
`RemoteDirCache` (an MKCOL in flight is a task at `mkcol`; a second one joins it
at `join`). A step is a callback up to its next `await`. A task goes `queued`,
`started` (it has a slot), `chained` (it waits for its directory), `waiting` (for
bytes), then through the folders above its file (`ask`, `mkcol`, `join`, `nodir`)
to its `write`, or to `session`, `chunk`, `write`, `verify` and `discard` of a
chunked upload. `try` counts the one repetition after a missing parent; `fell` is
the fall-back of a chunked upload to a single PUT. The server answers 423 when two
requests work on one collection at a time, which is what chains and cache prevent.
`Due` lets callbacks that are due run before the next answer arrives.

### DirSync

A path is a sequence of names, a folder holds at most one note. `plan` has the
six outcomes of `classifyDirectories`; `Refuse` is the breaker; the four passes
run shallow folders first for creation and deep ones first for deletion. The
history variables say what the listing left out (`omitted`), what was put on the
server since the last probe (`late`) or recheck (`back`) and which folders the user
removed (`dropped`). `listing` is what the folders are compared with: the answer of
`getDirectories`, or under a short circuit the rows as they were before the files of
the session (`cachedDirs`); `Reconcile` reads vault and rows later, and whatever came
between makes `listing` stale, a folder watch mode made or renamed included. `PutBack`
goes with every step and keeps `back`. Watch operations are in `ops` from their request to their row. With
`Overlap = FALSE` an operation ends before the next step of a session; see
Deviations for `TRUE`.

### Conflict

A note is its frontmatter and a body of regions that diff3 has aligned; a region
is a sequence of lines, three of which (`Open`, `Mid`, `Close`) are the markers.
`decide` follows `ConflictResolver` for the four kinds of file, the frontmatter
strategies, the body strategies and the conflict strategies; `WriteMerge` is
`resolveByWrite` with its row and its merge base. `live` and `tags` remember what
some user wrote and none removed. `Fresh` keeps a failed push, or a user, from
leaving a note at the very content its row records, unless `old` is in `Commands`.

### VaultSession

`list` and `stats` are the listing and the local scan a session works from, and go
stale while `todo` shrinks; `first` says which of `initialSync` and
`incrementalSync` it is; the phases of `pc` are their loops in order. `retry` is
`retryQueue`, `moves` the detected renames. `gone` and `orphan` remember which
unedited files others deleted, and which were in sync when the folder vanished. Another device may make a vanished folder
again, by a `PUT` (`ForeignEdit`) or by the `MKCOL` of its own re-seed (`ForeignRoot`);
`orphan` then leaves out what this device still tracks (`Lost`, see Deviations). A first
sync's listing may be partial, and a false 404 reads as an empty one (`FirstPlan`).

### Plugins

The bundle has three files, of which `main` stands for `main.js` and `styles.css`.
`dir`, `held`, `inc`, `on`, `wrote`, `waited` are the plugin session; `awaiting` is
`awaitingRestart`; `running` the code Obsidian has loaded. A session goes through
the listed files (`manifest` last), the local ones, the missing and the absent.

### Mirror

`plan` holds the listing, the local scan and the downloads from the moment they
were made; the user may answer much later. `failed` are the removals that did not
happen and become leftover rows. `touched` and `moved` remember what the user and
the others changed since the plan; `pulled` that the rows of a finished mirror
are in force. A session is one step here.

### Engine

`Engine` adds to the store who awaits each of its jobs. `phase` of a session goes
`run`, `save` (its `finally`: `running` is false, the save is awaited), `done`.
`Reset vault index` and `Mirror from remote` are `asker`, with the run they
await. A version that `RecordRow` makes has rows, the one of a reset has none.

## Runs

All passing runs explore their whole state space, and between them fire every
action and every disjunct of the next-state relations.

| Run | Question | Bounds | States |
|---|---|---|---|
| `FileSync_watch` | Are gate, uploads, deletions and signatures right with single-file operations beside and between sessions? | 2 bodies of one size, 2 user edits, 1 foreign version, 1 failure | 1,166,202 |
| `FileSync_faults` | What do crash, stop, exception, missing checksums and the size limit do to the local file? | 3 bodies of two sizes, limit 1, 2 edits, 1 foreign version, 1 fault | 633,472 |
| `FileSync_settles` | Do the two sides become equal, and stay so without further transfers? | 2 bodies, 1 edit, 1 foreign version, 1 failure or crash; conflicts decided | 68,273 |
| `VaultSession_sessions` | Does a session that judges by absence delete or revive the wrong file? | 2 files, 2 bodies, limit 1, 1 user step, 2 foreign ones, 1 fault | 1,161,205 |
| `DirSync_folders` | Are folders deleted only when meant, and do the three views agree in the end? | 3 folders, one in another; automatic limits scaled to 1; 2 user steps, 2 foreign, 1 fault | 1,151,412 |
| `TransferBatch_writes` | Do transfers deadlock, starve or fail one another? | 3 uploads (empty, chunked, larger than the budget), 1 rename, 2 slots, budget 3, 1 removal, 1 fault | 193,960 |
| `Conflict_merge` | Is writing lost by merging, and do two devices stop merging each other? | 2 devices, 7 settings, 3 edits, 1 failed push | 130,055 |
| `Plugins_bundle` | Does a bundle end as one version, with its settings? | 3 bodies (two of one version), 2 user steps, 1 foreign, 1 fault | 682,466 |
| `Mirror_pull` | Does anything of the old vault come back? | 2 files (one in the folder), 2 bodies, 2 steps of users, devices and failures, 1 mirror | 611,735 |
| `StateStore_crash` | Is the state file atomic, are callers told the truth, is a request served? | 3 versions, 3 queued jobs, 2 crashes | 67,687 |
| `Engine_failures` | Does a command wait for the session it stops, when any adapter call fails? | 3 versions, 2 jobs, 2 sessions, 2 failures or crashes | 621,389 |
| `Engine_gap` | The same, with a session started during the last one's save | 3 versions, 2 sessions, no failure | violated |

The properties, in words:

- `ArmedMeansConverged`, `ArmedHasNoGhost`: between sessions, a stored root ETag
  equal to the server's means that the row describes the server's file, or that
  no row is left of a deleted one. This is what the short circuit relies on.
- `UploadReplacesBaseline`: an ordinary upload replaces the version its edit was
  based on, or one that appeared after the listing when no ETag was known.
- `DeleteIsProven`: a DELETE destroys only the content this device last synced,
  or a version that appeared after the proof.
- `LocalWorkIsKept`: a download, a restore or an absence deletion destroys only
  a synced local body, or one saved after the engine last looked at the file.
- `SignatureIsTruthful`: whenever the fast path would skip reading the file, the
  row's hash is the file's.
- `Settles`: once edits, foreign versions and failures are used up, both sides
  become equal and stay equal, and no later session transfers the file again.
- `OnlyCopyIsSafe`, `MainIsWhole`, `AtomicSpec`, `SettledIsDurable`,
  `RequestIsServed`: no save writes over the only copy, the state file is never
  torn, the protocol implements `AtomicStore`, a caller that is told its save is
  done finds it on disk, a request is written in the end.
- `AbortWaits`, `CommandsReturn`, `EngineSafety`: a command that stops a session
  goes on only when no session runs and none is still being saved, and does go on;
  after a reset no session writes its rows back, and a tear-down loses no update.
- `Safety` of `TransferBatch`: memory stays within the byte budget unless one file
  alone exceeds it, transfers within the slots, and no upload session is left on
  the server. `DirectoryIsExclusive`, `QuietBatchSucceeds`: uploads of one
  directory never run together, and as long as nothing outside fails, none fails.
  `MissingParentIsRecreated`: a write is given up for a missing parent only after
  its folders were made again. `BatchEnds`: every upload ends.
- `Safety` of `DirSync`: an armed short circuit hides no folder of the server.
  `DeletionIsMeant`, `TrashIsProven`: only what the user removed is deleted there,
  with no note in it that the probe could have seen; only what is gone there is
  trashed here. `FoldersConverge`: the views agree again and again, or the
  breaker waits for the user.
- `Safety` of `Conflict`: a line, or a list item, that no one removed is somewhere.
  `MergesNeverStack`, `BaseIsShared`, `Agree`: no markers in markers, no base that
  the server has not, and the devices come to hold one note.
- `Safety` of `VaultSession`: what another device deleted is not sent back.
  `RootLossKeepsFiles`: a vanished vault folder deletes no file here, unless another device
  made it again first.
  `VaultConverges`: the files agree in the end, but for held conflicts and what
  the breaker refuses.
- `Safety` of `Plugins`: an armed short circuit hides nothing of the bundle.
  `SettingsWaitForRestart`, `DeleteIsUninstall`, `BundleConverges`: clauses CPS-13,
  CPS-12 and CPS-14 of `docs/spec.md`, section 7. `DeleteIsUninstall` excepts
  settings saved again after the session found them missing: they are on the list of
  the missing, the deletion is sent, and the next session uploads them.
- `Safety` of `Mirror`: untouched files are the server's and their rows say so.
  `NothingIsSentBack`, `MirrorConverges`: later sessions send nothing of the old
  vault, and the two sides agree in the end.

Why the bounds are enough to mean something. A wrong overwrite needs a listing,
a change behind it, a decision on the stale information and a later session that
trusts the row: two versions on each side. A stale short circuit needs one
session that arms wrongly and one that uses it (`SkipBudget = 1`, `ForceEvery = 1`
give both the short-circuited and the forced full scan). Two bodies of one size
exercise the body comparison, a third one of another size the size checks. A
deletion by absence needs one file that is absent and one that shows the session
is not empty, and one more than the limit: two files and a limit of 1. A folder
deletion needs a parent, a child and a bystander. Deadlock among slots, bytes and
chains needs two slots, a file that exceeds the budget and two files of one
directory. Two devices are the fewest that can merge each other's merges. The
number of sessions is not bounded except in `Engine`. Every property of a
passing run was also checked against a mutated definition that a plausible bug
would produce (`PROJECT.json`, `mutants`), and every one of them is then
violated. Symmetry (`SameSize`) exchanges two bodies that nothing distinguishes
and is used for safety only.

## Deviations

`Engine_gap` is a run: `running` is cleared before the session's save, so a second
session may start and replace `currentRun`; the first one's `finally` then clears
it, and a reset during the second session does not wait for it, although
`SyncEngine.ts:639` says it does.

The other disagreements found are not run with the rest. Each is reproduced by the
run named, with the constants and property given here; the configuration is
otherwise that of the run.

`FileSync` (specification `Spec`, from `FileSync_watch` or, where a crash, a stop
or the size limit is needed, from `FileSync_faults`):

- `Env = {}`, 3 bodies, `SizeLimit = 1`, `MaxEdits = 2`, `UploadReplacesBaseline`: a remote
  change over `maxFileSizeMB` is skipped without a counter
  (`TransferService.ts:134`), so the gate arms over the old row, and a later local
  edit is uploaded over a version this device never fetched. `docs/spec.md:556`
  allows arming only when the scan "fully converged".
- `Env = {"stop"}`, `UploadReplacesBaseline`: files skipped by `requestStop`
  (`SyncEngine.ts:946`) do not disarm the gate either.
- `MaxForeign = 3`, `ArmedMeansInSync`: `downloadFile` records the hash of the fetched
  body under the listing's remote id (`TransferService.ts:174`). If another
  device wrote in between and the listed content comes back later, the two sides
  differ and both read as unchanged.
- `Env = {"slowEdit"}`, `SignatureIsTruthful`: the recorded hash and the recorded
  signature are of two moments (`localSignature.ts:12`); a save in between is
  never uploaded.
- `Env = {}`, `EveryUpdateIsConditional`: resolutions (`ConflictApplier.ts:290`) and
  uploads decided on a rebuilt listing carry no `If-Match`, although
  `README.md:95` says "every update carries an always-on `If-Match` precondition".
- `Env = {"watch"}`, `LocalWorkIsKept`: a deletion waiting for its path lock does not
  look again whether the file came back (`WatchOperations.ts:199`), and its
  restore overwrites it.
- `noProof`, `DeleteIsProven`: a deletion that cannot be proved leaves an armed
  short circuit over a stale row, whose checksum then "proves" the deletion of a
  version this device never saw.
- `throw`, `ArmedMeansConverged`: an exception of the local scan passes over the
  gate, after the new root ETag was stored.
- `watch` with `crash`, `UploadReplacesBaseline`: the debounced save persists the
  root ETag in the middle of a session; a crash keeps it, with the old rows.
- `overlap` with `watch`, `SignatureIsTruthful`: nothing keeps a session from
  starting during a single-file operation.
- `noAnswer`, `ArmedHasNoGhost`: a failed existence probe counts as present and
  leaves the short circuit armed over a row whose file is gone.
- `Env = {}`, `MaxEdits = 2`, `ArmedHasNoGhost`: a file that is gone on the server and
  removed here just before its absence check makes the read throw, past the gate; put
  back unchanged it is a ghost until `FORCE_FULL_SCAN_EVERY` forces a real scan.

`StateStore`, `rename` in `Failures`, `OnlyCopyIsSafe`: after a failed rename the
temporary file is the only copy, and the next save truncates it.

`VaultSession`, `Env = {"midway"}`, `MaxForeign = 0`, `RootLossKeepsFiles`: when the
vault folder vanishes after the listing, the files absent from it are trashed
here; `docs/spec.md:488-490` and `SyncEngine.ts:750` say nothing is deleted.

`VaultSession`, a vanished folder that another device makes again before this one finds it
missing: its `PUT` with the folders above it, or its `createVaultRoot` and re-seed
(`SyncEngine.ts:752-767`), brings back some files only. The next listing here is real and
lacks the others, they are candidates (`SyncEngine.ts:1299-1309`), `remoteExists` answers
404 (`1325-1334`), and files that were in sync when the folder vanished are trashed, unless
they are more than the breaker's limit. `docs/spec.md:485-490` promises for a
missing vault folder that "Nothing is deleted locally"; that holds only for the device that
finds it missing. `RootLossKeepsFiles` leaves these files out (`Lost`): without that, one
foreign step after `VanishRoot` violates it in 10 states.

`DirSync`:

- `Dirs <- Nested`, `Faults = {}`, `MaxUser = 3`, `MaxForeign = 0`, `CreatedIsOnServer`: the
  client's cache still holds a folder for proven that this device's own collection
  DELETE removed, and creating it again sends nothing (`NextcloudClient.ts:327-337`).
- `Dirs <- Nested`, `Faults = {"list"}`, `ArmedMeansTracked`: a failed folder listing
  returns without an error (`DirectoryReconciler.ts:54`) and leaves the short
  circuit armed over folders nobody looked at, for `ForceEvery` sessions.
- `Faults = {}`: the snapshot of a short circuit (`RemoteListingSource.ts:44`) is from
  before the files of the session. A folder that watch mode records meanwhile is a
  candidate for the trash; its recheck finds it and it stays, unless another device
  removed it. A folder the user renames in that window is made again under its old name,
  here and, by watch mode, on the server.
- `Dirs` of two folders with a child of the same name each, `Faults = {"list"}`,
  `MaxUser = 4`, `MaxForeign = 2`, `DeletionIsMeant`: a rename moves the folder's own row
  only, so the rows of a later short circuit may have a child without its parent. After the
  folder is renamed back and another device removes it, the session trashes parent and
  child, and the last loop then records the child again (`ensureTracked`). Made anew by
  another device, it is deleted on the server although its user removed nothing, against
  the comment in `DirectoryReconciler.ts` that "leftover child rows would be read next sync
  as local deletions". The theorem leaves this out by `SnapshotWhole`; the run's folders
  have one child and do not reach it.

`Conflict`, with `Configs <- Default`:

- `Starts = {"synced"}`, `Commands = {"force"}`, `MaxEdits = 2`, `MaxFaults = 0`,
  `SnapshotOutlivesMarkers`: the clean sides are swept as soon as the row is no longer
  conflicted, while the note may still have its markers (`docs/spec.md:407`).
- `Devices = {"a", "d", "g"}`, `Starts = {"first"}`, `Commands = {"compare"}`, `MaxEdits = 7`,
  `MaxFaults = 0`, `WritingIsNeverLost`: a union without an ancestor leaves a line twice, in
  both regions, and it becomes g's ancestor; d's compare command pushes a version with the
  line in the first region only and g pulls it, then a's pushes one with the line in the
  second only; after an edit of g elsewhere, the merge takes each side's lack for a
  deletion and drops both, although both sides have the line. The commands leave the merge
  base alone (`pushLocalToRemote`, `pullRemoteToLocal`), so the ancestor is older than what
  the user chose. The behaviour has 13 steps, too deep for a search of all behaviours: TLC
  finds it when those steps are given.

`Plugins`:

- `relist` in `Env`, `MaxFaults = 1`, `DeleteIsUninstall`: a plugin unlisted and listed
  again before a session saw it unlisted keeps its rows, and a folder deleted in
  between is deleted on the server, against CPS-12.
- `crash` in `Env`, `MaxForeign = 2`, `DeleteIsUninstall`: a crash after a deletion by
  another device was applied here brings back a row whose file is gone. New settings of
  that device equal to the row's are then deleted on the server.
- `Env = {}`, `MaxUser = 3`, two bodies, `ArmedHidesNothing`: settings saved during the
  session that is to remove them here, after another device uninstalled the plugin, are
  kept with their old row and the short circuit is armed. Put back to that row's
  content they look unedited: nothing is sent or removed until the ETag changes.
- `transfer` in `Env`, `BundleConverges`: a transfer that fails can leave a bundle of
  two versions that no later session completes, against CPS-14.

`Mirror`, `overlap` in `Env` (with `crash` and `save`), `NothingIsSentBack`:
`MirrorService.ts:130-131` asks its caller to have stopped any session, and nothing
keeps a timer from starting one before the apply ends. A session then fetches what
appeared on the server since the plan, the apply drops its row as unlisted, and the
next session takes the untouched copy for the user's, over another device's edit.

`Mirror`, `partial` in `Env`: `docs/spec.md:753` says the mirror "aborts with zero
deletions when the fetch fails or is partial". Only a failed fetch aborts it
(`MirrorService.ts:60-87`): a listing that is read but lacks a file cannot be told from a
whole one, and the file is removed here. The properties excuse it (`moved`).

Beside the models: `main.ts:420-425` does not await the flush of the engine it tears
down before the next one loads the same file, although `docs/spec.md:953` says
double reads and writes were removed; a watch operation in flight during a reset
writes its row afterwards; the comment `SyncEngine.ts:945` is about every await of
a batch, but `requestStop` is looked at only when a task starts; `acquire` lets a small request
pass those that wait, against `ConcurrencyLimiter.ts:63` ("FIFO").

## Fairness

Fairness is asked of the plugin only, never of users, other devices, crashes or
failures, and a failure is never forced.

- `FileSync`: weak fairness of each actor's steps: the interval timer starts
  sessions (`StartSession` belongs to the session's steps), and the event loop
  resumes an operation whose await is over. `Settles` fixes conflicts to be
  decided, because a held conflict, a tie and a marker file differ on purpose
  until the user acts.
- `StateStore`, `Engine`: the timer, the running job, the recovery, the end of a
  session and the callbacks of a promise.
- `TransferBatch`: the steps of the tasks, since a request is answered or times
  out (`requestUrlWithTimeout`).
- `DirSync`, `VaultSession`, `Plugins`, `Mirror`: the session's steps as one action, since a
  session runs to its end and the timer starts the next; in `DirSync` also watch
  operations, in `Mirror` the steps of a confirmed mirror (a plan may wait for its
  answer for ever).
- `Conflict`: each device's syncs, and the user settling what has markers.

## Proofs

Proved with TLAPS, for every value of the constants that satisfies the named
assumptions (`BodyAssumption` and the others in each module, which TLC evaluates
on every run):

- `FileSync_proofs!TypeCorrect`: `Spec => []TypeOK`. `TypeOK` is more than types:
  it relates each label to what its actor must hold there (a listing entry, a
  body, a hash, a row), and is inductive as it stands. One lemma per action
  group; the lemmas on `Goto`, `End` and `Done` say what a change of label has
  to provide.
- `FileSync_proofs!SignatureTruthful`: `Spec => []SignatureIsTruthful`, under
  `Orderly`: `Env` has neither `overlap` nor `slowEdit`, the two behaviours under
  which the code does break it (see Deviations). Everything else is
  allowed: crashes, lost answers, stops, exceptions, any number of edits and
  bodies. The property is not inductive, because a row is recorded from what its
  actor read several awaits earlier. The strengthening `Truthful` says that at
  most one actor is in the middle of an operation, that the row of the state file
  is as truthful as the one in memory, and, label by label, that the hash, the
  body or the row an actor is carrying to `setFile` is still that of the file.
  A save in between would break the last part; `BeforeRestat` is exactly the set
  of labels at which it must be excluded.
- `FileSync_proofs!LocalWorkKept`: `Spec => LocalWorkIsKept` under `SessionsOnly`:
  `Orderly`, and no watch operations, since with those a waiting deletion does break
  it (see Deviations); these are the environments of `FileSync_faults`. A write or a
  removal happens many awaits after the session looked at the file, so `Careful`
  follows what it saw there: from a verdict "fetch", or from the check that makes a
  file an absence candidate, what is on disk is the row's content or was saved since;
  on the way to prove a deletion nothing was on disk. `Truthful` is needed with it, for
  a scan that trusts the signature instead of reading the file.
- `FileSync_proofs!DeletionsProven` and `UploadsReplaceBaseline`:
  `Spec /\ []ArmedMeansConverged => DeleteIsProven`, and the same for
  `UploadReplacesBaseline`, under `Orderly`. They reduce two properties of requests to
  one of the convergence gate: the four violations of the two under Deviations are
  each a gate that armed over a stale row, and the theorems say that, in these
  environments, there can be no other kind. The argument has two invariants. `Remembered`:
  every row, root ETag, listing entry and saved copy is of a
  version the server has been at, so a change by another device can never make a stored
  root ETag current. `Informed`: at the start of a session with a current root ETag the
  row is the listing's; until the server moves on, what an actor on its way to a PUT
  or a proof was told is the listing's, the row its edit was based on is that
  entry's, and a proven deletion is of the server's body. A precondition with an ETag
  then fails on any later version, and without one the property excuses only a version
  newer than the listing.
- `FileSync_proofs!GateConverges`: `Spec => []ArmedMeansConverged` under `Convergent`: `Env`
  has none of `overlap`, `stop`, `throw` and `noProof`, not both `watch` and `crash`, and
  no content is over the size limit. Each of these breaks the gate on its own (see
  Deviations; `overlap` together with `watch`, without which it means nothing), so the
  assumption leaves out only what has a counterexample. Any number of edits, slow ones
  included, versions of other devices, failures, lost answers and conflict decisions is
  allowed, with crashes or with watch operations. Between sessions the property says
  nothing of how a session gets there; the invariant `Gated` does: while the stored root
  ETag is the server's, an actor was told the truth of it, and by the end of a file it
  has left a row that names the server's version, an error, or an entry of the retry
  queue, one of which the gate sees (`Knows`). A watch operation has no gate, so it must
  leave such a row always. `Restartable` says the same of the state file, which holds
  the end of a session and never the middle of one, since only a watch operation starts
  the debounced save. `Remembered` is needed twice: no root ETag becomes current by the
  server moving on (`CalmLasts`), and what is listed or rebuilt has the size of some
  content, so that no size limit makes a session skip it.
- `FileSync_proofs!ConvergentDeletions` and `ConvergentUploads`: `DeleteIsProven` and
  `UploadReplacesBaseline` under `Orderly` and `Convergent`, without a condition on the
  gate, as the two theorems above and this one give. `FileSync_watch` is an instance.
- `FileSync_proofs!NoGhostUnlessPutBack`: `Spec /\ [][~HidesDeletion]_vars =>
  []ArmedHasNoGhost` under `Heeding`: `Env` has none of `overlap`, `slowEdit`, `stop`,
  `throw` and `noAnswer`, not both `watch` and `crash`, and no content is over the size
  limit. `HidesDeletion` is one step: while the stored root ETag (or, with crashes, the
  saved one) is the server's and the server has no such file, the vault's file gets the
  content its row names. Without that condition the property is false within two edits
  (Deviations), so the theorem says that there is no other way to a ghost. The row names
  its content twice, as `hash` and as `rid`, and both count: after the failed push
  of a merge they differ, and a short circuit then records a vault file equal to `rid` as identical.
  The invariant `Ghostless` is about a server without the file and a current root
  ETag (`Vacant`): at every label of a session the file is gone, changed from its row
  (`Departed`), or the gate has an error or a retry to see (`Heeds`); a session that took
  the short circuit still carries the row it rebuilt from (`Recalls`); nothing it holds
  was fetched (`Unfetched`); and the same of a watch operation (`Attends`) and of the
  state a crash brings back (`Recoverable`). TLC searched it with two bodies, three edits,
  two versions of others and one fault, with crashes and `noProof` and with watch
  operations, and found counterexamples with `stop`, `slowEdit`, `noAnswer` and `throw`. It found none
  with a size limit: that condition (`NoneTooLarge`) is one of the proof.
- `Engine_proofs!TypeCorrect`: types, and that a running job is at the head
  of the mutex's queue.
- `Engine_proofs!StateFileWhole`: the state file is never torn, whatever
  fails. The strengthening says that the temporary file is whole and holds the
  serialised version from `remove` on.
- `Engine_proofs!OnlyCopySafe` and `Refinement`: when no remove, rename or
  read fails, no save writes over the only copy, and `StateStore` implements
  `AtomicStore`. The inductive invariant adds that the serialised version is not
  newer than memory, that what is recoverable is not newer than what is being
  written, and that the state file is missing only between remove and rename,
  during the recovery, or before the first save. Each step is shown to be a step
  or a stutter of the abstract store under the mapping
  `durable <- Recoverable`, `mem <- Recoverable` while a restart is loading.
- `Engine_proofs!SettledDurable`: `Spec => SettledIsDurable` when no write, remove or
  rename fails; a failing read or adoption is allowed. A caller that only waits is served
  without a write of its own, so `ServedOK` says what it may rely on: for each barrier,
  and for what was asked for while no debounce is pending, either what a restart would
  load once the running save is done (`Held`) covers the version, or a save ahead in the
  mutex will. A rejected write does break it: the job ends, nothing asks again, and a
  later `flush` returns with the version still in memory only. TLC finds that with
  `Failures = {"write"}`.
- `Engine_proofs!AbortWaitsForSave`: `EngineSpec => AbortWaits` if `~Gap`. The
  invariant `Waits` says that `currentRun` is exactly the session that runs or is
  being saved and that nothing of it is left when a command is due. `Engine_gap`
  shows that the condition is needed: the code has no such guard.
- `Engine_proofs!EngineFileWhole`, `ResetIsKept`, `TeardownLosesNothing`, `EngineSafe`:
  `MainIsWhole`, the two parts of `EngineSafety`, and the whole of it. The engine's
  steps leave the files alone or are steps of the store, so the store's invariants
  carry over. After a reset, every version in memory, serialised or to be written is
  the empty one until a session records a row (needs `~Gap`: an overlooked session
  would write its rows back). A tear-down has left everything it knew in the state
  file, or in a job still queued, unless a call of the store failed.
- `Engine_proofs!EngineOnlyCopySafe`, `EngineImplementsStore`: under the condition of
  `OnlyCopySafe`, the whole engine implements `AtomicStore`, by the same mapping: each step
  of the engine is one of `StateStore`, or the load a new engine begins with (`Reloads`),
  which is a restart of the abstract store. The engine that is torn down is idle when the
  next one loads, as everywhere in `Engine` (see Limits).
- `TransferBatch_proofs!OneUploadPerDirectory`: `Spec => []DirectoryIsExclusive`, for
  any uploads, sizes, slots and budget. The invariant `IInv` is about the chains: a
  chain's members belong to its directory, each is behind tasks that are done if
  it is past its turn (`InOrder`), every task between its start and its end is in
  one (`Covered`), and the queues hold each task once and at the label of that
  queue. Two tasks of one directory in transfer would be in one chain, one behind
  the other, and the first of them done.
- `TransferBatch_proofs!MissingParentRestored`, `SessionsDiscarded`, `SlotsBounded`:
  a write given up for a missing parent, the chunk sessions left on the server, and
  the number of transfers, in every environment. `QuietBatch`:
  `Spec => []QuietBatchSucceeds` where uploads of one directory are serialised
  (`SerializeByDir`, the default of the code): what is proven in the folder cache is
  on the server, and a task at its write has all its folders, as long as the batch is
  quiet.
- `TransferBatch_proofs!BytesBounded`, `BatchSafe`: the byte budget and, with it, the
  whole of `Safety`. `Balance` is the invariant: what is free and what the running
  transfers need add up to the budget, the head of the queue always lacks slot or bytes,
  and a release lets in exactly the longest prefix that fits. A sum over a set
  (`MapThenSumSet`) is a recursive function on subsets; that it exists and does not
  depend on the order is shown on a smallest subset for which it would not
  (`MinimalSet`), since the induction theorems of the library, which take an operator,
  cannot be cited.
- `DirSync_proofs!FoldersTyped`: types, and that the folders of each side are closed
  under parents. `TrashedIsGone`: `Spec => TrashIsProven` in every environment, with watch
  operations at any step, a listing or snapshot of any age and other devices at any time:
  a folder a pass is about to trash is not on the server, but for what came there since it
  was asked for (`back`). `DeletedIsMeant`, `FoldersSafe`:
  `DeletionIsMeant` and `Safety` where no watch operation overlaps a session's step
  (`~Overlap`; see Deviations for the other case), the first of them on behaviours in which
  a listing has the parents of its folders (`[]SnapshotWhole`, without which it is false,
  see Deviations). The invariant says, pass by pass,
  that a folder planned for deletion is one the user dropped, and that what the server
  has is tracked, planned, left out by the listing or newer than the root ETag.
- `Mirror_proofs!PulledInSync`, `MirrorSafe`: that an untouched file is the server's
  after a mirror, and `Safety`, in every environment: the plan's entry, the row and the
  file are followed from the plan through each step of the apply. `NothingSentBack`:
  `Spec => NothingIsSentBack` where no session overlaps the apply (`NoOverlap`); with
  one it is false (Deviations). Its invariant (`AllStaged`) asks less of a file than the
  first one, that the row says what the vault has, wherever the server moved to, and so
  covers what the mirror failed to do.
- `VaultSession_proofs!SessionsSafe`: `Spec => []Safety`, for any number of files, any
  decisions and any environment. The invariant `IInv` says what a session in each of
  its phases has yet to do (`Phases`), that the rows of a first sync are its own
  (`FirstRows`), that what it read was so when it read it (`Seen`), and that a file
  others deleted stays gone, has its old row and its old body here, and is in no list of
  uploads or rename targets (`AllGone`). `RootLossHarmless`: `RootLossKeepsFiles`,
  for folders that vanish between sessions (`midway` is left out) and that no other
  device makes again while this one still tracks the file (`Lost`): in both cases it is
  false (Deviations). By the time the folder is there again a file that went with it has
  no row left, so that its absence is an upload and not a deletion (`AllOrphans`), and
  the listing of an absent folder is never taken for an empty one.

- `Plugins_proofs!PluginsTyped`: `Spec => []TypeOK`. One lemma (`FileStepTurns`) says
  what any turn of a session may do to its file (`Turned`: leave it, note it, send,
  fetch, delete, forget), so that the other invariants are proved once for all turns.
  `SettingsWait`: `Spec => SettingsWaitForRestart` in every environment. `Looked` says
  what a phase knows of the files it has left, `Loaded` that old code runs only until a
  restart that was asked for, or in the session that fetched the new.
  `DeletedIsUninstalled`: `Spec => DeleteIsUninstall` with neither `crash` nor `relist`
  (`Remembers`; both break it, see Deviations): a tracked file of a listed plugin that
  is missing is one the user removed (`Meant`).
  `ServedIsKnown`: `Spec => []NothingServedIsHidden` in every environment: between
  sessions with a current root ETag, the row of every file the server has names the
  server's content, so the short circuit hides no version of another device.
  `HiddenOnlyWhenPutBack`: `Spec /\ [][~PutsBack]_vars => []Safety`, the other half of
  `ArmedHidesNothing`: a file that is gone from the server is hidden only when its row's
  content is put back (`PutsBack`) while the short circuit is armed, in memory or in the
  saved state, which Deviations shows to happen. The invariant `Honest` says what the rows
  are worth in each phase and in the saved state, `Clear` that what is gone there is
  gone or changed here; TLC showed that it is not enough to leave out the row's `hash`,
  its remote id counts as well.

- `Conflict_proofs!ConflictTyped`, `AncestorShared`, `NothingStacks`: `Spec => []TypeOK`,
  `BaseIsShared` and `MergesNeverStack`. Contents are typed by how many edits there were
  (`Content(n)`, lines and items below `n`), so that the next line or item is one nothing
  has (`Limit`), and `Left` says what any step of a device may leave.
- `Conflict_proofs!TagsKept`: `Spec => []TagsAreNeverLost`. `WritingKept`, `ConflictSafe`:
  `Spec /\ []NothingTorn => []WritingIsNeverLost`, and the same for `Safety`. Neither
  property is inductive: a merge drops what one side has and the ancestor had. The
  invariant `Kept(x, of)` says why this is right, in the same words for lines and for
  items: if the ancestor of a device has x, its note and the server have it; if the row's
  `hash` has x, the server has it (a download overwrites a note that is its row's), and if
  the row's `id` has x, the note has it (an upload overwrites the server). `KeptStep`
  shows once that a step which loses x on neither side keeps all of this; each sync,
  failed push, edit and command is an instance. A list is a set, so a merge of lists keeps
  x outright. A body is two regions, and each is merged alone: with x in both regions of the
  ancestor, one side may lack it in one and the other in the other (`Torn`). The condition
  is needed: without it the property is false (the last deviation of `Conflict`). It holds in
  every state of `Conflict_merge`, where TLC found the parts of `Kept` true as well.
- `Conflict_proofs!TornByCommands`, `SafeUnlessUprooted`, `SafeWithoutCommands`: when that
  condition holds. `Spec /\ [][~Uproots]_vars => []NothingTorn`, and so `[]Safety`: a line is
  torn only after a command took a side (`force`, `compare`) in which a line that stays
  wanted stands only lower down than in the side given up. With neither command (`Untaken`),
  `Spec => []Safety` without any condition on the behaviour. The invariant `FirstInv` is the
  argument of `Kept` for the first region alone: a merge with an ancestor treats each region by itself, a union
  joins them one by one, and a body marked as a whole has everything in the first, so a
  line that stands there moves nowhere; of two standings in an ancestor one is the first, and
  both sides still have it. TLC checked `FirstInv` and `NothingTorn` on two devices
  with four edits, found that no other step is `Uproots`, and that each command can be one.

The attempts changed five things in the models. The third file of `VaultSession`
showed that two missing files of one content are renamed to the same target
(`RenameTracker.ts:24-40` does not take a target off its list): the second `MOVE`
brings a file back that another device deleted between the two, so `gone` excepts the
targets of renames under way. The history variable `late` of `DirSync` follows
a rename of this device. `DeleteIsUninstall` had no exception for settings saved
between the probe of the missing and the deletion (`Env = {}`, `MaxUser = 4`,
`MaxForeign = 2` shows them), which the smaller bounds of its run never reached.
Two definitions whose `CASE` arms could overlap
are now `IF`s in the order of the code. And `Conflict` sorts the settled lines by a
definition of its own (`InOrder`), since the sorting of the `TLC` module has none that a
prover could use.

## Limits

Only model-checked: liveness everywhere, since fairness and ENABLED are out of the
prover's reach. So are the induction theorems of the library, which take an operator:
where a proof needs induction (the sums of `BytesAreBounded`) it takes a smallest
counterexample instead. Every safety invariant of the runs is stated by a theorem, three
of them under a condition on the behaviour, without which they are false (Deviations):
`WritingIsNeverLost` where no command uproots a line, `ArmedHasNoGhost` of `FileSync` and
`Safety` of `Plugins` where nothing puts a row's content back while the short circuit is
armed. So is the action property `DeletionIsMeant` of `DirSync`, where a listing has the
parents of its folders. The conditions are stated in the modules of the proofs, and the runs check the
properties without them, in bounds that do not reach the counterexamples. The theorems
about `FileSync` leave out, each by name, the environments that break their property;
only the size limit in `NoGhostUnlessPutBack` is left out for the sake of its proof.

Not modelled, or abstracted, in the modules:

- Time. A debounce is over at any moment, and the 5 s ignore list is a choice
  whether an event is filtered. File locking (`LOCK`) is switched off in the code.
- `FileSync`: the temporary file of a vault write (`LocalAdapter.ts:247`), the two-path
  locks of renames (`WatchOperations.ts:119`).
- `VaultSession`: the path with a sync token, which no client obtains
  (`NextcloudClient.ts:502-507`). The breaker counts files the session has just uploaded
  among its candidates (`SyncEngine.ts:1303-1311`), as the code does, and may trip for
  them; the next session heals it.
- `DirSync`: one note per folder; files of a session in one step; locks.
- `TransferBatch`: a request that timed out may go on at the server; the body of a
  failed verification; retries of the generic `withRetry`.
- `Conflict`: the alignment of lines (diff3), YAML, the wording of markers. A push or
  pull by the user records no merge base, as in the code; finding both sides identical
  records one or not, which depends on whether the server gave a checksum
  (`SyncEngine.ts:1005-1012`, `ConflictApplier.ts:183-206`).
- `Plugins`: files of a bundle are taken to change together and only between sessions,
  and not while a crash left it half-written (`Settled`, unless `behind`); a session
  that brings code by the ordinary path (no direction) is exempt from
  `SettingsWaitForRestart` (`CodeCameOrdinarily`); manual resolution, the first sync
  and the mirror of a bundle.
- `Mirror`: excluded paths, plugin bundles, the breaker; a save between the last stat
  and the row; anomalous bodies. `Fresh` keeps other devices from going back to the
  content of the plan or of the row. A mirror that would only make folders or rows
  says "already matches" (`MirrorFromRemoteModal.ts:93-98`), as the model does.
- `Engine`: one engine at a time; `Gap = FALSE` in the passing run.
- HTTP, XML, the user interface, settings, login, versions, creation times, history.

## Plan

What is left, each with its own run, mutants and, where named, proofs:

1. `LocalWrite` (`atomicWriteBinary`, ignore list): a crash between removal and
   rename against the next scan's local deletion.
2. `WatchLocks` (`withPathLock`, two-path locks, the rows of a rename): no deadlock
   of crossing renames, first come first served. Proof of the order argument.
3. Deviations as runs of their own, in smaller instances.
