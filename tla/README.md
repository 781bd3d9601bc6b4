# Verification of jira_workload

The program backs up Jira Cloud sites and restores from the backups. It is one
Node process with an Express API, an in-memory store of Maps that is written as
a whole to `db.json`, and outgoing HTTP calls to Atlassian. This directory
holds TLA+ models of the parts whose correctness depends on the order of
events, TLC runs that check them on small instances, and TLAPS proofs for every
instance.

Contents: [Inventory](#inventory), [Modules](#modules), [Runs](#runs),
[Fairness](#fairness), [Proofs](#proofs), [What the code does that its documents
do not say](#divergences), [Not modelled](#not-modelled), [Plan](#plan).

File names below are those of the repository's `src/services`, `src/routes` and
`docs`.

## Inventory

### What makes this program hard

* **One thread, many tasks.** A route handler, a timer callback and the code
  between two `await`s each run to completion. Pipelines `await` an HTTP call
  every few lines, and everything else may happen there: another run of the same
  connection, a deletion, a reauthentication, a save, a decision of the user.
  Nothing serialises runs of one connection.
* **Snapshots.** `saveDb` writes all Maps in one file (temporary file and
  rename), every 30 seconds, on SIGTERM and SIGINT, when a backup point is
  written and when a token or a cloud id changes. What a crash loses is
  everything after the last of these; what it keeps is consistent. A write error
  is logged and swallowed.
* **State elsewhere.** Jira changes while it is read page by page; Atlassian
  rotates refresh tokens, so a lost answer is a lost grant; files of attachments
  are written at once, the records about them with the next snapshot.
* **Nobody resumes.** After a restart no pipeline goes on. Records that say
  "running" or "pending" are settled by the timeout guard (backup jobs) or by
  nobody (restore jobs, SDI scans).

### Components

| Component | Source | State | Operations | What makes it correct |
|---|---|---|---|---|
| Jobs | `routes/backup.js`, `routes/restore.js`, `services/jobTimeoutGuard.js`, `app.js` | `db.backupJobs`, a heartbeat timer per job, the guard's timer | trigger a backup or restore, settle, beat, guard, start, stop | a completed job has its backup point; the guard spares jobs that beat; outcomes are final; no job is recorded as running for ever |
| Backup pipeline | `services/backupEngine.js`, `services/jqlEnumeration.js`, `services/apiConstraintHandlers.js` | `db.backupRunStates` (the cursor of a project), `db.backupPoints`, manifests | a run: per project enumerate with the cursor and commit it, attachments; then site objects, point, save | no edit in Jira falls between two runs |
| What a run covers | `services/backupEngine.js`, `services/siteObjectEnumeration.js`, `services/webhookRegistration.js` | `db.projectNodes`, `db.webhookRegistrations`, `selectedProjectIds` | register a webhook, list projects or fall back, workflows, fields, contexts, boards | a point covers the projects there were; it waits for every call; one webhook |
| Attachment store | `services/attachmentMaterialisation.js` | `db.attachmentManifestEntries`, files | carry forward, download, write, create entry | every entry leads to whole bytes; a point has all its entries |
| OAuth connections and tokens | `routes/oauth.js`, `routes/integrations.js`, `services/tokenService.js` | `db.connections`, `db.pendingStates`, `_pendingRefreshes` | consent, site selection, reauthentication, refresh, refusal, cloud-id check, delete, restore | a token is in one exchange; connections share none; the server loses none; needs_reauth is real; a deletion is overwritten only by the answers a job got |
| Restore engine | `services/restoreOrchestrator.js`, `routes/restore.js` | `db.restoreJobs`, `db.restoredObjects` | initiate, five stages, conflicts, writes and retries, rate limit, decide, finish | counters, results, pending conflicts and stored objects agree whenever decisions come; a restore ends |
| Restore validation, field mapping, scope check | `services/validationService.js`, `services/customFieldMappingService.js`, `services/scopeValidation.js`, `config/scopes.js` | none of their own; they read connections, `db.projectNodes`, `db.customFieldDefinitions` | the basket, seven checks in order, a map of field ids, the scopes of a consent | who writes holds the scopes; the target project is there as far as the last listing knows; a field goes to its namesake |
| SDI scans | `services/sdiScanOrchestrator.js`, `routes/sdi.js` | `db.sdiScanResults`, immediates | trigger, supersede, run, surface | the newest scan is surfaced; a replaced result stays replaced; scans end |
| SDI extraction and patterns | `services/sdiExtractors.js`, `services/sdiPatternScanner.js` | none | text and pattern processing | out of reach: characters |
| Object Explorer | `services/objectExplorerService.js`, `routes/backupPoints.js` | reads manifests | change map, filters, pages | "Deleted" means removed; pages as below |
| Lists and search | `routes/backupPoints.js`, `services/searchService.js`, `routes/search.js`, `public/all-backups.html` | none; the page holds rows, cursor and filter | filter, sort, page; open, select a filter, load more | who follows the cursors sees everything, nothing foreign, nothing twice; a point is linked to the newest before it |
| Persistence | `db/index.js`, `db/persist.js` | all Maps, `db.json`, `db.json.tmp` | load, save, autosave, shutdown save | `db.json` is a whole snapshot at every moment; what changes is saved in the end |
| Data-scope refresh | `services/dataScopeRefresh.js` | `db.syncJobs` | queue a sync | nothing reads the queue |
| Purge cascade | `services/purgeCascade.js` | deletes records of a connection | purge | no reachable caller |
| Preferences, resilience inventory, API limits, job progress | `routes/preferences.js`, `services/resilienceInventoryService.js`, `services/apiConstraintHandlers.js`, `services/jobProgress.js` | key-value records, counters for display | read and write | no property beyond their assignments |
| Crypto, PKCE, configuration, browser pages, shared types | `services/crypto.js`, `services/pkce.js`, `config/`, `public/`, `packages/shared-types` | none | library calls, constants, presentation | not modelled |

How they interact: the routes of *Jobs* start the *backup pipeline* and the
*restore engine* and await them; both ask *tokens* for an access token before
every stretch of calls; the pipeline calls *what a run covers*, then its own
enumeration, then the *attachment store*, per project; a backup point triggers
nothing, *SDI*, *Object Explorer* and *search* read what it left; *restore
validation* reads what consents and backup runs left about connections, projects
and fields; *persistence* is called by all of them and captures all of them at
once.

`PROJECT.json` lists the same components with the modules that model them, the
map from definitions to source lines, and the hazards, each at its line.

## Modules

Each module is one component with its environment. Common conventions: an action
is one handler, one timer callback or the code between two `await`s; the answer
of a remote service is an action of its own; `disk` is the part of `db.json` the
module needs; `CrashAndRestart` loads it; a record of the code that only the
properties need is marked as history. Definitions marked *Mutant* are plausible
wrong versions of the definition that follows: replacing the one by the other
must break a property, which shows that the property says something.

| Module | Models | Variables and where they live in the code |
|---|---|---|
| `BackupJobs` | the life of a job record | `jobs` = `db.backupJobs`; `pipeline` = the promise of the route; `beatIn` = `setInterval` of `startHeartbeat`; `guardIn` = that of `startGuard`; `points`; `disk` |
| `IncrementalBackup` (with `ChangeMap`) | the cursor, pages and points of runs of one integration | `jira`, `now` = Jira and its clock; `cursor` = `lastBackupTimestamp`; `runs` = the async frames; `points`, `disk` |
| `BackupScope` | what a run covers, around `IncrementalBackup` | `projects`, `hooks` = Jira; `store` = registrations, project nodes, selection; `runs`, `disk` |
| `AttachmentStore` | attachments of one integration | `entries` = `db.attachmentManifestEntries`; `files`; `runs`, `points`, `disk`; `spoiled` = history |
| `ConnectionTokens` | connections, consents, exchanges | `conns`, `consents` = `db.pendingStates` and pending selections; `callers` = jobs at work; `issued`, `valid`, `gone` = Atlassian; `disk`; `overtaken` = history |
| `RestorePipeline` | a restore job and its decisions | `pipeline`, `stage`, `at` = where `initiateRestore` is; `job`, `result`, `tally`, `pending` = the job record; `stored` = `db.restoredObjects`; `inJira`; `disk` |
| `RestoreAdmission` | what precedes a restore's first write, and who changes what it reads | `conns` = `db.connections` with scopes, token life and `boardScopeDegraded`; `nodes` = `db.projectNodes`; `defs` = `db.customFieldDefinitions`, both in the order of their Maps; `jira` = what is really there; `runs` = backups under way; `attempts` = calls of `initiateRestore`; `unseen`, `doubts` = history |
| `Paging` (with `ChangeMap`) | lists and who pages through them | `points`, `now`, `saved` = `db.backupPoints` with manifests and what is in `db.json`; `reader` = `_allRows`, `_nextCursor`, `_filterConnectionId` of `all-backups.html`, or a client; `open` = its requests; `budget` = what is left of the bounds |
| `Persistence` | a save step by step | `mem` = the Maps; `file`, `tmp` = `db.json`, `db.json.tmp`; `process`, `step` = where it is |
| `SnapshotStore` | what persistence promises: the abstract specification that `Persistence` implements | `store`, `saved` |
| `SdiScans` | scans of backup points | `scans` = `db.sdiScanResults`; `immediates` = the check queue; `now`; `disk` |
| `MC...` | instances for TLC | symmetry sets and baskets |
| `...Proofs` | theorems, of the module they are named after; `StoreProofs` is of `Persistence` and `SdiScans`, `RestoreProofs` of `RestorePipeline` and `RestoreAdmission` | |

Decisions worth knowing:

* *BackupJobs* keeps ages, not timestamps. An age stops one above the timeout,
  so time is unbounded and the state space finite. `WriteBackupPoint` and
  `CompleteBackup` are two actions because a crash can fall inside the
  stretch (the save is in its middle); no other callback can, which is `Ready`.
* *IncrementalBackup* has two clocks, Jira's and the server's. Whenever the server
  reads its own (`ServerClock`), it is ahead by one of `Skews`: it drifts and is
  set. The JQL date is cut to the minute as `formatJqlTimestamp` does. The point a
  new one is diffed with is any that exists (`Newest`): which one the code takes is
  decided by `createdAt`, whose order, ties and steps back are in *Paging*, and
  nothing here depends on it. Its phases name where a run may throw
  (`FaultPhases`): the runs differ in them.
* *AttachmentStore* has overlapping runs, torn writes, failed saves and crashes all
  at once. What a run does not know, that another has stored the attachment since it
  began to download it, is history (`beaten`, `spoiled`).
* *ConnectionTokens* has jobs of two kinds, as only `POST /:id/backup` looks at the
  status: a restore starts on a deleted connection too. A connection remembers, as
  history, that a refusal of a token it no longer had marked it (`misjudged`).
  *ConnectionTokens* leaves access tokens out: they come with the refresh token
  and only decide when a refresh is asked for, which here is at any time.
  Callers that join a pending exchange change nothing and are not modelled;
  that one who does not join is caught is the mutant `SendRefreshEach`.
* *RestorePipeline* publishes the results of a stage when it ends, as the code
  assigns `stageResults`; restore snapshots exist for projects, issues,
  workflows, fields, boards and sprints only, so these are the kinds of items.
* *SdiScans* makes a run of a scan one step: the files of a backup point are JSON
  snapshots (`_testContent` is set by tests only), whose extraction awaits
  nothing but settled promises.
* *IncrementalBackup* marks, as history, which version of which issue slid under
  the offset of a query (`slid`) and which was beyond the hard cap (`cut`), so
  that `GapsExplained` can name the causes of a gap.
* *RestoreAdmission* keeps the tables as sequences because several checks stop at
  the first entry that fits. Checks 5 and 6 of the pipeline only warn (no item
  ever has `requiredFields`, no caller passes `requiredFieldIds`) and check 7
  never fails (no snapshot is of an attachment); all three are translated as what
  they do. `conn.deletedAt`, which the checks look at, is set nowhere, so a
  deleted connection passes them; deletion itself is in *ConnectionTokens*. Time
  of an access token is three values: over, short (a refresh is due), fine. Field
  names are compared in lower case (`LowerCase`). Check 2 also looks for a node
  whose key contains the id of the site; keys of nodes are the id of a connection,
  a uuid of this server, and the key of a project, so none does.
* *Paging* takes the entries of every list from the same points, so one action
  that writes a point changes all of them. A page is a function of the list at the
  time of the request; requests are served and delivered in separate steps, and
  for the page in the browser, the only client that does not wait, in any order. A
  run links its point to the newest of its integration by `createdAt`, which is
  the clock's reading before its last calls (`ReadClock`): two may be equal, and
  the clock may be set back. Texts are sets of words; one keyword filter stands
  for the six of one shape and one range for the three. A cursor is the id of an
  entry, and as history the key of that entry: the reader remembers whether the
  entry was gone when the cursor was used (`lost`), whether others had its id
  (`ambiguous`) and whether both were so of one cursor (`astray`).
* *Persistence* has the whole store as a set of records: which Map one is in does
  not matter to a save. The other modules use what it promises: a save is one
  step that happens or does not.
* *BackupScope*: a failed save is modelled in *BackupJobs* and
  *AttachmentStore* and taken not to happen in the others when their properties
  depend on it (the save of a point, of a token, of a cursor).

## Runs

All runs but the two of `RestoreAdmission`, whose restores are over when they are
refused or write, check for deadlock.

| Run | Instance | Shows |
|---|---|---|
| `jobs` | two jobs of all three kinds, timeout 2, heartbeat 1, guard every 2, unbounded time | a completed job has its point in memory and on disk; the guard spares jobs that can beat; outcomes and saved history are final, but for its verdict on a job of the alias that cannot; no job is recorded as running for ever |
| `cursor` | two overlapping runs, three issues, three edits, pages of one, a hard cap of one page more, overlap 1, minute 2, the server's clock 1 ahead, faults in the enumeration and between projects | an edit is in no point and never asked for again only if a run failed after it had moved the cursor, the issue slid under an offset, or it was beyond the cap |
| `tokens` | two connections to one site, two callers, two consents, three tokens, all events | one exchange per token; no shared token; the server loses no token; needs_reauth is real unless the refused token had been replaced meanwhile; a deletion is overwritten only by the refusal of a job's token, by a backup begun before it, a reauthentication or a restart |
| `attachments` | three runs that overlap, two attachments, torn writes, failed saves, crashes | entries lead to whole bytes, unless a run tore what another stored while it downloaded the same; points have all their entries |
| `sdi` | two points, three scans, three milliseconds | the newest scan is surfaced; replaced results stay replaced; scans end unless a restart orphaned them |
| `scope` | two runs, two projects, pages of one, two custom fields, chunks of one, two webhooks | a run covers the projects there were; it waits for every call; the webhook of a finished run is recorded on disk |
| `admission` | two sites with one connection each, one project key, two fields, one called on one site as the other on the other but for the case, a basket of issues, a project, a board and a snapshot that is blank, six requests, five events around one restore | who writes holds the scopes, unless a consent left out one of them meanwhile; an admitted restore finds its project unless it changed after the listing; a field goes to its namesake; the degraded flag is right but for a race or a silent board phase |
| `restore` | a basket of five kinds, two of which conflict, a sprint on a board of the basket, all modes, with and without a token | pending conflicts, stored objects, counters and status agree; a restore ends |
| `paging` | two integrations, three points, all five lists, pages of one, two loads, two requests at once, one failure: a request, a crash, or the clock set back | at the end of a list nothing is missing, unless a cursor's entry is gone while another has its id; nothing foreign is shown; nothing twice but for overlapping requests, a lost cursor entry or an id that is not its own; the point before another stays, and is the newest the clock tells |
| `persistence` | three records, any contents of both files at first, two failures of the disk, crashes at every step | what is renamed is the whole store; the file implements `SnapshotStore`; what has changed is saved in the end |
| `cursor_deleted` | two runs, no faults | **violated**: an unchanged issue is shown as deleted |
| `admission_fields` | the instance of `admission` | **violated**: a field without a namesake on the target is written to the field that has its id |

**Why the bounds are enough.** Two is where interference begins: two jobs, two
runs, two callers, two connections, two consents; the third run of `attachments`
lets one run take what two others left. Overlap, minute and skew are chosen so
that the cut of the seconds and the skew each need the overlap (with overlap 0
`cursor` fails at once: mutant `SinceWithoutOverlap`). Pages and chunks of one
make every boundary happen with two items. The third issue of `cursor` is the
one beyond the hard cap. Three points of `paging` are two of one integration and
one of the other, or three in a row, so that a page lies between an older and a
newer one; its rows are bounded (`MaxRows`) only for the cursors that go round
in circles, and boards change their names so that a crash may take the entry of
a cursor and leave one of its id further down. Five events of `admission` are
two consents, two listings and a change between them; the field
`f1` is called on the target as `f2` on the source, so that a map by id is seen to
be wrong, and in another case, so that a map by exact name is. Two
failures of `persistence` are one that leaves a torn temporary file and one that
leaves a whole one. Three tokens are one per connection and one rotation, or two
rotations of one. Two webhooks are needed for a registration that a crash or a
lost answer leaves without a record, and for two runs that register at the same
time.

## Fairness

* `jobs`: time passes (`SF` on `Tick`, since other steps disable it for a
  moment), due timers fire, a dead server is restarted (the container's restart
  policy), the autosave interval runs, and a pipeline ends
  (`PipelineFairness`). The last is an assumption on what a pipeline calls: the
  enumeration of issues has a hard cap, but lists of site objects end when Jira
  says they do. It is needed: the heartbeat is a timer of its own and would keep
  a hanging pipeline's job "running" for ever.
* `sdi`: the event loop reaches its check phase.
* `persistence`: the autosave timer comes round (`WF` on `StartSave`; it is
  disabled only by a save under way or a process that is not up), and a save that
  has begun goes on, as it is one synchronous call. Failures of the disk are
  bounded, so a save succeeds in the end; nothing is assumed about signals,
  crashes or restarts.
* `restore`: the pipeline goes on (HTTP timeouts), and the user decides on a
  conflict that stays pending. `SF` is wanted there because a decision is
  possible only between the steps of the pipeline.
* The safety runs assume none.

## Proofs

All modules of proofs are for every value of the constants the assumptions
allow. Every inductive invariant was first checked by TLC on the instances of
the runs.

**`BackupJobsProofs`**, from `TimingAssumption` (the timeout is at least the
heartbeat interval, lag of the event loop included) and `KindsAssumption`:

* `TypeCorrect`: `Spec => []TypeOK`.
* `JobsInvariant`: `JobsInv` is inductive. It has four parts. `FreshBeat`: age and
  time to the next beat of a job at work add up to at most the heartbeat
  interval. This is why the guard spares it; that the status is "running" does
  not survive `Guard` without it. `AtWork`: only a live process is at work, and
  a returning pipeline has written its point, and whoever has an outcome while at
  work has it from the guard. `CompletedHasPoint` itself. `SavedIsCurrent`: memory
  holds whatever the last snapshot settled, unless the guard had given up a job
  that cannot beat (`GivenUp`). This carries the property over a restart and makes
  saved history final.
* From it: `CompletedBackupHasPoint`, `GuardSparesBeatingJobs`, `OutcomesAreFinal`
  (`[][...]_vars`), `SavedHistoryKept` (`[][...]_vars`).

**`ConnectionTokensProofs`**, from `TokensAssumption` (there is a connection id
and a site):

* `TokensInvariant`: `TypeOK` and `TokensInv` are inductive together. Its parts:
  `Apart` of memory and `Apart` of `db.json` (tokens of connections and site
  selections are issued and pairwise different), `ExchangesIssued` (who is at
  work, works on a connection that exists, with issued tokens), `ExchangesApart`
  (tokens sent or answered belong to the connection of the exchange, and two
  exchanges are on two connections). `Apart` of the disk is needed because a
  restart makes it that of memory. `TypeOK` alone is not inductive: that a
  consumed token is a token follows from `ExchangesIssued`.
* From it: `TypeCorrect`, `TokensExchangedOnce`, `TokensNotShared`.
* `TokensKept`: `KeepInv` is inductive. `KeptConns` and `KeptChoices` say of memory
  and of `db.json` that every token they hold is accepted, gone with a lost
  answer or a crash, or in a granted exchange. `FreshKept` says the same of the
  token an exchange brings back, which the connection holds next. `SavedApart`
  is what a crash needs: a token that only `db.json` still has is the token of no
  other connection and of no other exchange, so that no one else has used it up.
* `NeedsReauthReal`: `RealInv` is inductive. `Real` is the property for memory and
  for `db.json`; `AnswerReal` relates an exchange under way to its connection: a
  refused token is not accepted, and the connection still has it unless a
  reauthentication overtook the exchange. `markNeedsReauth`, which runs after an
  `await`, is then about a token that is no longer there, and what it marks is
  `misjudged`: the exception is of that mark alone, every later one is judged anew.
* `DeletionEndsByWork` (`[][...]_vars`): a deleted connection that becomes something
  else and keeps the date of its deletion was overwritten by the refusal of a job's
  token, which may be a restore begun after the deletion; by a backup, begun before
  it, that does not find the site; by a reauthentication that was asked for; or by a
  restart. `NeverLate`: no backup begins on a deleted connection. A consent that is
  not asked for a connection clears the date (`ConsentUndeletes`); of the steps of a
  job only those after an `await` write the status (`CallerUndeletes`).

**`BackupScopeProofs`**, from `ScopeAssumption`:

* `ScopeCovered`, `SiteAnswered`, `HookKept`: `IInv` is inductive; it is a
  conjunction of predicates on one run. `Listed`: while it lists, a run has every
  project in front of its offset that was there from the start, unless a project
  before the offset vanished. Three facts about the listing keep this true: a page
  is not empty before the end and holds what stands from its offset to the next
  (`PageIs`, from ranks being a bijection, `Places`); a project that is created
  only moves others back (`RankAfterCreate`); one removed at or behind the offset
  moves none under it (`RankAfterRemove`). `Contexts`: every custom field is still
  to be asked for, asked for or answered. `Registered`: the webhook is registered
  in memory once its answer is there, and in `db.json` once the point is; ids
  above `made` are of no run and in no record, so that a new webhook is nobody's.

**`AttachmentStoreProofs`**, from `AttachmentsAssumption` (there is an attachment):

* `PointsComplete`: `Accounted` (what a run has found is still to do, being
  downloaded, or has an entry) and `DiskIsPrefix` (`db.json` holds a prefix of the
  entries and some of the points) carry `PointHoldsAttachments` over a crash:
  entries of a saved point were saved with it.
* `BytesReadable`, with overlapping runs and torn writes: `Linked` (a sidecar points
  back to an entry with bytes), `WholeFiles`, and `FirstOfItsKind` (what a run
  downloads has no entry yet, unless another run has stored it meanwhile). So a torn
  write spoils an entry only in that one case, which `spoiled` names and the
  property excepts.

**`IncrementalBackupProofs`**, from `IncrementalAssumption`:

* `GapsHaveCause`: `Spec => []GapsExplained`, if `SkewWithinOverlap`: whenever it
  is read, the server's clock is ahead of Jira's by no more than `OVERLAP_BUFFER_MS`;
  it may be behind, and go back. Without that, TLC
  loses an edit made while a run is under way: its stamp lies before the date of
  the next query. `GapInv` is inductive together with `SavedInv`. An issue is
  `Explained` when a point holds it, or a run that has moved the cursor holds it or
  missed it; this survives every step but an edit, and a crash, since points are
  saved as they are written (`PointsSaved`). `CursorExplained`, of the cursor in
  memory and in `db.json`: what the next query passes by is explained.
  `RunExplains`: what a run will pass by when it commits, it has, or has missed, or
  it is `OnLaterPage`. That a page that is not full is the last one (`FullPage`)
  rests on ranks being a bijection; that an edit moves an issue either behind or
  just under the offset is `EditSlides`.
* `TypeCorrect`.

**`RestoreProofs`**, of what precedes a restore's first write and of the restore
itself. (`RestoreAdmission` names its initial predicate, next-state relation and
variables `Admission...`, so that one module can extend both.) Of `RestorePipeline`,
from `BasketAssumption`:

* `PendingIsWaiting`, `SuccessIsStored`, `CountsAddUp`, `StatusTells`. `IInv` is
  inductive. `Progress` says where results are: none ahead of the stage at work, one
  for every item behind it, in `db.json` only of published stages, and none for the
  item under way, so that no decision is about it. `Counted`: the counters of the
  stages behind are the cardinalities of their results; `Ended`: totals and status
  are derived from them. The sum over the stages is that of a partition of the
  basket (`OverStages`).

Of `RestoreAdmission`, from `AdmissionAssumption` and `NullAssumption` (no
field, key or scope is null), for any number of connections, sites, fields and
events. `AdmissionInv` is inductive:

* `WritersHoldScopes`: by `Covered`, an attempt past its checks is on a connection
  that is there and holds the scopes of its writes, also while it awaits a token,
  unless a consent since then has left out one of them (`narrowed`).
* `AdmittedProjectsLive`: by `NodesSeen`, the entry of a project that has not changed
  since it was listed says what Jira holds.
* `FlagsReal`: by `RunsTold`, what a backup under way was told of the boards is so,
  unless a consent came in between.
* `MapsByName`: the tables are sequences in the order of their Maps, with one
  entry for each key (`OneEntryEach`, by `SetAllIs`, which says what the upserts
  of a listing leave); the map takes the last field of the source with the id and
  the last of the target with its name, in any case (`MaxIs`).

**`StoreProofs`**, of the two components whose state is the store itself:
`Persistence`, from `PersistenceAssumption`, and `SdiScans`, from `SdiAssumption`.
(`Persistence` names its initial predicate, next-state relation, variables and type
`Store...`, so that one module can extend both.)

* `RenamesWhole`: `StoreTypeOK /\ WholeBeforeRename` is inductive: no change falls
  between the write of `db.json.tmp` and its renaming, since a save is one
  synchronous call.
* `Implements`: `StoreSpec => SavesWhole`, the refinement. The store of the abstract
  specification is `mem` while the process is up and `db.json` while it is down,
  its snapshot is what `db.json` holds. `Rename` is the abstract `Save`, by
  `WholeBeforeRename`; `Load` is a stutter, since the snapshot already stands for
  the store of a process that is down; `LoadUnreadable` is `Forget`; a crash, and a
  failed step that ends a stopping process, is `Restart`; every other step of a
  save, and every failure the process survives, is a stutter. `StoreTypeOK` is
  needed for one case: a file that is torn never gets the name `db.json`.
* `NewestScanSurfaced`. It is not invariant that one scan of a point is current: a
  scan that was superseded and runs late is current again. `InOrder` (scans start
  in the order they were requested) and `Replaced` (a superseded scan has a later
  one of its point that is current), in memory and in `db.json`, are enough.
* `ReplacedStays` (`[][...]_vars`): a scan that has been replaced by a newer result
  is not made current again. `Waiting` is what it takes: the check queue holds only
  scans that have not been completed, also after a restart, which empties it.

**`PagingProofs`**, from `PagingAssumption` (among others, a page has at least one
entry), `FindingsAssumption` (what runs find is finite, and its ids and names can be
ordered) and `NullAssumption`, for any lists, filters, page sizes and number of
requests at once:

* What a list is. `SortedIs`: the list holds each entry once, in the order of the
  ranks; it is sorted by counting (`Place`), so that this needs no recursion.
  `EntriesProper`: in every list that can be sorted, entries have ranks that differ,
  and keys of their own. `ReplyIs`: a reply is the page behind the first entry with
  the id of the cursor, or the first page if there is none, and has a cursor exactly
  when entries are left.
* `TypeCorrect`, `PointsChained`: `PointsInv /\ RequestsInv` is inductive. That a
  point is linked to the newest of its integration, up to what the clock tells apart,
  is not inductive by itself: a restart could lose the point it is linked to.
  `PriorsKept`: a point that is there, in memory or in `db.json`, has the one it is
  linked to there as well.
* `NothingElseShown`: `Belongs` says of a key that it is an entry of its list and
  filter now, or of a point that was lost. It survives every step
  (`EntriesStay`: an entry stays as it is while its point is there). `ElseInv` says it
  of every answer under way and, unless answers of several filters were mixed, of
  what is shown.
  `WantedIs` relates the filters of the code to those of the documents.
* `NothingSkippedAtEnd`, `NothingShownTwice`: `PagesInv` is about a reader whose
  requests did not overlap (`OneRequest`). `EndsWith`: the cursor is the last row.
  `InOrder`: no row is there twice, and those that are still in the list are in its
  order. `Covers`: what was in the list at the first page and still is, is among the
  rows or behind the cursor. `Live` names the entries they are about. A page that
  starts behind the last row keeps all three (`NextPageInOrder`, `NextPageCovers`);
  one that starts over, as the cursor's entry is gone, still leaves out nothing.

The attempt to prove `NothingSkipped` without its last exception found the case that
it needs: a board is given another name, a crash loses the newer point with the entry
the cursor names, and an older entry has the same id. The next page starts behind
that one: if it lies further down, what lies between is never shown. The instance of
`paging` has such a board.

**Only model-checked**: liveness (`RunningJobsSettle`, `ScansSettle`,
`RestoreSettles`, `EventuallySaved`), which is out of the prover's reach. All other
properties of the passing runs are theorems.

## What the code does that its documents do not say

Shown by a run (`findings` in `PROJECT.json`):

* `cursor_deleted`: an incremental manifest is diffed as a full one
  (`backupEngine.js:344`; `USER_GUIDE.md:210`).
* `admission_fields`: a field that is not in the map is written under its source
  id (`restoreOrchestrator.js:275`; `restore-engine-architecture.md:669`: "missing
  optional fields emit warnings and proceed with those fields dropped").

Seen while modelling and not given a run of its own. The models behave as the
code does in each of these, unless said otherwise:

* Jobs: the restore alias of `app.js:97` starts no heartbeat, so the guard can
  fail it while it is at work (`jobTimeoutGuard.js:10` says otherwise); its end
  then overwrites the verdict, the exception `GivenUp` of three properties. A
  pipeline that hangs keeps beating (`jobTimeoutGuard.js:72`). Restore jobs are
  not guarded.
* Runs of one connection may overlap (`routes/backup.js:32`;
  `docs/debug/sprint16-401-token-expiry-diagnosis.md:87`).
* Cursor, each an exception of `GapsExplained`: the cursor is committed per
  project and not after the run, so a later failure loses the edits it passed
  (`jqlEnumeration.js:238`; `backup-discovery-pipeline.md:38`: "`lastBackupTimestamp`
  is only updated (committed) after a run fully completes without fatal error.
  Partial runs leave it unchanged"); pages are addressed by offset in an order
  that edits change (`jqlEnumeration.js:144`; `:95`: "Paginate through all issues
  matching the JQL"); at `PAGINATION_HARD_CAP` the loop stops and the cursor is
  committed all the same (`jqlEnumeration.js:156`).
* Attachments: an overlapping run rewrites a file in place, and a torn rewrite
  spoils an entry that was whole (`attachmentMaterialisation.js:49`;
  `backup-discovery-pipeline.md:219`; the exception `spoiled` of
  `EntriesReadable`); entries of failed runs are carried forward (`:80`, against
  `:71`); entries carry the id of no backup point (`backupEngine.js:28` and
  `:206`).
* Tokens: the refusal of a replaced token marks the renewed connection
  (`tokenService.js:192`; the exception `misjudged` of `NeedsReauthIsReal`); the
  callback for a single site creates a second connection to a connected site
  (`oauth.js:376`; `oauth-architecture.md:293`; hence `NoSharedToken` and not one
  connection per site); a hard delete cannot be reached, since no code sets
  `connection.sandbox`.
* Restores are begun on deleted connections (`routes/backup.js:363`, `app.js:84`,
  `routes/restore.js:35`), which only `POST /:id/backup` refuses. The refusal of
  their token, a backup under way, a reauthentication that was asked for or a restart
  changes the status of a deleted connection, which the route that undoes the
  deletion then refuses (`tokenService.js:192`, `:462`; `oauth-architecture.md:446`:
  "Restorable by account admin within retention window"). `DeletedEndsByWork` says
  that nothing else does.
* Two points made in one millisecond, or on both sides of a clock set back, may be
  linked to one point (`backupEngine.js:201`), and the changes of one of them are
  then shown in the other too; `PriorPointChain` is stated up to that.
* Two overlapping runs, a lost answer or a crash register a second webhook: the
  lookup and the record are apart (`webhookRegistration.js:113` and `:138`;
  `backup-discovery-pipeline.md:169`: "This prevents duplicate webhook
  registrations on retries or service restarts").
* Webhooks are never renewed, and their filter is not replaced when the project
  scope changes (not modelled: nothing receives events).
* Site objects: a failure of the board phase other than a missing scope or a
  refused token leaves no warning; `boardScopeDegraded` is set independently of
  the status "degraded".
* Restore: stages do not wait for pending conflicts of earlier ones
  (`restoreOrchestrator.js:1102`; `restore-engine-architecture.md:65`); without a
  token its items are counted as restored though nothing is written
  (`restoreOrchestrator.js:336`; against the comment at `:1063`); an issue that
  exists and cannot be updated counts as restored (`restoreOrchestrator.js:358`);
  a decision that comes early can set the status to "complete" while stages are
  left, which the end of the pipeline corrects (`StatusAgrees` is about the end);
  a sprint without its board is "failed", not "skipped".
* Restore validation: a restore that names the original destination, or an
  export, is not asked for its project; existence and archive status are those of
  the last listing, from which a deleted project is never removed; the board check
  looks at the first connection of the site that may read boards, not at the one
  that will write; a token that could be refreshed counts as none; required
  fields block nothing (ADR-005 says they do), as no caller names any; an
  alternate destination without a site is treated as another one by
  `initiateRestore` and not by the dry run (`routes/restore.js:88`); the board
  flag is cleared by a board phase that failed without an answer.
* Lists: entries of the global search have no `id` (`routes/search.js:103`, `:123`),
  so that a second page starts over at the first entry, for ever, and two equal
  names throw (`browse-search-object-explorer-architecture.md:51-53` says the cursor
  encodes "the last-seen sort key + id" and the order is "always stable"). Boards
  and sprints have one record per backup point under one id, so a cursor finds
  the first of them. An answer is shown under the filter selected meanwhile
  (`all-backups.html:235`). A cursor whose entry is gone counts as none, or as
  that of another backup point's record of the board, and then entries may be left
  out. The list
  of backup points takes a negative limit, for which a page is empty and its last
  element undefined (`routes/backupPoints.js:96`, `:141`). A sprint is found by
  its start or its end, so one that spans the dates asked for is not.
* SDI: a scan that was superseded before it ran comes back as "complete"
  (`sdiScanOrchestrator.js:173`; its header, `:14-15`); a pending scan is surfaced
  in front of a completed one (`sdi-architecture.md:355`); of two scans in one
  millisecond the first is the latest. `NewestIsSurfaced` is stated up to that tie.
* Data scope: the guard of the manual sync looks for a status nobody sets; the
  scheduler and the completion have no caller.

## Not modelled

* Character-level code: SDI extractors and patterns, encryption, PKCE, payload
  builders, comments reverted to text.
* Read-only routes and views; progress counters; preferences.
* Archive tags and the wait for a rate limit in a backup run, and the fallback of
  the search endpoint: none of the properties depends on them.
* Retry inside one HTTP call: its outcome, an answer or a failure, is one step.
* A power loss that undoes writes the system calls have acknowledged (`saveDb`
  does not `fsync`).
* The dry run of a restore, the same checks once more with a different default for
  the site; payload fields other than custom ones.
* Search for projects and attachments: `db.searchProjects` and
  `db.searchAttachments` are written nowhere, so the answer is always empty. The
  parent filter of the diff and the keyword filters beyond one of each shape.
* Code without a reachable caller: `deregisterWebhooks`, the sync scheduler, hard
  delete and with it the purge cascade (`POST /purge/cascade` only answers).

## Plan

Order: jobs and cursor first, as losing a backup is the worst the program can
do; then tokens, on which every run depends; attachments; what a run covers;
restore; SDI; restore admission; lists; the store. These are written. Next:

1. *Refinements*: an abstract cursor ("every edit is in a point or will be asked
   for") by `IncrementalBackup` without late faults, slides and cap; an abstract
   job ("absent, running, one outcome") by `BackupJobs`. `CursorExplained` is the
   relation the first would be shown with.
