# Verification of agent-foundation

TLA+ specifications of the services in this repository, the TLC configurations
that check them on small instances, and theorems about them that the TLAPS proof
system checks for every size. The source is the reference: every definition in
the modules is a translation of code, and `PROJECT.json` ("map") names the lines.

To check a run: `tlc -config MCTaskSerial.cfg MCArtifactStore.tla`.
To check the proofs: `tlapm M.tla` for each of `ArtifactStoreProofs`,
`ArtifactStoreSerialProofs`, `ThinKBProofs`, `ThinKBSerialProofs`, `RecoveryProofs`,
`StateMigrationProofs`, `EvaluationProofs` and `RetrievalProofs`.

## 1. The system

Two FastAPI services over a directory tree and a SQLite file, a command line
tool for their operators, an evaluation pipeline, and a client that calls the
services from an agent's tools.

```
 plugin client --HTTP--> artifact_api --> ArtifactService --> ArtifactStore --> tasks/{active,archived}/<id>/...
                                                  \---------> LedgerStore ---> ledgers/*.jsonl
 plugin client --HTTP--> thin_kb_api --> ThinKBService ----> ThinKBStore ----> kb/{canonical,candidates,deprecated}/...
                              |                                                + manifest.sqlite3
                              \-> RetrievalService --> Phase2Store ----> kb/{sources,extracts}, vector index
                                           \--> ThinKBService (refine)
 operator ------> CLI, scripts, pipeline ------> recovery, migrations, evaluation --> reports/*/<run id>, ledgers
```

The route handlers are plain `def` functions: FastAPI runs them in a pool of
threads, so requests on one task or object overlap access by access. The only
locks are `flock` around the append of a ledger line and SQLite's own. Files are
replaced by write-to-temp-and-rename (`fs_utils.write_text_atomic`), which first
makes the parent directory.

### Components

| component | state | operations | what is hard | what makes it correct |
|---|---|---|---|---|
| State machine (`storage/state_machine.py`) | none | `validate_transition`, gates | which fields a gate reads | a state is reached along an edge, with its gate open |
| Artifact store and service (`storage/artifact_store.py`, `services/artifact_service.py`, `apps/artifact_api`) | the directory of a task: `state.json`, artifacts, marker; the archive | create, get, put, update state, finalize, archive | check and write are separate accesses; migration on read; marker before transition; archive against writes; crash between write and ledger line | serial: an atomic life of a task; concurrent: records name legal edges, markers are sound, nothing is lost, archives are final |
| Thin KB store and service (`storage/thin_kb_store.py`, `services/thin_kb_service.py`, `apps/thin_kb_api`) | a file per object and tier, manifest rows and text index | create, promote, deprecate, get, search, rebuild, start-up recovery | two stores without a common transaction; former file removed after the commit; undo of a failed write; crash anywhere | a row has its file; manifest, files and ledger agree; a move is made or not begun; a restart repairs |
| Ledgers (`stores/ledger_store.py`) | append-only JSON lines | append, read | the event comes after the fact; a torn line | the ledger tells the state of the task or object |
| Schema migrations (`migrations/registry.py`, `scripts/migrate_*_schema.py`) | none of its own | complete a payload | a reader writes back what it read | a migration changes nothing but the schema |
| Backup and restore (`storage/recovery.py`) | a tar archive | backup, restore, mismatch check | backup of a live tree; crash between two trees; tiers left out of the check | a restored workspace is one that existed, and passes its own check |
| State root migration (`scripts/migrate_runtime_state.py`) | two trees | move | destinations made beforehand; rerun after a failure half way | all is moved once, nothing overwritten |
| Evaluation gates, reports, release check and replay (`eval/*`, `apps/cli/main.py`, `scripts/*`, `pipeline/dagster_defs.py`) | a workspace and report files per run id, ledgers of releases and replays | eval, replay, release-check, shadow pilot, nightly job, compare, summarize | ids of one second or given twice; stored files read back; kills between files and ledger lines; a baseline, contracts and code that change meanwhile | a release called "ok" has earned it; the results of an id are of one run; the ledger tells what the report says |
| Phase 2 retrieval (`storage/phase2_store.py`, `services/retrieval_service.py`, `apps/thin_kb_api/routes_phase2.py`) | sources, extracts, vector index | ingest document or code, hybrid search, refine | the index is made anew from a listing another ingestion overtakes; refine persists object by object | a search misses nothing that was ingested; what was answered stays true |
| Plugin client (`openclaw/plugin_adapter`) | its request under way | HTTP with a timeout | the server goes on after the client gave up; it may die after the headers | a call ends; a retry does no harm |
| Memory plane, configuration, authentication, observability | none that another component decides on | | | |

The hazards these components are exposed to are in `PROJECT.json` ("hazards"),
each at its line with the properties that would catch it.

## 2. Modules

| module | models |
|---|---|
| `TaskStateMachine` | `state_machine.py` as operators: states, edges, gates, over the artifacts of one task |
| `TaskLifecycle` | abstract specification: the life of a task in atomic steps |
| `ArtifactStore` | the artifact service on one task id, access by access, with crashes |
| `ArtifactStoreProofs` | theorems about `ArtifactStore` that hold whatever overlaps |
| `ArtifactStoreSerialProofs` | theorems about it with one thread: the ledger and the refinement |
| `MCArtifactStore` | its instances for TLC |
| `KnowledgeBase` | abstract specification: one object that is created, promoted, deprecated |
| `ThinKB` | the Thin KB on one object id, access by access, with failures of the database, crashes and restarts |
| `ThinKBProofs` | theorems about `ThinKB` that hold whatever overlaps |
| `ThinKBSerialProofs` | theorems about it with one thread: files, manifest, ledger and the refinement |
| `MCThinKB` | its instances for TLC |
| `Recovery` | backup and restore, step by step, over `ThinKB` (which it extends) and the tasks |
| `RecoveryProofs` | theorems about `Recovery` |
| `MCRecovery` | its instance for TLC |
| `StateMigration` | `scripts/migrate_runtime_state.py`, path by path |
| `StateMigrationProofs` | theorems about `StateMigration` |
| `MCStateMigration` | its instances for TLC |
| `Retrieval` | ingestion, index, search and refinement, access by access, on a pool of threads with crashes and restarts |
| `PluginClient` | the requests of the plugin's tools over `Retrieval` (which it extends): timers, aborts, retries |
| `RetrievalProofs` | theorems about `Retrieval` and `PluginClient` |
| `MCRetrieval` | its instance for TLC |
| `EvalGates` | metrics, comparison of two runs, thresholds and decision as operators |
| `Evaluation` | evaluation runs of every kind as processes over shared reports and ledgers |
| `EvaluationProofs` | theorems about `Evaluation` and the comparison of `EvalGates` |
| `MCEvaluation` | its instance for TLC |

### Task: how state and actions correspond to the code

`record` is `state.json` (state, `previous_state`, and whether it is of the schema
before `artifact_schema_version`); `files` the other artifacts of the task; `root`
whether `tasks/active/<id>` exists; `archived` the directory under
`tasks/archived`. A content is reduced to what a gate can tell of it: presence, the
verdict of a review with its demands open or closed, the outcome of a validation
report, the state recorded in the finalization marker. `told` and `audited` are
what the ledgers say.

A thread has a label `pc` (the access it makes next) and the local variables of the
handler: `call` (the request), `prior` (the state the service read for its log
line), `current` (the state the store read), `stale` (a legacy record being
migrated). A label is one access: `CreateCheck`/`CreatePublish` are the look at the
directory and the rename of the staged one; `Read`, `ReadPrior`, `ReadCurrent` the
up to three reads of `state.json` one PATCH makes (the route's, the service's, the
store's); `Gate` is `validate_transition`; `WriteState` the rename of the new
record; `Accept`, `Audit` and `Reject` the ledger lines. `Crash` empties every
thread and leaves the disk.

What is abstracted: an `exists()` and the read that follows it are one access, and
so are the looks of one gate at several artifacts (no artifact is ever removed but
by the rename of the whole directory, and no property checked with two threads
depends on the difference). The staged directory of `create_task` is invisible
until its rename. The two `archived` checks, before and by the rename, are both
there. Of the completion of a legacy document by its reader, only that of `state.json` is
modelled: `get_task` also completes `task-brief.json`, which changes nothing a gate looks at. `bundle`, `list_artifacts` and the audit routes change nothing and are left
out. Requests that fail validation before they touch the store are not requests
of the model.

### Thin KB: how state and actions correspond to the code

`file` is, per tier, the document in it (its text as a model value, its revision,
and whether it lacks a field of the current schema); `row` the object's row in the
manifest, with the tier (hence path) and revision of its text index entry; `told`
the tier the last ledger event names. `serving` tells whether the server is up.

`Fetch` and `Load` are `_fetch_manifest_row` and `_load_object_from_row`, `Migrate`
and `Resync` the completion of a legacy document by its reader; `Refetch` to
`UnlinkFormer` are `upsert` in its order (row, file, saved copy, new file, row,
removal of the former file), `UnlinkFirst` is the second removal in
`promote_candidate` and `deprecate_object`. `SyncFails` is any failure of SQLite
(locked for too long, disk full), `Undo` and `UndoUnlink` the `except` branch.
`Clear` and `Scan` are `rebuild_index`, asked for by an operator or by the
constructor at start-up, whose comparison of paths is in `Restart`: a rebuild may
also be due to another object, so it may always happen. The requests that only read
(`Reads`: get, search, related) make the same two accesses, and differ in what they do
when one comes back empty: `Unlisted` is a row that is not there, `Unloaded` a file
that is not, which `related` passes over and the other two report as not found
(`NotFoundMeansAbsent`). An SQLite transaction is
one access; so are, in `Scan`, the listing of a directory and the read of the object's
file: that a file listed and then removed ends a rebuild with an error (`read_json` in
`rebuild_index`), where the model goes on to the next tier, is left out. At start-up
nothing else runs, so only an operator's rebuild beside other requests can meet it; the tier, not the type, is what a path depends on, because the type
of an object id does not change.

### Recovery: how state and actions correspond to the code

`Recovery` runs the operator's command beside the whole of `ThinKB` (`ServeKB` is its
next-state relation). `phase` is the step the command makes next, `archive` what the
tar file holds of each section. A backup walks `kb/` as `tarfile.add` does, in the
order of the names: a directory is listed (`List`), then each listed file is copied
(`Add`), while requests go on between; a file that has gone in between ends it with
an error, and the partial archive stays on disk. A backup may be taken whether the server is up or
down, if the three paths it requires are there: `absent` holds those that a killed restore
has left missing. The services are down during a restore:
`ReplaceTasks`, `RemoveKB`/`CopyKB` and `ReplaceIndexes` are the two halves of each
`_replace_tree` (the files of the KB are removed one by one, in any order),
`ReplaceLedgers` both in one step, `Reindex` is `rebuild_index` and `Check` is
`detect_manifest_mismatch`. `Killed` ends either command at any step, and a restore
may then be repeated or a server started on what is there.

What is abstracted: the tasks are a version number, archived in one step (no property
looks inside them); `indexes/` and `ledgers/` are read in one access each; the `stat`
and the read of one file are one access; the extraction of the archive into a temporary
directory changes nothing; a kill between the removal of the ledgers and their copy is
left out (only the audit routes read them, and a repeated restore replaces them); the
comparison the constructor of `ThinKBStore` makes before `rebuild_index` is subsumed by it. The trees `replay/`, `backups/` and
`observability/` are copied in the same way and nothing depends on them.

### State root migration: how state and actions correspond to the code

`legacy` and `root` map each path of the repository and of the state root to what the
directory holds. One task (`T`) and one type of object (`claims`) stand for all of
the flat layout. `Start` makes what `ensure_state_layout` makes and plans the moves by
the layout it finds; `Skip`, `Refuse`, `Rename` are a path that is absent, one whose
destination is in the way, and a move within a file system. Between two file systems
`shutil.move` copies entry by entry and then removes the source (`Copy`, `CopyEntry`,
`Copied`, `RemoveEntry`), and `Killed` may come between any two. Empty directories
the script removes afterwards are left out.

### Retrieval and the plugin: how state and actions correspond to the code

`inbox`, `open` and `answers` are the wire: requests no thread of FastAPI's pool has
taken, connections whose client still waits, answers on their way. `sources` and
`extracts` are the ids with a file in `kb/sources` and `kb/extracts`, `table` those with
rows in the vector table, `packet` whether the experience packet of the task is where a
refine looks for it. A thread has a label `pc`, the access it makes next, and in `mine`
its request, the objects it has still to create (`todo`), what its listings have found
(`seen`) and its status. `before`, `logged` and `done` are history, for the properties.

`WriteSource`, `WriteExtract`, the two listings and `WriteTable` are `ingest_document`
and `ingest_code` in their order: the index is overwritten from what was listed, or
not, since a failure of the index is swallowed (`_sync_lancedb_index`). `ListDocuments`
and `ListCode` are also the hybrid search: it reads the extracts themselves, the
documents first. `ReadPacket`, `Create` and `Log` are `refine_writeback`
with the loop of `RetrievalService` that persists, `Promote` and `Audit` the operator's
requests on the same objects. `Appended` and `TornOff` are `LedgerStore`'s append, with
the line a crash tears and what the next append makes of it. `Send` to `ConnectionLost`
are `requestJson`: one timer from before the connection until the body is read, an
abort that closes the connection and nothing else. `Fails` is an access that raises
(disk full, a locked manifest, an extract that is not JSON): the request is answered 500
and what it has made stays. A refine whose packet is not valid, or that names no task and
brings none, has `None` for its argument.

What is abstracted: the append that fails leaves nothing of its line (only a crash tears
one); the texts of a packet are reduced to the id each is given, two of
which may be one (the slug is cut to 32 characters); documents, chunks, scores and
embeddings are data; `ensure_dir` and the write, `stat` and the read, are one access;
the canonical part of a hybrid search is `ThinKB`'s search. **An object of the KB is
atomic here**, as in `KnowledgeBase`, and is never deprecated: `AcknowledgedIsKept`
therefore speaks of the ledger and not of what stands in the KB, which overlapping
requests can damage (see the end of section 5) and which `ThinKB` models.

### Evaluation: how state and actions correspond to the code

`report` holds of each run id the files under `reports/*/<id>` (`made` tells which
exist), `workspace` the process that last made `shadow_runs/<id>` anew, `lines` the
ledger of releases. A process of any kind prepares its workspace, evaluates the cases
(`Collect`: any outcome, if another process has taken the workspace away meanwhile),
writes its files one by one (`WriteRun`, `WriteDetails`, `WriteReplay`), and then, by
its kind, compares with a baseline (`Compare` reads both `run.json` back from disk),
writes the comparison, the release report, a shadow summary, and its ledger lines.
`Fails` is a case that cannot be seeded or a file of `write_eval_run` that cannot be
written, with the one retry of the nightly asset, which covers both. `Killed` may come at
any step. What the code under evaluation makes of the cases (`Behaviours`), which cases
the corpora have, which baseline the environment or manifest names, and whether the
contracts have drifted, may be different each time they are looked at. `Loaded` gives a
run the cases of its kind: a shadow run evaluates those of its manifest (`Pilot`), so that
as a baseline it lacks the candidate's cases, and a case that was replaced in the corpus is
in one of two runs only. compare_runs does not compare such a case; it shows in
`cases_total`.

Files are never removed, so a run leaves what it does not write as it is: the comparison,
release report and summary of an id may be an earlier run's, and a run that
fails while it collects leaves every file of the former. `WholeReports` claims no more than
is true of that: no file is there without those it rests on, and `run.json`, the results
beside it and the replay report are of one run once that run has come to the end of them
alone, whatever runs of the id were killed or overlapped before. `author` is the history
this needs: the kind of run that has written `run.json` last, unless another was at work
on the id then or since.

`EvalGates` has the arithmetic: rates as pairs compared without division (the code
rounds to six digits, which no two rates of small corpora agree in unless they are
equal), the direction in which each metric is worse, the comparison case by case, the
thresholds of the profile, and the decision. A gold query has a rank among at most ten
hits, and its top hit may be of another version; the eight metrics of retrieval and the
five of the workflow that a run can have are all there, the reciprocal ranks as a sum of
integers over 2520. The rates of interventions and of escaped regressions are zero in
every `run.json`, as a run is told of no interventions, and are left out; a threshold on
them reads zero, as on any metric there is not. `results`, `against`, `base` and `alone` in
`lines`, and `author`, are history.

`OkIsEarned` asks of every line that says "ok" what the comparison stands for: of the cases
the two runs share no more are lost than the profile allows. It exempts the lost cases of
a check beside which another run of its id was at work (`alone`): there compare_runs reads
the other's `run.json`, and a release that lost a case is called ok (TLC reaches it).
`BetterPasses` compares answers by what the metrics see: the rank of the expected one, hits
where there should be none, and the version of the top hit. A query that goes from nothing
to an answer below a hit of another version is better by rank, and a regression in the
code; so `NoWorse` does not call it an improvement.

### Abstract specifications

`TaskLifecycle` has one step per operation: a transition finds its edge and its
gate at the moment it is made, a marker is placed once over a packet, an archive is
a snapshot. `RefinesLifecycle` maps its `state` to `record.state` and its archive to
the archived directory. `KnowledgeBase` has creation, promotion and deprecation as
single steps that raise the revision by one, and only a creation changes what the
object says. `RefinesKnowledgeBase` maps the object to what a restart would serve
from the files as they stand if the request under way fails (`Standing`, `Served`).

## 3. Runs

| run | question | result |
|---|---|---|
| `task_serial` | one thread, every request, crashes anywhere: does the store implement the atomic life, is a log line true when it is written, does the ledger tell the state? | holds |
| `task_race` | two threads on a task about to be released: which safety survives races? | `EdgeRecorded`, `FinalizedSound`, `NothingLost`, `ArchivedFinal` hold |
| `task_review` | is an implementation review with outstanding demands refused? | violated, finding 1 |
| `task_overlap` | does a task move along edges only when two updates overlap? | violated, finding 2 |
| `kb_serial` | one thread, failures of the database, crashes and restarts anywhere: do file, row and ledger agree, are moves atomic, is nobody told that an object is missing that is there? | holds |
| `kb_race` | two threads and a rebuild: is whatever they leave repaired by a restart? | holds |
| `recovery` | does a backup of a live KB miss an object, does a restore that ends leave the archived workspace, whatever was killed before? | holds |
| `recovery_mismatch` | does a restore fail over a broken manifest only? | violated, finding 3 |
| `migration` | kills, refusals and reruns: is anything lost, written over, or left behind? | holds |
| `migration_refusal` | is a non-empty destination the only one refused? | violated, finding 4 |
| `retrieval` | clients that give up and send again, two threads, a crash: does what was answered stay true, does a search miss anything, does a call hang, how much of a ledger does a crash cost? | holds |
| `evaluation` | two processes of any kinds that share ids, fail, are killed and see everything change: is a release called "ok" earned, are the results of an id of one run, has each file what it rests on, is the comparison monotone? | holds |

`LegalTransitions`, `LedgerComplete` and the two refinements are asked of a server
with one thread only, because with two they fail (`task_overlap`, and for the KB what
the end of section 5 says of overlapping requests). That
is also the value of the serial runs: they show that all the trouble left is that
of overlapping requests, since crashes, failures of the database and migration on
read, at any point, do none.

### Bounds

- One task id, one object id: no access to one touches the files of another. The
  one exception, that the start-up comparison is over all objects, is in `Restart`.
- Two threads: each hazard is between two requests. A third adds no new kind.
- `task_serial`: every operation, all nine targets, and the contents that can turn
  each late gate either way. `SecondLifeShort` stops following an archived id after
  the first artifact of its second life, and only for tasks archived new or
  released; that life is the first one again.
- `task_race` starts from a validated task in the old schema with all artifacts but
  the experience packet, so that release, write-back, rework, migration, archive and
  re-creation are all a few steps away.
- `kb_serial`: two texts and four revisions, enough for a whole circle (created,
  promoted, deprecated, created again). `MaxRevision` guards the start of a request.
- `kb_race`: one text; `MaxRevision = 2`, and `Overshoot` allows the one revision
  that requests already under way may add.
- `recovery`: one thread, since what matters is a request between two steps of the
  walk; `MaxRevision = 2` and `MaxTasks = 2` tell the archived version from the one
  that came after. Seeds are a candidate and a canonical object, each one move from
  the next tier. Any number of backups, kills and restores. 6.4 million states.
- `migration`: two entries per directory, so that a copy or a removal can be cut in
  half, and a third that only the state root has. Every subset of the paths of both
  layouts, alone and together, and a state root that is new, laid out, or in use. Any
  number of runs. 50 thousand states.
- `retrieval`: two threads and one client with two tries: an abandoned call and its
  successor overlap on the server, which is where every hazard of this part is. One
  crash, since `OneLostPerCrash` counts per crash and the proofs are for any number. One
  document and one piece of code, listed one after the other; a packet of three texts
  of which two have one id. 290 thousand states; no symmetry, as it checks liveness.
- `evaluation`: two processes, two starts, two ids: a run and its baseline, or two runs
  of one id. Three positive gold queries of which two ask for a version, a negative one,
  two replay cases and one of the pilot; behaviours that are as usual, better but for a
  server error, and of an edited corpus in which one query has taken another's place and
  makes up for its own loss; earlier reports that are none, usual, or with a false positive
  and an answer of another version. 1.6 million states.
- Where threads or processes are symmetric and no liveness is checked, symmetry is used.

### Fairness

Only `PluginSpec` assumes any. A thread of the server that can go on does
(`WF_vars(Work(t))`: a handler is a straight line that ends or raises, and an idle
thread of the pool takes a waiting request), and the timer of a client goes off
(`WF_allVars(Timeout(c))`: `setTimeout` with `AbortController`). Nothing is assumed of
clients that send, of the network that delivers, or of a server that is down and may
stay so. `CallsEnd` needs the timer alone, `AbortDoesNotCancel` the threads. All other
specifications state safety only: no loop of theirs waits for anything.

Deadlock is checked in every run but `retrieval` and `evaluation`, which really stop:
when all tries and starts are used and all is answered, nothing is left to happen.

### Faulty variants

Operators whose comment says "Faulty variant" are not part of any specification.
Each changes one definition as a plausible bug would (a dropped guard, a copy made a
move, an answer before the event); `PROJECT.json` ("mutants") names the property that
then fails. They are kept to show that every property depends on the code.

## 4. Proofs

Every invariant and action property that a run checks is also a theorem, for every
value of the constants: any number of threads or processes, any requests of the API, any
crashes, anything sound on disk at the start. The two refinements of abstract
specifications are theorems too. The assumptions are those the modules name
(`CallsAssumption`, `SeedsAssumption`, ...); TLC evaluates them in every run, so the
instances it checks are instances of the theorems. The bounds (`MaxRevision`,
`MaxStarts`, ...) are constants, so the theorems hold for each of their values.

Five files hold the theorems that need nothing else: `ArtifactStoreProofs`,
`ThinKBProofs`, `StateMigrationProofs`, `EvaluationProofs`, `RetrievalProofs`. Those of
`ArtifactStoreSerialProofs` and `ThinKBSerialProofs`, and `BackupAlwaysKeeps`, assume
`Serial(t)`: `t` is the only thread. With two these properties fail (section 3), so the
assumption is the content of the statement and not a convenience. For the KB it also says
that no operator asks the live server for a rebuild, and that the seeds have a manifest
in order; for the tasks, that a task on disk has its brief. All of it holds of what the
services themselves leave, and of the serial runs.

In each module one inductive invariant carries the theorems. It starts with the type
correctness TLC checks, strengthened by `Placed` (or `Ready`), which ties the local
variables of a thread to its label: a handler's own control flow, which a thread-local
argument may use whatever the others do. Without it not even the types are inductive (a
thread at `write` with no target would write a record without a state).

### Tasks

| theorem | states |
|---|---|
| `ArtifactStoreProofs.TypeCorrect` | `Spec => []TypeOK` |
| `EdgeAlwaysRecorded` | `Spec => []EdgeRecorded` |
| `FinalizedAlwaysSound` | `Spec => []FinalizedSound` |
| `NothingEverLost` | `Spec => NothingLost` |
| `ArchiveIsFinal` | `Spec => ArchivedFinal` |
| `ArtifactStoreSerialProofs.LoggedAlwaysTrue` | one thread: `Spec => []LoggedIsTrue` |
| `LedgerAlwaysComplete` | one thread: `Spec => []LedgerComplete` |
| `ImplementsLifecycle` | one thread: `Spec => RefinesLifecycle` |

`EdgeInv` adds that a thread at `write` holds an edge it has validated and a thread at
`migrate` a record whose edge is legal; a write then leaves a legal record whatever the
others did meanwhile. `FinalizedInv` says: unless the id has been archived, a marker has
its packet, a written-back record has its marker, and a thread on its way to place a
marker or to write back has seen the packet or the marker (`MarkerAhead`). It is inductive
because artifacts disappear only by the rename of the directory, which is what
`NothingLost` says. `ArchivedFinal` needs the weaker fact that the directory and its
contents vanish together (`Directory`, `KeptOrArchived`).

With one thread, `SerialInv` adds that a directory is a task or not there (`Whole`), that
the states a request has read are still on disk (`Knows`), and that the ledger agrees
with the record unless a request owes its line or a crash cut one off. The refinement has
one lemma per action: `WriteState`, the creation's and the archive's rename and the marker
are the steps of `TaskLifecycle`, all others stutter.

### Thin KB, backup and restore

| theorem | states |
|---|---|
| `ThinKBProofs.TypeCorrect` | `Spec => []TypeOK` |
| `RecoveryAlwaysRestores` | `Spec => RecoveryRestores` |
| `ThinKBSerialProofs.BackedAlways` | one thread: `Spec => []Backed` |
| `IndexAlwaysAgrees` | one thread: `Spec => []IndexAgrees` |
| `LedgerAlwaysFollows` | one thread: `Spec => []LedgerFollows` |
| `NotFoundAlwaysMeansAbsent` | one thread: `Spec => []NotFoundMeansAbsent` |
| `ImplementsKnowledgeBase` | one thread: `Spec => RefinesKnowledgeBase` |
| `RecoveryProofs.RestoreAlwaysFaithful` | `RecoverySpec => RestoredAsArchived` |
| `RestoreAlwaysRecovers` | `RecoverySpec => RecoveryRestores` |
| `BackupAlwaysKeeps` | one thread: `RecoverySpec => []BackupKeepsObject` |

`RecoveryInv` is about a server that is not up yet: one thread works, it rebuilds, and the
row names the winner among the tiers scanned so far (`Filled`); a legacy document it is
completing is still the one on disk. Nothing is assumed of files and row before the
rebuild, which is why the theorem holds for whatever overlapping requests left.

`SerialInv` follows a request along its accesses: what it has read of row and files is
still there (`Knows`), a legacy document it completes is the one the row names
(`Completes`), and once its new file is written (`Written`) the former one is untouched
where it was and would win again if the new one went (`Former`). `LedgerInv` and `RowInv`
are what survives crashes: unless a crash cut a request off, ledger and row tell the
winning tier, or, while a write can still be undone, the former one. The refinement needs
that with both files there a restart serves the old document or the new one (`OldOrNew`),
so that commit, undo, removal and crash each map to one abstract step or none.

`RestoreInv` says how far a restore has come: what of tasks, files, manifest and ledger
is already the archive's, and that no server runs; a kill forgets the phase and keeps the
disk, and so needs nothing. `BackupInv` is the argument that the walk meets the object:
while nothing has been archived, the tiers the walk has passed hold no file
(`FileAppears`: a file appears only by the write of a request, in its tier, and one that
is promoted was a candidate, still ahead), and what a restart would serve never goes
(`ServedStays`, from the refinement); so when the walk ends the object is archived. It
uses `SerialInv` without `LedgerInv` and `RowInv`, since a restore replaces ledger and
manifest behind the server's back; that is its parameter `alone`.

### State root migration

| theorem | states |
|---|---|
| `NothingIsLost` | `Spec => []NothingLost` |
| `NothingIsMixed` | `Spec => []NothingMixed` |
| `DoneIsAlwaysAll` | `Spec => []DoneIsAll` |

For any entries, any repository of either or both layouts and any state root. The
invariant adds that the directories of the layout exist while the script runs (`LaidOut`,
why every tree is refused), that a copy has a destination the script made itself
(`Moving`, why nothing is mixed), that it is whole before the source is removed
(`CopiedWhole`, why nothing is lost), and that what is still in the repository is planned
or belongs to the layout not looked at (`Covered`).

### Evaluation

| theorem | states |
|---|---|
| `TypeCorrect` | `Spec => []TypeOK` |
| `ReportsAreWhole` | `Spec => []WholeReports` |
| `LedgerIsBacked` | `Spec => []LedgerBacked` |
| `OkIsAlwaysEarned` | `Spec => []OkIsEarned` |
| `ImprovementsPass` | `Spec => BetterPasses` |

For any corpora, profile of thresholds, code and earlier reports. `FilesOK` says which
files are there at each place of a process (`Ready`); it needs no history, because none is
ever removed, and gives the first half of `WholeReports` and of `LedgerBacked`, whatever is
killed. Of an id with an `author`, `Authored` says that at most one run is under way on it
(`Lone`), that its files are that run's own (`Owned`) or, between its writes, whole
(`Between`), and that the last line of a release check says what its report says (`Told`).
An overlap, a failure or a kill between the writes takes the author away; the next lone run
that writes `run.json` brings one back, and its files are whole again at the end, which is
why earlier kills need no exemption. What a release check has read of its baseline is kept
with it (`base`), so that it stays true until the line is written and after (`Judged`,
`Decided`, `Logged`). `ImprovementsPass` is about the operators: a run whose answers are
nowhere worse has no metric that is worse, since within each rank there are no fewer cases
(`NoAnswerWorse`, `RanksOrdered`), strays and false positives are fewer or the same, and a
precision grows if its part grows and the rest shrinks (`NotLessOfWhole`).

### Retrieval and the plugin

| theorem | states |
|---|---|
| `TypeCorrect` | `PluginSpec => []PluginTypeOK` |
| `AcknowledgedStaysTrue` | `PluginSpec => []AcknowledgedIsKept` |
| `SourcesAlwaysThere` | `PluginSpec => []ExtractsHaveSources` |
| `SearchesSeeIngested` | `PluginSpec => []SearchSeesIngested` |
| `IngestionsIndexThemselves` | `PluginSpec => IngestIndexesItself` |
| `CrashCostsOne` | `PluginSpec => []OneLostPerCrash` |

`SourceInv` adds `Filed`: a thread past the write of a file has that file, what it has
seen is still there (files are only added), and half way through a search it has seen the
documents that were there before. `AckInv` follows an acknowledgement back to its deed:
the calls a client takes for done and the answers on their way with status "ok" are
kept, and of a thread that refines (`Acting`) every candidate of the packet is told by
its ledger or still in `todo`. It is inductive because ledgers and files only grow
(`Grows`): `AppendedLines` and `TornLines` show that neither an append after a torn line
nor a tear takes an event away that is whole or merged. `CostInv` counts the lines that no
longer parse: each has had a crash of its own, and a torn line at the end of a ledger is
one event that is still to be lost.

### What the proofs found

Writing them changed the models in these places, none of which TLC had shown:

- `Winner` (the tier a rebuild ends with) was a `CASE` with overlapping arms. TLC takes
  the first; the language leaves the choice open. It is now the nested `IF` it meant.
- `SUBSET A \cup B` in the type of the places of `StateMigration` was `(SUBSET A) \cup B`.
- The seeds of the migration run had one layout at a time; the theorem is about both, so
  the run now has both as well.
- In `Evaluation`, a comparison that finds no baseline must not keep the id the
  environment names; and `OkIsEarned` has to allow the lost cases that the profile
  tolerates, which is zero in the profile of the run but not in every one.

### Only model-checked

`CallsEnd` and `AbortDoesNotCancel`, liveness under fairness, which is out of the
prover's reach. What recursive functions compute over all their inputs (the folds of
sequences) would need induction with an operator as parameter, and is not stated. The
four runs that expect a violation show counterexamples and have nothing to prove.

## 5. Findings

1. **Required fixes are never seen.** `_review_gate` reads `required_changes`; an
   `ImplReview` calls its list `required_fixes`. A JSON implementation review that
   approves with conditions passes with its fixes outstanding (`task_review`).
2. **Overlapping updates leave the state machine.** Both are validated against one
   state and the second moves the task from the first one's target (`task_overlap`).
   What `EdgeRecorded` shows is that each record still names a legal edge, so the
   break is not visible in the record.
3. **A restore fails over candidates.** The check after the rebuild compares canonical
   files with rows of every tier, so a restore of any archive with a candidate or a
   deprecated object ends in an error after it has done everything
   (`recovery_mismatch`).
4. **The state root migration refuses what it has just made.** Directories that
   `ensure_state_layout` makes empty are refused as destinations, so the layout by
   status or tier, `observability/` and `shadow_runs/` cannot be moved at all; only
   flat repositories can (`migration_refusal`). `DoneIsAll` is therefore a statement
   about those.

Also observed, and not findings because nothing in the repository says otherwise: the
roll-back the VALIDATED gate suggests is never an edge from IMPL_APPROVED unless it
is IMPLEMENTED; a task id may be created again after its archive, and cannot then be
archived a second time; a crash between the file and the row of a write within one
tier leaves an index of the former revision that no restart notices (the reason for
`cut` in `IndexAgrees`); the partial archive of a failed backup is accepted by a restore
if it has reached `kb/canonical/`; an object that is created anew from a later tier while
a backup walks can be missed by it (the reason for `owed` in `BackupKeepsObject`);
`check_manifest_consistency.py` looks for the manifest in `kb/` by default; a copy between
file systems that is killed leaves a destination that every rerun refuses, with nothing
lost, for the operator to remove.

Of overlapping requests on one object of the KB: a creation during a promotion can
leave a row without a file, over which every further creation of that id fails until a
restart, or remove the object itself; a promotion that had looked before a deprecation
promotes what has been deprecated. `RecoveryRestores` is what remains true then. Of the
ledgers: a line that a crash tears makes the audit report of that object fail for good,
and takes the next event into it. Of refinement: a refine sent again after its task was
archived is answered 404. Of the evaluation: a case of the baseline that the candidate lacks is
not compared, so a case that is replaced cannot regress; `log_intervention` writes under `reports`
by default where `docs/SHADOW_MODE.md` has `generated/reports`; `comparison.json` is
written before the threshold failures are added to it, and stays when a later run of the id
is given no baseline; a release check writes no shadow
summary, so that it never finds new critical failures; the replay of an empty corpus
is ok; a release check whose baseline has a directory and no `run.json` raises, where one
without the directory is reported as missing; `review_rejection_rate` counts a review gate that rightly refuses more as a
regression (the reason `Improves` asks for the same replay results).

## 6. Plan

Done: all modules of section 2, their runs, and a theorem for every invariant, action
property and refinement that a run checks. In order:

1. Proofs of the sharper statements the invariants already imply and no run asks: which
   of the serial properties survive a second thread that only reads (`IndexAgrees`,
   `NotFoundMeansAbsent`), and that a second restore of one archive changes nothing.
2. The offline schema scripts beside a live service, over `ArtifactStore` and `ThinKB`.
3. Interventions that operators log, if a decision comes to depend on them.

Not modelled: ranking, chunking and text extraction of Phase 2 (pure data processing),
configuration, authentication and observability (no state another part decides on), the
memory plane (a stateless client that answers with nothing on failure), the validation
of fields by pydantic, and the commands that make or remove empty runtime directories.
