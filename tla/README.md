# A verification of nirs4all-core

nirs4all-core is the portable core of nirs4all: it composes the native projects (DAG-ML, libn4m,
readers of formats and datasets) into one library with a Rust crate, a command line worker and
bindings for Python, JavaScript/WASM and MATLAB. The numerical work is done upstream. What the
core itself must get right is what surrounds it: files that appear or disappear as a whole, a
native library that is fixed for the life of a process, archives that are what their SHA-256 and
their inventory say, definitions that are planned as they are written, preprocessing that happens
exactly once, handles that are released, answers that are true when they are read. This directory
holds TLA+ models of these parts, TLC runs over small instances, and proofs checked by TLAPS.

Paths below are relative to `src/`; `RUST` stands for `bindings/rust/nirs4all/src`.

## 1. Inventory

### 1.1 Components

| component | code | state it keeps | operations | model |
|---|---|---|---|---|
| Atomic file publication | `atomic_create` in `RUST/archive_v1.rs`, `archive_v2.rs` (V2 and V3), `portable_session.rs`; `durability.rs` | `TEMP_SEQUENCE` of the process, temporary files, the target | create a temporary file, write, flush, hard link, unlink, flush the directory, clean up | `AtomicCreate`, `PublishOnce` |
| Training publication | `RUST/archive_command.rs`, `publication.rs` | `PublishedTrainingOutputs.owned`, destinations, response | probe, train, link the archive, publish the directory, answer, roll back on drop | `TrainingPublication` |
| Directory publication | `RUST/publication.rs`, `results.rs` | the reservation, the members moved so far | reserve, rename or move member by member, move back, re-open | `DirectoryPublication` |
| Node tuning export | `bindings/wasm/src/tuning.js` | `owned` members with device and inode, the reservation | stage, link member by member, roll back, discard the stage | `DirectoryPublication` |
| Native library identity | `RUST/native_methods_replay.rs` | `CONFIGURED_METHODS_LIBRARY` with its mutex, the private snapshot, two n4m instances | preflight, train, replay, refit, predict, present | `MethodsIdentity` |
| Archive files | `RUST/archive_v1.rs`, `archive_v2.rs`, `archive_v3.rs`, `archive_view.rs` | a request, the file, the manifest and payloads a load holds | derive, lay out, write, dispatch, preflight, scan, validate before and after the payloads, view | `ArchiveStore` with `ArchiveContainer`, `ArchiveManifest`, `ArchiveManifestV1`, `ArchiveManifestV2`, `ArchiveManifestV3`, `ManifestText` |
| Archive reading | the same loaders, `RUST/archive_command.rs` | an open file, the bytes read so far, the SHA-256 | hash, read directory, dispatch, read manifest and members, hash again, check, serve, pin and replay | `ArchiveReader` |
| Portable pipeline and session | `RUST/lib.rs`, `portable_session.rs` | a plan, the variants of a run, handles of libn4m, an open session and its file | read and plan a definition, run, select, export, save, load, predict, close | `PortableDefinition`, `PortablePlan`, `NativeCalls`, `PortableSession` |
| Role pipelines | `RUST/n4m_roles.rs` | a fitted pipeline, its version 8 envelope | read a recipe, fit, write, read, predict | `RolePipeline` |
| JavaScript controllers | `bindings/wasm/src/js-estimator-controller.js` | fitted estimators, the selected variant, the prediction dataset | asynchronous phases, fit, predict, export, import | `EstimatorController` |
| Worker supervisor | `RUST/bin/nirs4all-core-archive.rs` | a child process and its private directory | start, wait, clean up | not modelled |
| Tuning, workflow, conformal | `RUST/tuning.rs`, `workflow.rs`, `conformal.rs` | checkpoints of a study | admit, run, resume | not modelled |
| Generation, dataset training | `RUST/generation.rs`, `io_training.rs` | none beyond a call | validation and calls of upstream code | not modelled |
| Browser tuning and workspace, Python, MATLAB, native bindings | `bindings/` | handles | conversion of arguments and results | not modelled |
| Qualification, fixtures, scripts | `qualification/`, `tests/`, `docs/`, `scripts/` | none | evidence for releases | not modelled |

### 1.2 How they interact

A training command (`workflow-run`, `tuning-run`, `conformal-calibrate`) checks that its
destinations are free, attests the native library, trains, stages an archive with `atomic_create`
in a private directory, links it to its destination, publishes a results directory next to it, and
answers last; an error before the answer drops `PublishedTrainingOutputs`, which takes back what
it had published. A reading command (`inspect`, `read-member`, `replay-process`, `replay-methods`)
loads an archive and compares the SHA-256 of the load with the one its caller gives.
`replay-methods` copies the file once more into a private directory and executes the copy by the
library whose identity the process has fixed. A portable session needs no archive: it runs a
definition through routines of libn4m, exports the best model with its definition as one JSON file
created by an `atomic_create` of its own, and replays it after a load. A role pipeline stores its
states in an envelope that its caller keeps. A JavaScript controller lives in the thread of its
host and is called back by DAG-ML. No component shares memory with another except through the
process-global identity; they share the file system, with each other and with programs that know
nothing of the core.

### 1.3 What is hard

* threads and processes race for one path, one counter, one lock;
* calls of one asynchronous object overlap at its await points;
* other programs replace, remove and overwrite files between a check and its use;
* processes are killed and machines lose power between any two operations;
* one of several publications, or one of a dozen native calls, fails and the rest must be undone;
* an identity is fixed once and then decides the fate of every later call;
* three versions of one format have three validators, two preflights and one dispatch;
* what is written must be what is read: digests, plans, class ids and embedded preprocessing are
  derived on one side and checked on the other, over numbers at the edge of their width.

`PROJECT.json` lists every such hazard at its line, with the properties that cover it, or the
reason why none does.

## 2. Modules

### 2.1 `PublishOnce` and `AtomicCreate`

`PublishOnce` is what a caller may rely on: a call's bytes stand at the target at most once,
completely, only where nothing stood, and the result says whether they did; results in `Vague` say
nothing of it. `AtomicCreate` is the code, and has no such result (`Vague <- {}`). One variable per kind of state: the steps and locals of each thread, `TEMP_SEQUENCE` of each
process, the directory as readers see it (`temps`, `target`) and as a power failure would leave it
(`diskTemps`, `diskTarget`), the content of each inode and whether it was flushed. Each system call
is one action with all its outcomes: `Reserve` is an iteration of the `create_new` loop, `Link`
resolves both names when it happens, `Cleanup` is the `let _ = remove_file` that ignores its own
failure. `Store` selects among the three functions, which differ in two ways: V2 leaves the process
id out of its temporary names, and the session store does not flush the directory. `Kill` ends a
process and resets its counter, so a successor with the same id meets its old names. `PowerLoss`
returns the directory to its durable entries and may tear any content that was not flushed;
`WriteBack` lets the kernel make entries durable at any time. `PublishOnce` is instantiated with
`Visible`, which maps an incomplete target to a value the abstract target never takes: the
refinement fails if a partial file is ever visible.

### 2.2 `TrainingPublication`

Several processes run one command each. `pc` follows `execute` through `new_destination`, the
native run, `PublishedTrainingOutputs::publish`, `publish_directory_noreplace` (reservation,
rename, removal of the reservation), `emit_json` and `write_new`; an error continues in `drop`,
which visits `owned` in reverse and checks the identity of each entry (`CheckOwned`) before it
removes it by path (`RemoveOwned`), in two steps. An entry carries its creator, which stands for
device and inode; a rival creates, inserts, replaces and removes entries. `Faults` names the steps
that may fail by themselves. `publish-directory` is the second command: it answers first and
publishes afterwards.

### 2.3 `DirectoryPublication`

One path, and callers of three kinds: `publish_directory_noreplace` as such,
`save_experiment_results` around it, and `NativeTuningResult.export` of Node, which is a second
implementation. On POSIX one `Rename` replaces the reservation; on Windows the members move one by
one (`MoveMember`, `MoveBack`); Node links them one by one and compares identities before it takes them
back. A file whose digests bind the others, the index, is last in every order. `Shown` is what a
reader finds who begins with the index, and under `Shown` all three kinds refine `PublishOnce`, the
specification `AtomicCreate` refines for one file.

The refinement claims no more of a result than the code gives. An error of
`publish_directory_noreplace` says that nothing was published. `save_experiment_results` opens what it
has published (`Reopen`), and Node removes its stage (`Discard`); an error of these is returned like
any other, although the directory stands. `Told` therefore maps every error of save and export to
`"error"`, which is `Vague`: neither kind of caller learns from an error whether it has published. What
is left to them is that success means published, that no call takes a publication away, whatever it
returns (`PromiseStep` allows `Remove` to the owner alone), and that an error leaves all or nothing
(`FailureLeavesNothing`): the directory with all its members until it is withdrawn, or no member, no
reservation, and a stage that is complete or gone. `OwnersOnly` says what a rollback owes to others.

### 2.4 `MethodsIdentity`

Threads make the six kinds of call that use libn4m. A call reads the library file (`Attest`),
fixes or confirms the identity under the mutex (`Identify`, and for the first call
`WriteSnapshot`, `Configure`, `Select`, `Store`), opens the runtime (`Open`) and asks for the ABI
its archive needs (`CheckAbi`), in the order of each entry point (`AfterIdentity`, `AfterOpen`);
replay and prediction then resolve the library a second time. A library is its bytes, and its
bytes stand for their SHA-256. `dagml` and `core` are the libraries of the two n4m instances.

### 2.5 `ArchiveReader`

A file is a row of regions: manifest, members, directory. The loaders pass over it region by
region while the environment overwrites regions and lets the path name other files. V1 computes
the SHA-256 before and after it reads, V2 and V3 only after; `load_archive` dispatches on the
manifest and lets V1 and V3 open the path again. `InDirectory` is the CRC32 check against the
directory that was read; `Check` is the closure of inventory and digests, for which the set
`Archives` stands here and which `ArchiveStore` models. A command then serves what it loaded, or
pins a copy and executes it. Its names differ from those of `MethodsIdentity`, so that one proof module
extends both.

### 2.6 `ArchiveStore` and the modules of the format

* `ManifestText` is the iterative scan of `manifest.json`, one token at a time with its stack of
  frames (`Feed`), for the scanner of V1 and that of V2; `Documents` is the grammar it is compared
  with, written independently of the stack.
* `ArchiveManifest` has what the versions share: member paths with the attributes their grammars
  ask for, references, inventory, the view. A content stands for bytes and for their SHA-256.
* `ArchiveManifestV1`, `V2`, `V3` have, per version, what the writer demands and derives (`Prepare`),
  what a reader decides before it opens a payload (`Dispatch`) and after it (`Verify`).
* `ArchiveContainer` is the stored ZIP: the layout of the writers and the two preflights.
* `ArchiveStore` composes them into the life of one archive: a request, changed in one place or
  not; `Write`; a file, changed in one place or not; a load in stages (`Preflight`, `Dispatch`,
  `ReadManifest`, `ReadPayloads`, `Verify`) by `load_archive` or the loader of a version. `stage` and
  `verdict` record where and how a load was refused, which is what callers act on.

### 2.7 `PortableDefinition`, `PortablePlan`, `NativeCalls`, `PortableSession`

`PortableDefinition` reads a definition of any root, strips its comments and normalises it, and has
the conversions of numbers (`ReadsInt`, `IntParam`): a number is reduced to what its readers tell
apart, whole, minus zero, fractional, beyond 64 bits, and the strings among them. `PortablePlan` is
`parse_execution_plan`: the splitter, the preprocessing, the swept numbers of components, and the
plans that libn4m can embed. `NativeCalls` is the calls each routine of `MethodsLibrary` makes, with
the handles it allocates, the guards that own them and the returns at every failure.
`PortableSession` composes the three: `run`, selection, export and save, load and predict, with edits
of the file and replacements of the library in between. `edited` is the set of the kinds of edits since
the file was saved; an edit always changes the file and never removes it, and a session keeps the
edits of the file it was loaded from (`origin`). Rows are reduced to the list of
preprocessing steps they went through, a model to what it was trained behind and to what it does
itself. The file creation of a save is `AtomicCreate` with `Store = "Session"`.

### 2.8 `RolePipeline`

A recipe is read against a catalogue that stands for the native manifest, fitted on values, labels
or class ids, written to its envelope (`ToJson`), changed, read (`FromJson`) and used. libn4m is
reduced to the states of the steps: method, parameters, width, the class ids it has seen and what
they meant in the training rows (`meaning`), so that a class served under a wrong label is visible.
Names are numbered in their order (`SortedNames`, `Before`), the document has the table of the names
(`Table`), and `Older` is the document as an earlier version writes it, without column names.

### 2.9 `EstimatorController`

`createAsyncJsEstimatorController` with several calls under way. A call is a chain of jobs; `jobs` is
the queue of the host, first in, first out. `Settle` is a promise of the host's estimator settling
at any time and in any order; an await on a function of the controller takes its turn at the end
of the queue (`Yield`), so that a fit remembers its estimator in one turn (`Remember`) and selects
its variant in a later one (`Select`), while an import does both in one (`Restored`). The
synchronous controller is the case where calls do not overlap.

## 3. Runs

| run | instance | what it shows |
|---|---|---|
| `create_v1` | 2 processes, 3 threads, 2 names per call, 1 crash | the target is complete and flushed, `Ok` survives a power failure, only the owner removes a temporary file, `PublishOnce` is implemented |
| `create_v2` (violation) | 3 processes of one thread | without the process id in the name, a late `Cleanup` hits the temporary file of another process and an incomplete file is linked |
| `training` | 2 commands on 3 paths in opposite orders, 3 rival acts, 1 crash | nobody's entry is lost, a response is true, an export is announced first, results never stand without their archive, a failure leaves nothing |
| `directory` | 2 callers, each of any of the 3 kinds, on either platform, 3 rival acts, 1 crash | `PublishOnce` is implemented for readers that begin with the index, with errors of save and export that tell nothing; an error leaves all or nothing; no rollback takes what belongs to another |
| `methods_identity` | 2 threads, 6 kinds of request, 3 libraries at 2 paths, 1 change | one library per process, a success was served by the pinned bytes, no archive runs on too old a library, every call returns |
| `methods_host_library` (violation) | 1 thread, a host library | the library that is asked for its ABI is not the one that executes |
| `archive_reader` | 4 archives of 3 versions in 2 files, 2 overwrites, 1 rename | V1 returns a snapshot, an untorn load of any version does, a replay executes the expected archive |
| `archive_store` | requests of all versions, each with one change of the request or of the file, read by every loader; texts of up to 2 open containers | what is loaded is closed and pinned by its manifest, what is written is readable, refusals come at the promised stage and in the promised kind, the scan accepts exactly the grammar, views account for the members |
| `archive_round_trip` (violation) | the same | the V3 writer publishes an archive that no reader accepts |
| `portable_session` | every definition of up to 3 steps out of 21, every number at its edges; sessions of 4 definitions, 4 operations, 1 change of file or library | the plan is the definition, preprocessing happens once, a session is consistent wherever it came from, a saved one loads, the best variant is exported, handles are owned and released, the attested library replays, every operation ends |
| `role_pipeline` | every recipe of up to 2 of 7 methods, parameters of all 6 types, 9 targets, 1 change of the envelope | an untouched envelope gives the same pipeline and the same labels back; no change gets one accepted that contradicts its states or has a class without a label |
| `estimator_controller` | 4 overlapping calls of 7 kinds, 2 folds, 2 variants, 2 prediction datasets, 1 error | predictions bear the ids of their rows, come from an estimator fitted on the cohort they need, and from the latest one |

**Bounds.** Every bound is a constant: calls per thread (`MaxCalls`), temporary names (`MaxTries`;
64 in the code, and the run with 2 reaches the end of the loop), counter values (`MaxSeq`, large
enough for every attempt of the run), crashes, acts of rivals, changes of files, overwrites
(`MaxWrites`), renames (`MaxMoves`), operations of a session (`MaxReplies`), prediction datasets
(`MaxSets`), errors of the host (`MaxErrors`).

* The publications and the identity relate pairs of actors and one file between two accesses, so
  two actors per role, with a third thread where two processes and two threads of one process are
  needed, and two or three acts of the environment reach every ordering that matters.
* An archive of one member has three regions, enough for a region already read and one still to
  be read in each pass of `ArchiveReader`.
* In `ArchiveStore` each request has at least two references, so that a closure can be broken at one
  of them; the size limits are small numbers (`MaxMember = 10`, `MaxPath = 9`) with contents and paths
  on both sides of each; one change is enough to break each rule alone, and rules are conjuncts.
* `MaxNesting = 2`, `MaxVariants = 4`, `I32Max = 15` stand for 64, 10 000 and the width of an `i32`; the
  definitions reach each limit, the number below and the number above it.
* Three steps are a splitter or a preprocessing step, another one, and a model, in every order and
  with every malformed variant of a step in every place.
* One replacement or one edit of a session file separates two operations; two of them would only
  give back an earlier state or a file that the first could have given.
* Four calls of a controller are the fewest of which one can upset the order of two others for a
  fourth that only looks: with three, `LatestServes` holds for the mutant that awaits between `Remember`
  and `Select`.

The proofs remove these bounds from every safety property of a passing run but `TextExact`; the two
liveness properties remain with TLC (section 4). The type invariants are theorems too; `TypeOK` of the
portable session is checked by a run as well, the others are not checked twice. `Store = "Session"` of
`AtomicCreate` is covered by the proofs and not by a run of its own.

**Symmetry** is used where TLC checks invariants and step properties only: threads of one process
(`MCAtomicCreate`), files (`MCArchiveReader`) and folds (`MCEstimatorController`) are interchangeable, no
property or constant tells them apart. `PublishOnce!Spec` has no fairness, so `PromiseKept` is a step
property too.

**Deadlock** is checked in `role_pipeline`, whose program can always go on with another recipe. In the
other runs calls, operations or changes are bounded and every process may end.

**Fairness.** Two properties need it. `Returns` assumes `WF_vars(Step(t))` for every thread of
`MethodsIdentity`: a thread that can run is scheduled. Weak fairness is enough for the mutex because
each thread makes finitely many calls: the lock is finally free for good unless its holder keeps
it, and no one else can take it infinitely often. The property would fail if a call locked twice
or returned with the guard held. `OperationsEnd` assumes `WF_vars(Progress)` in `PortableSession`: an
operation runs in the thread of its caller, with no lock and no wait, and a routine of libn4m
returns, with a result or an error. No other module claims progress: file system calls may fail
at any time, and an estimator of a JavaScript host may never settle.

## 4. Proofs

| module | theorems | argument |
|---|---|---|
| `AtomicCreateProofs` | `TypeCorrectness`, `Completeness`, `Durability`, `Ownership`, `Refinement` | a name a thread holds was numbered by its process below the current counter (`HeldNumbers`), so two calls hold two names (`HeldDistinct`), a held name stands for its holder's inode (`HeldEntries`), which has no other name (`OneName`); hence `Link` publishes the linker's own, flushed bytes, and each step is a step of `PublishOnce` or stutters |
| `TrainingPublicationProofs` | `TypeCorrectness`, `TruthfulResponse`, `AnnouncedExport`, `ArchiveBehindResults`, `NothingLeft`, `Owners` | what a command owns, has answered and has behind it in its rollback follows from its label (`Flow`, `RollbackOf`); an entry it placed is in `owned` from the step that placed it (`Placed`), and what it checked or reserved is what it acts on while no rival enters the window (`HeldBy`); a rollback passes the entries in reverse, so each label tells which are gone (`Emptied`, `Kept`) |
| `DirectoryPublicationProofs` | `TypeCorrectness`, `Owners`, `Refinement`, `NothingLeft` | `create_dir` is exclusive and a reservation in use is left alone, so at most one caller fills the directory (`Directory`, `Place`); it fills in its order, so that the index is there only when all members are (`Position`, `Filled`, `Indexed`); what stands was identified before it is taken back (`Checked`); what is published stays whole until it is withdrawn (`Standing`); under `Shown` and `Told` every step is one of `PublishOnce` or stutters |
| `NativeExecutionProofs` | `TypeCorrectness`, `OneLibrary`, `Service`, `AbiRequirement`; `ReaderTypes`, `ReaderSnapshot`, `AnchoredLoad`, `AnchoredReplay` | the library that executes: the lock is held exactly by the thread that fixes (`LockInv`), nothing is loaded while the identity is open (`OpenInv`), the fixing thread loads only what it attested (`FixingInv`), a fixed identity agrees with runtime and snapshot (`FixedInv`), each call knows its library to be the identity (`CallInv`). The archive that is executed: a double collect, so bytes of the first SHA-256 that are still in the file are the bytes that were read (`FirstPass`) and the second SHA-256 confirms what was read (`SecondPass`); without a tear what was read is what the file holds (`Untorn`) |
| `ArchiveStoreProofs` | `TypeCorrectness`, `Closure`, `Pinning`, `DispatchFirst`, `CapabilitiesLast`, `Viewing`, `Reading` | each stage leaves behind what it has decided (`LoadInv`): the payloads are the members of the preflighted file, the verdict of the dispatch is on the manifest held, the one of the verification on manifest and payloads; per version, a dispatch that passes makes inventory, references and members cover each other, and a verification equates every digest with the bytes; two loads of one manifest therefore hand out one set of payloads. `Reading`: a file nobody touched is what its writer laid out (`Legible`), what was taken from it is what was written (`ReadInv`), and no stage refuses it (below) |
| `EstimatorControllerProofs` | `TypeCorrectness`, `Identities`, `Training`, `Serving` | what a call has follows from where it is (`Stage`), and its ids are those of its rows (`Keyed`); what the controller remembers was fitted on the whole set (`Remembered`), so whatever serves a call suits it (`Suited`), and no step fits an estimator twice. `Serving`: a call that is over is not in the queue (`Line`), and while a fit that has remembered its estimator waits to select its variant, whoever remembers a later one for that variant stands behind it (`Selecting`); hence what is remembered or selected is never older than what a call saw made when it began (`Newer`) |
| `PortableSessionProofs` | `Invariant`, `TypesHold`, `HandlesAreSound`, `RuntimeIsPinned`, `SavedAlwaysReloads`, `SessionsAreSound`, `BestIsSelected`, `PreprocessingIsOnce`, `PlansAreFaithful` | the calls a routine has still to make are ready for what is alive (`HandlesInv`); what an operation has done to its data is a function of the number of tasks it has done (`RunAt`, `LoadAt`, `PredictAt`); what stands in the file and in the session depends on what was edited alone (`FileAre`, `SessionAre`), and the last answer still tells of both (`ReplyAre`); what has been read of the first items is an open plan exactly when they may stand before a model (`ReadAt`), and stripping twice strips once (below) |
| `RolePipelineProofs` | `Invariance`, `Faithful`, `Sound` | ids are the ranks of the names (`Encoding`), so a table of all names serves each id as its name; a pipeline fits its recipe and its table, fitted or loaded (`IsPipeline`); an envelope holds the document of its `source` until it is changed (`EnvelopeInv`), and reading a document undoes writing it (`RoundTrip`) |

None of the safety invariants is inductive alone. `TargetComplete`, for example, needs to know that
the name being linked still stands for the linker's inode, which depends on the numbering of names
by other threads. Each proof module states its strengthening as a conjunction of named parts,
proves that the initial states satisfy it and that every action keeps it, one step per action, and
that it implies the property. The two `Refinement` theorems map every step to a step of `PublishOnce`
or a stutter.

Five proofs are longer than a case split over actions.

*The portable session.* A routine of libn4m is a list of calls, and any of them may fail. `Ready(calls,
alive)` says of the remaining list that each call is given what is alive or made before it, makes
what is not alive, and begins with a handle that outlives the others. It holds of each routine, of
a list put together of two (`ReadyConcat`), and of the rest after each call, so `HandlesSound` needs no
enumeration of failures. For the data, the tasks of an operation are a list fixed by its plan
(`RunAll`), and its rest is a suffix of it: `Done` is the difference of the lengths, and `RowsAt`,
`VariantsAt`, `SelectedAt` and `ExportAt` give what the rows have been through, the variants, the choice
and the export after `d` tasks. A step takes `d` to `d + 1`; this is where the order of transforms,
training part first, and the branch on `EmbeddedSpec` matter. `BestSelected` is an induction over the
variants. An edit can only do what `FileAre` allows to the kinds of edits made so far, and a load or
a prediction that succeeds proves what its checks establish (`Genuine`), so a session is sound
whatever happened to its file, and an unedited file passes every check but those of the library.

*The plan of a definition.* `Portable` says of a whole definition what may stand where; the planner
reads item after item. Between them stands `ReadAt`: after `n` items the plan is open, with one
splitter at most and one preprocessing step for each of the `n` that is one, exactly when each of
them may stand before a model (`ReadNext`, `AtMostOne`, `KeptNext`). The last item closes the plan or
refuses it (`ParseIs`), and a sweep has the numbers its stride reaches and never steps beyond
`I32Max` (`ComponentsReach`). That an export is planned as its text was needs that normalising is
idempotent: stripping removes comments level by level, so it changes nothing where no comment is
left (`Again1` to `Again6`, six levels being what the planner looks into), and a normalised definition
loads as itself (`LoadIs`).

*The envelope of a role pipeline.* The names of the classes are put in order, which is total, so the
number of names before a name is a bijection onto the ids (`Ranks`, `RankBijection`): every id has one
name and every row gets the id of its own (`Encoding`). A fit that keeps all names in its table and
only the ids of the rows that are left in its state serves every one of them as what it meant,
whatever a sample filter took away. Written and read, each field comes back (`DocumentIs`,
`RoundTrip`), because a pipeline satisfies every check of the reader (`IsPipeline`); an older document
does too (`OlderIs`). For the other changes it is the other way round: what passed the checks is a
pipeline (`LoadIs`), one that claims to be genuine only if table and states are those of the writer
(`MeantRenamed`, `Carried`).

*Reading what was written.* Offsets and budgets are sums over lists (`Total`). By induction they are
natural numbers, monotone, and additive, so regions are laid one behind the other (`Laid`) and
`Located`, the budgets and the bounds of the preflights hold of what `StoredZip` lays out. The document
nested to the depth of the manifest passes the scan: its states are given one by one (`ScannedDoc`),
and it parses when its depth is within `MaxNesting`. Per version, what the writer demands and derives
implies what the dispatch and the verification ask: derivation replaces digests and keeps paths,
slots and shape (`V1ShapeKept`, and the lemmas of V2 and V3). V1 takes most steps, because its
reader validates migration, signature and workspace against what a derivation may have changed.

*Lists.* The library states induction for an operator that is a parameter, which the installed
provers cannot instantiate. Inductions are therefore done on sets: of the numbers at which a claim
fails, the least one is not the first and has no predecessor. The recursive definitions involved
(`Total`, `Scan`, `Retained`, `Best`, `Stateful`) are functions over an interval whose defining equation is
proved once.

**Assumptions.** The constants carry the named assumptions of their modules, which TLC evaluates in
every run. Beyond them:

* `AtomicCreateProofs` assumes `SafeNaming`: V1 and session stores, or V2 with all threads in one
  process; `create_v2` shows what happens otherwise. Crashes and restarts are unlimited, with the
  reuse of process ids.
* `ArchiveBehindResults` and both `NothingLeft` assume `Reliable`: the steps of a rollback succeed where
  their entry is there. The code ignores their errors (`archive_command.rs:421-423`,
  `publication.rs:55`, `tuning.js:104-106`).
* `Owners` and `NothingLeft` of the training, and `Refinement` and `NothingLeft` of the directories, assume
  `~RivalInWindow`: a rival does not act between a check and the act that relies on it, or on a
  reservation that a call is filling. The rollbacks remove by path after their check, so without
  this nothing can be said.
* `Reading` uses that a manifest may not be longer than a member (1 MiB and 128 MiB in the code) and
  that `manifest.json` is itself a path that `validate_member_path` accepts (`ContainerAssumption`); that
  a token of a scalar is no delimiter and no malformed token a scalar (`TextAssumption`). Nothing else
  is assumed: `Readable`, in the property itself, names the three cases the code does not read back.
* The session proofs use that widths, sizes and `MaxModel` are positive and that a model of one byte
  fits a session file (`PerByte <= MaxExport`; both limits are 64 MiB in the code), that `None` is no
  handle (`NoneAssumption`), that a JSON array is a sequence, down to the six levels the planner looks
  into (`TextsAssumption`), that the portable classes are four lists of aliases of which none begins
  with `n4m:` (`ClassesAssumption`), and that two components, the default, are an `i32` (`WidthAssumption`).
* The role pipelines use that a model of the native manifest has a state (`CatalogueAssumption`), that
  the items of a recipe and of a table are sequences (`DocumentsAssumption`), and that what stands for a
  missing field is no class id, no name and no reason of a refusal (`NoneAssumption`).
* `AbiRequirement` assumes `HostLibs = {}`: no other library is selected in the core's n4m instance;
  `methods_host_library` shows why.

**Model-checked only.**

* `Returns` and `OperationsEnd`: liveness is out of the reach of the prover.
* `TextExact`: the grammar it compares the scan with (`Documents`) is a bounded one, of at most two
  members per container, so the statement is one about the instance and not true for longer texts. What
  is proved of the scan is the half that `Reading` needs: it accepts what a writer serialises.
* The violations.

## 5. What the external code is assumed to do

* `hard_link`, `create_new` and `create_dir` are atomic and refuse an existing name; `rename` of a
  directory replaces an empty one; on Windows `fs::rename` of a file replaces a file; a flush of a
  directory makes all its entries durable.
* An n4m instance keeps the first library it loads and fails to tell an ABI version before.
* Equal SHA-256 mean equal bytes, equal CRC32 of members of one archive likewise.
* A process id in a temporary name belongs to one live process at a time.
* A writer never restores bytes that a region of an archive held before: between the two SHA-256 of
  V1 such a rewrite is invisible, by the nature of the comparison.
* serde_json keeps the last of two equal keys and accepts the documents of the JSON grammar.
* Any routine of libn4m may fail. The pipeline it embeds in a model is SNV followed by a smoothing
  Savitzky-Golay filter with its fixed settings, it predicts for matrices of the width of the model,
  and the rows of a split are its own choice.
* The role pipelines of libn4m take labels or ids for a classifier and values for a regressor, let
  sample filters take rows away, and refuse states whose number, method, parameters or width differ
  from the recipe, and names that do not fit the width. Its predictors have a state, and it does not
  fit on an empty training set.
* Jobs of a JavaScript host run first in, first out, each to its end. The host makes a new estimator
  at every call of `createEstimator`, and leaves the arrays of ids of its FoldSet and of a dataset
  alone while calls are under way (the controller keeps them by reference).

## 6. Where the code and its text disagree

Found by a run:

1. `archive_v2.rs`: temporary names without a process id (`create_v2`).
2. `native_methods_replay.rs`: the ABI is asked of the core's own n4m instance, whose refusal of the
   attested library is dropped (`methods_host_library`).
3. `archive_v3.rs`: the writer accepts a member path that is not in normal form C, which every
   reader refuses (`archive_round_trip`).

Found by reading, with the line where it can be seen; the models follow the code:

* `native_methods_replay.rs:534`: "the first successful" call fixes the identity; a first call whose
  ABI preflight failed does too (497).
* `native_methods_replay.rs:1202`: the conformal presentation of V2 replays without asking for the ABI
  that the archive demands.
* `archive_command.rs:465-467`: "the original validated bytes" are pinned by a SHA-256 that V2 and V3
  compute after the validation (`archive_v2.rs:283`), so that a file overwritten in between is
  executed as its successor. The identity anchor holds (`MethodsAnchored`).
* `archive_command.rs:416`, `tuning.js:103-104`: identities are compared first and entries removed by path
  afterwards.
* `publication.rs:52-53`: "a competing writer's entries remain untouched", but the move of Windows
  replaces an entry of the same name.
* `tuning.js:91`: an `lstat` that fails after the `mkdir` leaves the empty directory, since the
  reservation is still unknown.
* `results.rs:343`, `tuning.js:111`: an error of the re-opening, or of the final `rm`, is returned as an
  ordinary error although the experiment or the export stands. Python does the same (`_results.py:276`,
  `_tuning.py:90`). A caller who tries again is told that the destination exists.
* `archive_command.rs:532`: `publish-directory` writes its response before it publishes, and nothing
  takes the response back when the publication fails (`ExportAnnounced` is about the order only).
* `archive_v2.rs:283`: nothing notices a file that is overwritten between the payloads and the SHA-256;
  `Anchored` is about the loads that were not torn.
* `archive_v1.rs:3022`: `find_eocd` stops with an error at a signature too close to the end, so an archive
  whose central directory begins at offset 0x06054b50 cannot be read back (`EndMark` stands for it, and
  `WrittenIsReadable` excludes it by name).
* `archive_v1.rs:36`: readers refuse manifests nested deeper than 64; the writers do not look at the
  depth of the extensions they are given.
* `archive_v1.rs:2944`, `archive_v2.rs:2047`: a path has at most 512 characters in V1 and 512 bytes in V2.
  `load_archive` runs the preflight of V2 first, so a long path outside ASCII that `load_archive_v1`
  accepts is refused by it, though V1 "continues through its frozen reader" (`archive_v2.rs:265-266`).
* `lib.rs:963`: the library is opened by path after its bytes were attested.
* `lib.rs:865`: a score that is not a number compares as equal, so a first variant without a score is
  selected over any other.
* `lib.rs:1361`: nested rows of different lengths are accepted when their total is right.
* `portable_session.rs:240`: a session file is linked without a flush of its directory.
* `js-estimator-controller.js:440`: `PREDICT` of a variant that was refitted earlier is served by that
  estimator also after an `importModel`, which selects `base`.

## 7. Not modelled, and why

* **Worker supervisor.** It starts one worker process and removes one private directory; the model
  would be of the operating system's process control.
* **Dense tuning, workflow, conformal calibration, dataset training, generation.** Admission of requests,
  then a sequence of upstream calls on one thread; checkpoints have the format of the upstream
  optimiser. Native training is one step of `TrainingPublication`, because the core sees nothing
  between its start and its result.
* **The other commands** of `archive_command.rs` and the parser of its options, and the validation of
  requests and packages in `native_methods_replay.rs`, which is delegated to DAG-ML.
* **The flattening of datasets and the static capability manifest** of `lib.rs`: data, no state.
* **Adapters of JavaScript libraries, the factories built on the controller, and the derivation of its
  manifest.** They hand arguments over to a library.
* **Browser tuning and workspace, Python, MATLAB and native bindings.** Conversions; the search and the
  ordering of its persistence are in the upstream optimiser, not in this repository.
* **Power failures** are part of `AtomicCreate` only; training and directory publications do not flush
  their directories and promise no durability.
* `multimodal-replay-inputs` writes four files into a directory without any publication protocol.

## 8. What could come next

A grammar for `TextExact` that has texts of any length, with the scan proved to accept exactly these;
a model of the resume of a study once its checkpoint is defined in this repository; the directory of
`multimodal-replay-inputs` if it is given a protocol.
