# A verification of Theme Forge Stellar Burst (TFSB)

TFSB compiles small SVG assets deterministically, installs them transactionally
and detects drift; the same code serves editors ("Studio") through a
JSON-RPC-like session over standard input and output (TypeScript, Node 22 or
later). Its answers are only as good as the protocols under them: directories
replaced by rename, locks, rollbacks, one-time tokens, reference counts,
shutdowns, and on the checkpoints, receipts and manifests by which a later
command knows what an earlier one decided. This directory models these in TLA+,
checks them with TLC on small instances and proves the most important
invariants with TLAPS for every size.

`tlc -workers 2 -config <run>.cfg <module>` repeats a run of the table below and
`tlapm <module>Proofs.tla` a proof. `PROJECT.json` lists the runs with their
properties, the source lines every definition models, a mutation of the code
that breaks each property, the hazards, the findings and the theorems. Paths
below are relative to `src/src/` of the repository unless they start with
`src/`.

## 1. The system and its parts

There are two kinds of process. A *command* (`tfsb init`, `edit`, `build`,
`install`, ...) reads a project, plans, and publishes files; commands of one
user, or of several, meet only in the file system. A *Studio service* is one
long-lived Node process with one client; its requests interleave at awaits and
end in the same publishing code.

| Component | State it keeps | Operations that change it | Hard behaviour | What makes it correct |
|---|---|---|---|---|
| **Canonical transaction** (`transaction.ts`) | the root directory: lock file, `.tfsb`, `.tfsb-stage-*`, `.tfsb-backup-*` | `executeCanonicalTransaction`, `withCanonicalMutationLock` | other processes and humans between any two calls; failing calls; death; power cuts between a rename and its fsync | a complete tree is always on disk, one mutator, no edit lost silently, the diagnostic is true, success is durable |
| **Plan registry** (`service-protocol/plan-registry.ts`, `mutation-methods.ts`, `brand-methods.ts`) | records by token, apply lane, pending disposals, counters | register, discard, expire, apply, shutdown | an apply interleaves with expiry, discard, cancel, other applies and shutdown | a token is used once and lost by nothing else; every plan disposed once; counters agree; a cancelled apply changed nothing |
| **Authority ledger** (`service-protocol/authority-ledger.ts`) | leases, retained bytes, native slots | reserve, resize, release | released from five places | charged exactly for what is held |
| **Read scheduler** (`service-protocol/session.ts`) | active map, queue, running count, lane set | submit, cancel, cancelAll, settle and drain | a hand-written queue with two limits and lanes | serial lanes in FIFO order, nothing stranded, a cancelled request never runs |
| **Studio server and session** (`service-protocol/server.ts`, `session.ts`, `server-cli.ts`) | handshake, nonce failures, the map of applies, shutdown and exit flags | every message, end and failure of the input, a timer | four ways to end that overlap | handles released only when quiet; exit code 0 means a whole shutdown; every request answered once; the process ends |
| **Handle registry**, consumer source authorities (`service-protocol/handles.ts`, `brand/consumer-source.ts`) | records, carriers with reference counts, leases of requests and plans | open, lease, combine, plan, dispose, clear | handle, request and plan share one open file; overlapping disposals | a carrier is open while anybody holds it, and closed and uncharged afterwards |
| **Build publication** (`build.ts`) | build directory, stage, backup | `planBuild`, `executeBuild` | failures before and after the promotion share one catch | a whole build always exists, the outcome is true |
| **Install publication** (`install.ts`) | destinations, their stages and backups | `planInstall`, `executeInstall` | many files, no atomic replacement | no prior file is lost until all are replaced; edits survive |
| **Preview galleries** (`preview.ts`, `workspace-preview.ts`) | gallery directory, stage, backup | stage, promote | as the build, with another catch that keeps a promoted gallery | a gallery that was promoted stays, a foreign directory is never replaced |
| **Consumer installation** (`brand/consumer-install.ts`, `brand/consumer-plan.ts`) | outputs, consumer lock, stages, backups, journal | `plan` (install, sync, adopt), `executeOutputs`, `inspectState` | outputs first, lock last, death in between, a rollback that itself fails; planner and inspection read the same lock with code of their own | outputs and lock agree or a journal says what is half done; no call drops what an earlier one installed; what was installed is in order |
| **Raster export** (`brand/export-plan.ts`) | image, receipt, stages, backups, journal | `executeRasterExportPlan` | the same sequence with fewer looks | as above |
| **Scene, bundle, shard publication** (`scene-files.ts`, `bundle.ts`, `brand/brand-bundle.ts`, `shard.ts`) | one file, its stage and backup | link or rename into place | exclusive creation, replaced targets, undo by name | nothing foreign is overwritten, a published file stays |
| **Import and directory snapshots** (`importer.ts`, `directory-snapshot*.ts`, native module) | a plan, a native session, records of files and directories | plan, check, execute, dispose | a walk and a check take many looks while the directory is edited; two executes share one plan | what is imported is what the source held at one moment of the promotion |
| **Reconciliation** (`reconcile.ts`, `reconcile2.ts`, `reconcile-directory.ts`, `classifier.ts`, `diff.ts`) | one checkpoint per asset and companion in the provenance | plan, apply with directives | three planners, one per schema and source, over many rounds of edits, omissions and returns | an edit or a decision is not lost, a settled item stays settled |
| **Derived assets** (`brand/derive.ts`, `brand/recipes.ts`) | targets and their receipts | `planBrandDerivation`, `inspectDerivedAuthority` | chains of recipes; tokens, recipes, sources and targets are edited by hand | check passes only what is up to date, derive overwrites nothing drawn |
| **Brand archives** (`brand/brand-bundle.ts`, `brand/brand-import.ts`, `brand/qa-baseline.ts`) | two manifests over the files of an archive | bundle, import, baseline update | bundler and importer check the same relations by different means | every archive imports, every import bundles back |
| Canonical edits, formatting, migration, workspace, provenance, source analysis, archive containers, scenes, brand QA, wire format, evidence, command line, tools | none that outlives a call | pure or read-only | data, not order | determinism, round trips |

How they interact:

- *Calls.* Canonical mutations (edit, import, reconcile, derive, the consumer
  adoption) and `plan.apply` all end in `executeCanonicalTransaction`; build,
  install, consumer install, preview and export take the same lock file through
  `withCanonicalMutationLock`. Scenes, shard manifests, bundles and workspace
  previews take no lock.
- *Shared state.* The lock, `.tfsb` and the build directory are shared by
  processes; the ledger is shared by the plan and handle registries of one
  session; a carrier by a handle, the requests that lease it and the plans they
  leave behind.
- *Messages and callbacks.* The server turns a message into a task of the read
  scheduler or into an apply of the plan registry; the settled promise writes
  the answer. A shutdown waits for plans, scheduler, applies and handles in
  this order.
- *Records.* Reconciliation, derivation and packaging are sequential programs
  that meet over time: what one writes into provenance, receipts or manifests is
  all that the next one knows.
- *Nobody's cooperation.* Humans and version control edit `.tfsb`, sources,
  build and destination files without any lock.

## 2. Modules

```
DurableTree  <--refines--  CanonicalTransaction        AuthorityLedger
                                                         ^          ^
PublishedFiles                                   PlanRegistry   HandleRegistry
   ^        ^
BuildTransaction  InstallTransaction             ReadScheduler
        ^            ^                                ^ (INSTANCE)
         Publication                             StudioServer

OutputFiles                                      Derivation
   ^        ^                                         ^ (EXTENDS and INSTANCE)
OutputTransaction  TargetPublication     BrandArchive  Reconciliation  DirectorySnapshot  ConsumerOwnership
        ^            ^                          ^            ^              ^                ^
           Outputs                                            MCSources
```

An arrow without a word is EXTENDS. `MC*` modules give TLC its instances,
`*Proofs` modules hold the theorems.

### CanonicalTransaction (`executeCanonicalTransaction`, transaction.ts:478-618)

- *State.* `dir` is what the root directory shows now: who made the lock, the
  tree called `.tfsb`, and each call's stage and backup. `exposed` is the set of
  directories a power cut could leave: every change of a directory entry adds
  its result (`Change`), and an fsync of the root collapses the set to `{dir}`
  (`SyncRoot`). `whole` are the trees that have all their files. `pc`,
  `expected` (the planned-from snapshot), `backupCreated`, `promoted`, `cause`
  (the error in flight) and `code` (the diagnostic the call ends with: the same,
  or that of a cleanup that failed after it) are the locals of each call.
- *Data.* A tree is named by who made it, because the code compares trees by
  snapshot digest and never interprets them here.
- *Actions* follow the function: Plan, CheckResidue, AcquireLock, CreateStage,
  WriteStage, CompareSnapshot, Recheck, MoveOld or MoveNothing, Preflight,
  Promote, SyncPromoted, RemoveBackupFiles, RemoveBackupDirectory, SyncCleanup,
  Unlock. Each call that can fail has a twin that fails, and the two catches are
  Rollback, RollbackBlocked, SyncRollback and RollbackFails, then CleanStage
  and CleanStageFails. A failing recursive removal may have deleted some of the
  files; a failing removal of the lock may have left it or find it gone.
- *The truth of the diagnostics.* `Truthful` relates the code a call ends with to
  what it left: the new tree, the stage, the backup (now, and after a power cut)
  and the lock. With ROLLBACK_FAILED the backup is there exactly if the rename
  back did not succeed; the message says otherwise (section 6).
- *Environment.* `Crash(t)` (process death: files stay, lock too), `PowerCut`
  (any directory in `exposed`), `HumanEdit`, and `Recover(t)`, the manual
  recovery that the RECOVERY_REQUIRED diagnostic asks for. A plan may be made at
  any moment, also while another call has `.tfsb` moved away.
- `LateEdits` says whether an edit may hit the window between the comparison
  (line 536) and the rename (549). With TRUE, `NoSilentLoss` is false (finding 1)
  and so is the compare-and-swap of DurableTree, so the passing run uses FALSE.
  NothingLostSilently and Refinement are proved for FALSE, the other theorems
  for both values.

**DurableTree** is the promise: a project has one tree; a transaction takes
effect at most once and only while the tree is the one it was planned from (a
compare-and-swap); a power cut may bring back only a tree not yet made
durable. The mapping reads `Logical(dir)`: `.tfsb`, or, while the name is
missing, the backup, which is the tree somebody who completes the interrupted
move finds. `ImplementsDurableTree` is checked by TLC and proved
(`Refinement`).

### AuthorityLedger, PlanRegistry

`AuthorityLedger` has the leases and the two counters with `Admits`, `Relet` and
`Release`. `PlanRegistry` extends it. A handler runs without interruption up to
its next await, so an action is what happens between two awaits:

- *planning* (PlanRequested, PlanningFails, PlanDropped) and registration
  (RegisterClosed, RegisterRefused, Register), which sweeps expired records
  first, as the code does (expiry at equality with the limit);
- *apply*: ApplyBusy (before the token is looked at), ApplyInvalid,
  ApplyMismatch (a wrong digest keeps the token), Authenticate (spends it),
  Revalidated, Stale (a target that changed: found by the revalidation, by the
  executor, or by its look after the first rename, build.ts:226), Promote (the
  executor's commit callback, the last moment a cancel is honoured),
  ApplyCancelled, ApplyFails, NothingToDo, Applied,
  ApplySettles (the finally, which disposes);
- Discard, DisposalSettles, Cancel, Tick (the clock), HandleOpened (another
  user of the ledger), and Shutdown, PlansClosed, SessionIdle.

A token is the plan it was issued for, since tokens are 32 random bytes. A
wrong binding or nonce is rejected on the same path as an unknown token.
`Checked` are the plans whose method ends in a `check(signal)` after the
planner (brand-methods.ts:274).

### ReadScheduler

Every method of the class: `Submit` with its four outcomes (duplicate id, busy,
started, queued), `CancelQueued`, `CancelRunning`, `CancelAll`, and `Settle`
with the drain. `Drained` computes what one walk of the drain loop starts. The
array is a set of queued requests ordered by tickets.

### StudioServer

`INSTANCE`s ReadScheduler and adds what the process does around it: initialize
and initialized, nonces (three wrong in a row close), requests and the separate
map of applies, cancels, shutdown with its four waits (`ShutdownStep`) run by
the request and by the end of the input (`Callers`), exit before and after the
shutdown's answer, failure of the input, end of the input with its five-second
timer, and the rest of a chunk that is still handled after a close
(`moreInChunk`). The registries' own shutdown is one step each, enabled by what
it waits for; PlanRegistry and HandleRegistry model the inside.

### HandleRegistry

`opening`, `records`, `carrier` (none, open, closing, closed, leaked),
`references`, who holds what (`held`, `released`, `awaiting`), and the progress
of two disposals of the registry (`left`, `current`). A disposal walks its
records with an await at each; a lease of several sources revalidates them with
awaits and fails when one of them is gone (LeaseFails). `PlanLeased` is the
plan's own reference on the carriers, which outlives the request's. Disposals
take the records in any order, more than the insertion order of the code.
"leaked" is the carrier of an archive that `createPackage` refused: nothing
disposes it (consumer-source.ts:188).

### PublishedFiles, BuildTransaction, InstallTransaction, Publication

`PublishedFiles` has what both publications share: the lock
(`withCanonicalMutationLock`, transaction.ts:68-104), the build directory, and a
world that fails calls, kills processes and edits files. `BuildTransaction` is
executeBuild (build.ts:185-250) and `InstallTransaction` executeInstall
(install.ts:182-267), with the flags the code undoes from and the loops over
items, forward when installing and backward when rolling back. `Publication`
composes two builds and an installation that reads the build directory, an
editor without lock, and kills. Power cuts are left out here: neither function
promises anything about them beyond the syncs that its catch reacts to.
`late` collects the places where an edit came after the code's last look, and
the build directory after a failed removal of a backup: from then on the code
has nothing to restore from. `OutcomeHonest` says what each end leaves, the ends
after such a removal included: `Remains` is what the catch can still find of the
prior build, and a build that failed has put back that and no more.

### OutputFiles, OutputTransaction, TargetPublication, Outputs

- *OutputFiles*: the places a project's other programs write to (two outputs and
  the consumer lock, an image and its receipt, a file, two galleries), named by
  who wrote them, and the lock.
- *OutputTransaction*: `executeOutputs` (brand/consumer-install.ts) and
  `executeRasterExportPlan` (brand/export-plan.ts) share one sequence: lock,
  residue scan, look, stage every item, journal, then per item look, back up,
  link, drop the stage, sync; the record goes last. An error undoes the items
  from the last to the first. Where the two differ (the export looks before the
  lock, looks only at its next item, and restores a backup without comparing
  it), an action says so by `x \in Consumers` or `x \in Rasters`. Every call
  that can fail has a failing twin. `forgotten` is a destination that was linked
  but never counted as promoted, because the removal of its stage failed. A stage
  is on disk before the code lists it (`staged`), and a journal before it counts
  as written: `OnlyUncounted` is what a call that was rolled back may leave.
- *TargetPublication*: `publishSceneBytes`, `publishShardManifest`,
  `executeBundle`, `executeBrandBundle`, `executePreviewPlan`,
  `previewWorkspace`. All stage beside the target; scene, shard manifest and
  unforced bundle link to a free name, a forced bundle and a gallery move the
  old one to a backup first. An unforced brand bundle is `executeBundle` with
  one more call that may fail and has no kind of its own.
- *Outputs* composes any programs of the nine kinds over the same files, lock
  and residue, with kills, failing calls, and people who write or remove any
  file. `touched` says what others last did to a file, `late` that it changed
  past the last look of a program about to act on its name; properties excuse
  exactly these.
- Left out: created parent directories and their removal, and the details of
  lock cleanup. A plan reads all its files in one step, since the later looks
  compare against it.

### Reconciliation (reconcile.ts, reconcile2.ts, reconcile-directory.ts, classifier.ts, diff.ts)

One item, since the planners decide item by item. `canonical`, `source` and
`record` (the checkpoint: digests of both at the last decision, and whether it
aligned them or kept the canonical side) are the code's; `byHand` and `settled`
are ghosts. `Schema1Result` (with `classifyPairedCheckpoint`), `Schema2Result`
and `DirectoryResult` are the three planners: each gives Refused or the next
content and checkpoint for a directive. `Relation` is what `tfsb diff` says of
the item. A plan and its execution are one step: CanonicalTransaction and
DirectorySnapshot show that a plan whose project or source changed is refused.
Left out: renames and moves, normalization policies, records migrated from an
older schema, a change of the source's kind, and digests that differ by
formatting only.

### DirectorySnapshot (importer.ts, directory-snapshot.ts, native module)

A root with one subdirectory and a file in each, and a source map. `Walk` and
`Check` list the looks of planning and of `verifyDirectoryImportAuthority` in
the order of the code; between two looks somebody may write a file in place,
replace or remove it, put another directory under the name, rename the root, or
edit the map. A stat is a node and a stamp, and each change gives a new stamp
(device, inode, size and times together). Two executes may share one plan: the
one that ends, also by failing, closes the session under the other
(importer.ts:968). `View` is what the source holds now; it says nothing of the
path, because that the path still leads to the opened root is looked at once,
at another moment of the check. Left out: external source maps, companions,
include paths, excluded subtrees and limits; symlinks occur as refused files.

### Derivation (brand/derive.ts, brand/recipes.ts)

`Expected` is what `inspectDerivedAuthority` computes along a chain of recipes,
`StateOf` its verdict, `Planned` what the planner computes instead, which reads
a receipt where the inspection recomputes, and `Derive` plan and execution. An
asset may be both a target and a source. The operations of a recipe are one
name, of which only "ink" depends on the tokens; content is a drawing and what
was done to it, and some drawings cannot take a recipe (`Unfit`). Left out: documents that do not parse, bindings that claim a
target as a source (BrandArchive has them), limits.

### BrandArchive (brand/brand-bundle.ts, brand/brand-import.ts)

EXTENDS Derivation with the brand files around the assets (bindings, exports,
one QA case with its baseline, the package with inventory and system digest, one
companion). `Bundles` is what `planBrandBundle` requires, `planBrandBundle` the
archive with its two manifests, `Imports` every relation the importer checks,
`Opened` the project it makes; both sides, and the imported project, ask the
same inspection through `Inside(t) == INSTANCE Derivation`. Before the import
somebody may change, drop or add a file of the archive, list the files anew, and
rewrite the brand manifest to fit. `brand.toml` of an archive is not altered:
the importer accepts the file of a domain that `brand.toml` disables, and no
project loads with it (brand-availability.ts:250). Left out: the ZIP container,
parsing and printing, families, roles and requirements, consumer profiles, names
and versions, limits.

### ConsumerOwnership (brand/consumer-plan.ts, brand/consumer-lock.ts)

A project that installs from packages. `brandLock` is brand.lock.json (per
package the release, the selected profiles with their parameters, and what was
installed where), `installs` and `local` are the project's own installs and
profiles, `files` the destinations, `pending` a plan. `Accepted` is every check
of `plan` for the three operations, `planned` what it leaves to be carried out,
`inspectState` the verdict of `check`, which resolves the locked profiles again
with code of its own (`validateLockedResolution`). Between a plan and its
execution another call may run or a person may edit an output, the project or
its profiles, or install the project's own outputs, which does not look at the
lock. A release and a profile are named by their digest, a selector by the file
it selects. How the outputs are written is OutputTransaction, how an adoption is
CanonicalTransaction: here each is one step, taken or refused. Left out: cycles
and depth of profiles, protected destinations, symbolic links, packages from npm
(another source of the same release), and limits but the number of profiles.

### MCSources

One configuration for the five modules that follow a project through many
commands. They share nothing but the assets of derivation and archive, so a
behaviour moves one `side` and the others rest in one state (`Rests`): the state
space is the sum of the five, not their product. `Begins` fixes the first
binding and text, which are interchangeable.

## 3. Runs

| Run | Instance | Distinct states | Shows |
|---|---|---|---|
| `canonical_replace` | 2 calls, 2 edits, 2 failing calls, 1 death, 1 power cut, with and without a tree at the start | 2.28 million | OneMutator, TreeSurvives, NoSilentLoss, SuccessIsDurable, OutcomeTruthful, ImplementsDurableTree |
| `plans` | 2 plans and a handle that do not fit into the bytes together, 1 native slot, 2 applies, an expiry | 372 thousand | Accounted, BooksBalanced, DisposedOnce, TokenGoodOnce, CancelledUntouched, EverythingEnds |
| `reads` | 6 requests, 3 lanes, 2 running, 2 queued, an id used twice | 1.83 million | LanesInOrder, NoneStranded, CancelledNeverRan |
| `server` | 2 requests on one lane, 1 apply sharing an id, 1 running and 1 queued, 4 wrong nonces | 306 thousand | QuietAtEnd, AnsweredAndWritten, OneRequestPerId, EofEnds, EverythingAnswered |
| `handles` | 2 brand sources and 1 auxiliary, 2 leases that share a source, 1 plan, 2 disposals, 4 bytes | 37 thousand | HoldingsCounted, NothingLeft |
| `publication` | 2 builds, an installation of 2 items of which 1 exists, 3 faults, 1 kill, 1 edit | 921 thousand | NothingLost, EditSurvives, OutcomeHonest |
| `outputs` | 2 programs of the same of 9 kinds or of two kinds that meet, 2 mishaps (failing call, kill or edit) | 2.04 million | Recoverable, OneRecovery, EditSurvives, PublishedStays, ReportsHonest |
| `sources` | the five sides below | 1.06 million | ReplanIsQuiet, DiffPredicts, EditsKept; CheckIsAMoment; InspectionIsRight, DrawingsKept, DeriveSettles; BundlerMeetsImporter; OwnershipKept, PlannersAgree |
| `canonical_late_edit`, `plans_cancelled_planner`, `build_not_restored`, `reconcile_absence` | an instance that reaches the case | | the findings of section 6 |

The sides of `sources`: *rounds*, an asset or a companion in each of the three
kinds of project, 3 digests, 2 source maps, any number of rounds (6 thousand
states); *snapshot*, 2 executes of one plan and 2 edits between any looks (693
thousand); *derivation*, 3 assets, a chain, a fork and a leaf of recipes, 2 token
files, any number of edits and derives (128 thousand); *archive*, 2 bindings, 2
edits of project or archive with any number of packages, baselines, derives and
new manifests between them (227 thousand); *consumer*, two packages in two
releases, seven profiles, three projects, any calls and one change by hand (6
thousand; with 3 changes this side alone has 99 thousand and the same result).
What is interchangeable begins as one of its kind (slots, texts, tokens, fit
drawings), and on the asset no recipe starts from one drawing stands for all.

*Why these bounds.* Two canonical calls are the least that contend for the lock
and leave residue for each other; two faults let an operation fail and then its
rollback; three in `publication` let a failure, its rollback and the cleanup
fail. One death and one power cut combine with both. In `plans` each of the
limits is met by two plans or by a plan and a handle, and one tick with a
lifetime of one puts an expiry between any two steps. Six requests on three
lanes fill the two running and the two queued places from different lanes and
leave one request to be refused. In `server` lanes are ReadScheduler's business,
so one lane is enough; four wrong nonces are one more than close a session,
which the rest of a chunk can reach. In `handles` a shared and an unshared
carrier, a plan that outlives its request and two disposals give every order of
release. In `outputs` a mishap of one program and one more (an edit, or the
failure of its rollback) meet every window of two programs; a third program
would meet the lock or the same residue scan. Two kinds that share neither the
lock nor a file are not run together; and since every bundle reads the brand lock
and the receipt in the same way, one kind of bundle runs beside an installation
and one beside an export. Three digests let item, source and
checkpoint all differ; a chain of two recipes has an asset that is target and
source, a fork has siblings. The packages of the consumer differ in what makes
two of them meet: a profile composed across packages, one file below the path of
another, a file that both offer, one that a later release adds and one that it
drops; with them every status of the inspection occurs that its sources allow.
In the snapshot, the walk and the check compare stamps, so one edit changes a
look and a second one changes another or hides the first. The counters
`MaxFaults`, `MaxCrashes`, `MaxPowerCuts`, `MaxMishaps`, `MaxEdits`,
`MaxChanges`, `MaxHands`, `MaxTime` and `MaxBadNonces` bound only the
environment. Symmetry permutes calls, programs, builds and contents where they
are interchangeable; the runs with liveness properties use none.

*Types* are proved rather than run where a theorem has them (section 4), as
part of an inductive invariant in DirectorySnapshot.

*Deadlock* is checked for CanonicalTransaction, which has an explicit
`Terminated` step. The other systems stop by design (a session that was shut
down, programs that finished, an archive that was refused), so their runs
disable it; that nothing stops too early is said by EverythingEnds,
EverythingAnswered, EofEnds and NoneStranded.

*Fairness.*

- `plans`: planners, executors and disposers are promises that settle, and Node
  runs ready continuations. No fairness of clients: nobody has to apply, cancel
  or shut down.
- `server`: settled promises run their handlers and the timer of the end of the
  input fires. That *tasks* end is not assumed for EofEnds (a hanging request
  must not keep the process) but is a hypothesis, `TasksEnd`, inside
  EverythingAnswered.
- The other runs state safety only.

## 4. Theorems

Seven modules hold the 45 listed theorems, and an eighth, AuthorityLedgerProofs,
lemmas two of them rest on; all are checked with SMT, Zenon and PTL only, from
nothing but the named assumptions on the constants: identities are distinct,
sets that are counted are finite, limits are naturals, no file's bytes are the
mark of a directory. Every theorem below holds for any number of calls, plans,
requests, handles, builds, destinations and contents, and any bounds. The
inductive invariants were checked with TLC on the instances of section 3, or
larger ones, before they were proved.

**CanonicalTransactionProofs**: TypeCorrect, MutualExclusion (OneMutator),
TreeAlwaysSurvives (TreeSurvives). OneMutator needs that a lock file belongs to
a call that is alive and holding, or to one that failed or died. TreeSurvives
is about all directories in `exposed`, so the invariant relates them to the
call's position: a promoted stage is complete (StageWritten); every tree under
a name that counts was put there by a commit, an edit or the start (TreesUsed);
an uncommitted call's tree is under no other name (Uncommitted); before the
promotion the call's backup, or the canonical tree, is the whole old tree in
*every* exposed directory (BackupReady, Alone); after SyncPromoted every exposed
directory has the new one (Replaced), and only then are backup files deleted
(BackupsWhole). The argument fails exactly when the fsync of line 573 is
removed. Each action that changes the directory has its own lemma; `Update`
lemmas say how one entry changes in each exposed directory.

On top of it SuccessStaysDurable (SuccessIsDurable) and OutcomesTruthful
(OutcomeTruthful) rest on a second invariant, Reports: at each position, also in
the catch, which error is being raised (Raised), whether the call's stage and
backup are there (Fresh, StageGone, BackupKnown), in which exposed directories a
power cut could find its backup (Traced), and that an outcome is true from when
it is settled (Reported), for success in every exposed directory. NothingLostSilently (NoSilentLoss) and Refinement
(ImplementsDurableTree) suppose `~LateEdits`. They rest on two more: no
exposed directory has two backups (OneBackup), and from the
comparison to the rename the tree in place is the one the call was planned from,
afterwards the one in the backup (Seen), because the only other writer, a person, is kept out by the hypothesis
and the other calls by the lock. The refinement goes action by action: the
rename that promotes is the abstract commit, the rename away and the rollback's
rename back leave `Logical(dir)` as it is, and everything else only changes
which directories a power cut could bring back.

**PlanRegistryProofs**: RegistryInvariance and from it RegistryTyped,
SlotsAccounted (Accounted), DisposalExactlyOnce (DisposedOnce), TokensGoodOnce
(TokenGoodOnce), CancellationTruthful (CancelledUntouched). None of these is
inductive alone. LaneOK says that a busy lane carries an unanswered call and,
past authentication, its plan; TokensOK that an issued token is in the records
or ended, never both, and that the plan in use has ended; UsesOK counts a use
only for an ended token; PromotedOK that a promotion belongs to the call on the
lane or to one answered by what its executor did (done, stale or failed, never
cancelled); CancelOK that only an aborted call is about to end as cancelled. BooksAlwaysBalance
(BooksBalanced) adds Books, the two sums (the ledger's over its leases, the
registry's over the plans retained or in use), which every action moves together
(PlansMove), and Ending, what each stage of the shutdown has emptied for good.

**AuthorityLedgerProofs**: the laws of the sums that the two registries need
(adding an owner adds its bytes, removing it takes them away, a part has no more
bytes than the whole, disjoint parts add up) and that every move of the ledger
keeps it balanced. The sum is a fold over a set, and the library's induction
theorems are out of reach of the installed provers; they are replaced by an
argument from the least number n such that the fold's recursion has no solution
on the sets of at most n owners (EveryLevelSolvable), which needs only that the
naturals are well-founded under <, a theorem without an operator parameter.

**StudioServerProofs**: LifecycleInvariance and QuietWhenEnded (QuietAtEnd). The
invariant WaitsHold says that what a wait found empty stays empty, because no
request is admitted once `shuttingDown` is set; Completed ties
`shutdownComplete` to a caller that went through all waits; EofOnce that the end
of the input starts one shutdown. IdsMeanOneRequest (OneRequestPerId) and
EveryAnswerWritten (AnsweredAndWritten) follow from Answering, which adds that a
request has its answer exactly when its promise has settled (Settlings); lemmas
say what each step of the scheduler, which the module uses as an instance, does
to phases and answers.

**HandleRegistryProofs**: HandlesTyped and HoldingsStayCounted
(HoldingsCounted). A count equals the cardinality of the set of holders
(Holding) and a held carrier is open (HeldOpen); for the charges a record is in
no disposal's list and two disposals share nothing, which needs that clear()
takes the records and empties the registry in one step (OneTurn, NotYet,
Leased). NothingIsLeft (NothingLeft) needs besides that an open carrier is being
verified or has a holder, that a close is waited for, and that a source that is
held is still registered or in a disposal's list (Traced), and that the ledger's
bytes are those of its leases (LedgerBalanced); it excepts the one carrier that
the code leaks.

**PublicationProofs**: PublicationTyped, NothingIsLost (NothingLost),
EditsSurvive (EditSurvives), EndsHonest (OutcomeHonest). One invariant serves
all of them: one program holds the lock, exactly between taking and returning
it, or killed there (OneHolder); for a build, its flags and its place in the
code say where the tree it replaces is now, while it goes forward (Forward) and
while its catch goes back (Backward); the same for each item of an installation,
by whether the item lies ahead, is the current one, is in place or is undone
(ItemAhead, ItemHere, ItemInPlace, ItemBack). The debt of a build that removed
its backup, or whose catch removed its own tree, passes to the build whose plan
saw the tree (Beside, Kept). EndsHonest adds what the ends need: which files of
its own a build still has at each place of its catch (CatchTold, StageLeft,
OwnFiles), and what an installation that rolls back has left beside each item
(ItemLeft). NothingIsLost excepts the removal of an old backup that fails, after
which no whole build need exist (finding 3). `late` names the places where somebody edited past
the code's last look; what is claimed of edits excepts those and no others.

**SourcesProofs** has five parts. *Reconciliation*: ReconciliationTyped,
EditsAreKept (EditsKept), ReplansAreQuiet (ReplanIsQuiet), DiffsPredict
(DiffPredicts). EditsKept rests on HandRemembered: in a schema-1 project content
that equals its checkpoint, and that a person wrote or decided to keep, has a
checkpoint that says so. For the other two, outcome lemmas per planner
(Schema1Outcome, SelectOutcome, DirectoryOutcome) list which checkpoints a plan
can leave; each of them is then shown to be quiet at the next plan, and Fits
(every checkpoint is one of them, whatever was edited since) carries what diff
says.

*DirectorySnapshot*: ChecksAreMoments (CheckIsAMoment). An edit stamps what it
changes with a number that no record has, so a recorded stamp that is found
again has been there since it was recorded (EditorKeeps), also when the check
began. WalkInv says what the walk has recorded at each of its 19 looks, CheckInv
what each of the check's 17 looks has established about its beginning: if the
root's stamp is still the recorded one the subdirectory's name led where it
leads now, until the second look at the root makes the condition true; a file's
stamp says in which directory it is, so the file found behind a handle tells
that the handle is of the directory that was walked. Stands keeps all other
executes out of it: only the holder of the lock is between a check and the
promotion.

*ConsumerOwnership*: OwnershipIsKept (OwnershipKept). A plan says of itself
(KeepsOwnership) that it drops nothing the lock had from which it was made, and
that it found at each destination nothing, what it will write, or what that lock
put there; PlannedOwns derives this from the planner's checks (Apart, MustHold,
PackagesFit), and it does not depend on the state any more, so it outlives
everything that happens until the execution compares the lock and the files.

*Derivation*: InspectionsAreRight (InspectionIsRight), DrawingsAreKept
(DrawingsKept), DerivesSettle (DeriveSettles). The inspection, the plan and the
assets above an asset are recursions along the recipes; what is proved first is
that such a recursion has a solution (Unrolled), from nothing but that no set of
targets derives only from itself (Acyclic, which `buildRecipeGraph` refuses):
partial solutions agree where they meet, and a target outside all of them whose
source is inside one would extend it. The invariant DInv then says that a
receipt tells truly what was made of what (MadeBy), whatever happened to the
files since. GateIsSound follows from the recursion alone; OnlyHandsBlock needs
MadeBy, because a receipt that names the present recipes, tokens and chain must
then be the one that derive would write. DeriveSettles compares two recursions:
the same plan is made again (SamePlanAfter), and the inspection of the next state
follows it, asset by asset, as long as no orphan lies above
(InspectedAsPlanned).

*ReadScheduler*: SchedulerInvariance and from it LanesServedInOrder
(LanesInOrder), NobodyStranded, CancelIsFinal, OneRequestPerId. The heart is a
lemma about the drain: while every queued request has a running one on its
lane, taking a request out of the queue frees nothing, and a request that
settles frees one lane, of which the drain starts the oldest request and
nothing else. Tickets (TicketsOK) carry the FIFO argument.

**OutputsProofs**: OutputsInvariance and from it OutputsTyped,
ResidueIsRecoverable (Recoverable), RecoveriesAreOne (OneRecovery), EditsOutlive
(EditSurvives), PublishedAreKept (PublishedStays) and ReportsAreHonest
(ReportsHonest), for any number of programs of each kind. One invariant serves
them all, in two halves.

- *The calls that hold the lock.* One call at a time works (Holds), and past its
  look for residue it has met no side file of another (NoResidue), so the
  backups that lie about are of one call (OneHasBackups). Position says what the
  call's place in the code implies for the call as a whole: how many files are
  staged, whether the journal is complete. ItemTold says it for each file, by
  whether the call has come to the file (ItemAhead), has put it in place
  (ItemInPlace), has still to undo it (ItemToUndo), is undoing it (ItemUndoing),
  has undone it (ItemUndone), or is removing backups (ItemDone); ItemKept is what
  they have in common: until the call can no longer go back, the file it
  replaces is in its place or in the backup. It says nothing of a call that was
  killed; there JournalCovers, which Recoverable repeats, takes over.
- *The publishers of one target*, which have no lock. What they know of the
  target is only what they last saw: PubHolds says what the publisher holds
  aside, PubLooked what it last saw, PubWrote what it put there, each *or the
  target is late*. NotesLate, the step that keeps `late`, is what makes that
  stable under everything that others do.

None of the five properties is inductive alone: that an edit survives needs to
know which file a rollback will rename back, and that in turn which flags each
step of the promotion has set. Each action has a definition of its effect on the
program it belongs to, a lemma that the action has that effect (`...Does`), and
lemmas on what the effect keeps (`...Keeps`); what a program does to the *others*
is one argument for all actions. ReportsHonest is a property of steps; CallReports and
PubReports derive it from the invariant where a program ends, and from a second
one, Left, on top of it: what a call has aside while it goes back is what it has
still to undo and the one file it had not counted (SidesLeft), and without a
complete journal it has moved no file (Unmoved).

*Only model-checked*: all liveness (EverythingEnds, EofEnds,
EverythingAnswered), which is beyond TLAPS here; BundlerMeetsImporter and
PlannersAgree, each of which compares two long and independent computations over
the same files.

## 5. What is not modelled

- Pure functions over text, bytes and geometry (parsers, printers, validators,
  digests, layout, containers, encoders, scenes). Their correctness is about data
  and is tested by the repository's own golden and property tests. They are the
  larger part of the source by lines.
- The validators handed to the transactions (`verifyExternalState`,
  `validateNextTree`) are choices, except where a module models one
  (DirectorySnapshot, Derivation, BrandArchive, ConsumerOwnership): they pass or
  fail.
- Digest equality is equality of contents; an edit that restores the same bytes
  is no edit.
- Power cuts outside CanonicalTransaction: the other publishers promise nothing
  about them beyond the syncs that their catches react to. Files are synced
  before a stage is promoted and are taken as on disk from then on.
- Workspace, project and content handles: a path and a digest without a
  resource.
- The workspace listing and the framing of messages
  (`service-protocol/framing.ts`).
- Per module, what section 2 says is left out.

## 6. Findings

1. `canonical_late_edit` (NoSilentLoss): src/README.md:198 says "Human canonical
   edits are never overwritten silently". The tree is compared at
   transaction.ts:536 and moved away at 549; an edit between the two goes to the
   backup and is deleted with it at 596, and the call succeeds.
2. `plans_cancelled_planner` (EveryPlanDisposed): brand-methods.ts:274 ends with
   `check(signal)` after the planner has returned; if the request was cancelled
   meanwhile, the plan is dropped and nobody disposes it, so the files it holds
   stay open.
3. `build_not_restored` (FailedBuildRestored): when removing the backup
   (build.ts:235) or the sync after it (237) fails, the catch removes the
   promoted build (241) with nothing whole to put back, and rethrows the
   original error as for a build that was undone.
4. `reconcile_absence` (EditsNeedADecision): while a tracked file is missing
   from the directory, the item's present content becomes its baseline
   (reconcile-directory.ts:863), a hand-made edit included; when the file
   returns the content counts as unchanged and is replaced (914) without a
   directive. src/README.md:198 says that edits are detected and preserved.

Diagnostics that say more than is true. The properties about outcomes state what
each code really leaves, so they have a clause for each of these and no run of
its own shows them:

- TFSB_ROLLBACK_FAILED asks to inspect the backup that it "could not restore"
  (transaction.ts:588), and src/test/transaction.test.ts:85 says that the call
  "leaves explicit backup residue when rollback fails". When only the sync after
  the rename back (586) fails, the same code is raised, the old tree is in place
  and there is no backup (OutcomeTruthful: there is one unless it was moved back).
- ROLLBACK_BUILD_FAILED says "Build replacement failed and the prior build could
  not be restored." (build.ts:245) also when only the removal of the stage failed
  (243) and the prior build is in place (OutcomeHonest, the third case of
  `rollbackFailed`). An installation's "at least one prior destination could not
  be restored" (install.ts:247) is given in the same way when a stage could not
  be removed or a sync failed and every file is back.
- An installation that fails while it writes a stage
  (brand/consumer-install.ts:204) or its journal (217), before it lists the one
  (206) or marks the other as written, leaves that file and reports that it "was
  rolled back" (259); the next call is refused for the residue (186). The raster
  export does the same (ReportsHonest, `OnlyUncounted`). The other way round,
  "retained recovery residue" is also said when only a sync or close of the
  rollback failed, so ReportsHonest claims of it a complete journal *or* that
  nothing was changed.

Behaviours kept in the models, or met while reading, that no text of the
repository contradicts:

- *Session.* The carrier of an archive that `createPackage` refuses is never
  disposed (consumer-source.ts:188). Messages after a close in the same chunk
  are still handled (server.ts:178). The framer drops the good frames before a
  bad one in the same chunk.
- *Install.* The rollback removes a destination and renames its backup there
  without looking (install.ts:236), so an edit made past the last look goes.
- *Outputs.* When the removal of a stage fails after the link, the rollback
  leaves the new file where there was none. A shard manifest whose last sync
  fails is removed by its name.
- *Reconciliation.* An untracked companion of a schema-2 project is overwritten
  (reconcile2.ts:163), and removals and renames are ignored there. A divergence
  kept with `--resolve canonical` is a CONFLICT for the next archive but is
  overwritten by the next change of a directory. `--remove` leaves no record in
  a directory project, so a source that is still there comes back (ReplanIsQuiet
  excludes it through `settled`).
- *Derivation.* Below a receipt that no recipe is for, derive takes the
  receipt's chain and the inspection does not: derive reports unchanged what
  check calls stale (DeriveSettles excludes it). A recipe whose id changed makes
  the receipt invalid, which only deleting target and receipt by hand resolves.
- *Archives.* The bundler does not ask that the package lists everything that
  recipes, exports and QA name, so a project that is not `SelfContained` bundles
  to an archive that the importer refuses. A baseline update and a derive leave
  the package's system digest behind, so that bundle asks for a new package.
- *Consumer.* A sync that names no profiles and is given only some of the locked
  packages is always refused, because the parameters of all locked profiles are
  passed on (consumer-plan.ts:271, 277). A sync leaves an optional
  output that is new out of the lock, so another package, or the project, may
  take its destination: the inspection then says "collision" for the one and, if
  a later install records the project again, "ok" for the other, while a sync is
  refused for both (SyncIsQuiet excludes the project's case). The project's own
  install does not look at the lock (install.ts) and overwrites a locked output;
  the inspection says so.

## 7. Plan

Order: what loses a user's files first, then what a session can get wrong, then
the remaining publishers, then what one command remembers for the next.

1. *Done.* CanonicalTransaction with DurableTree and its first three theorems.
2. *Done.* PlanRegistry on AuthorityLedger, ReadScheduler, StudioServer,
   HandleRegistry, with proofs.
3. *Done.* Publication and Outputs, with proofs: every program that publishes
   files of a project.
4. *Done.* Reconciliation, DirectorySnapshot, Derivation and ConsumerOwnership,
   with proofs; BrandArchive, model-checked.
5. *Left.* The workspace listing; the framing of messages.

An abstract specification still worth stating: an atomic *set of files* (all
old, or all new, or a journal that says so), implemented by the installation,
the consumer transaction and the raster export alike. Recoverable states its
safety part now, and is proved.
