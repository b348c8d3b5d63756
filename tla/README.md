# Meridian: a TLA+ verification project

Meridian turns producer evidence (ScoreForm, Quillan, Concord publications) into
teacher-controlled Grades and reports.  It is a Python package (`meridian/`, 291 modules)
with no server and no database: every component keeps its state as files under one
workspace directory, and any number of processes (menu sessions, command line calls, a
restarted session) read and write that directory.  What has to be right is therefore less
the arithmetic of one call than what several calls, interrupted calls and repeated calls
leave on disk together.  That is where this project starts.

Contents: 1 inventory, 2 plan, 3 the Grade Item store, 4 the teacher-action kernel,
5 projecting and caching evidence, 6 granting access to publications, 7 overriding a Grade,
8 reports and their snapshots, 9 the runs and their bounds, 10 fairness, 11 proofs, 12 what
the checks found, 13 what is not modelled, 14 how to run it.

## 1. Inventory

A result flows through the components in this order; each row names its state, what
changes it, and what makes it correct.

| Component (`meridian/`) | State it keeps | Operations | Correct when |
|---|---|---|---|
| Producer adapters (`scoreform_`, `quillan_`, `concord_adapter`, `adapters`) | none | translate one payload | pure |
| Ingestion, publication authorization | authorization records | authorize, prepare invocation, verify canonical bytes, final recheck, project | nothing unauthorized or withdrawn between check and use is projected |
| Projection cache | immutable snapshots, scope markers, per-work locks | publish, read, clear a scope | a read returns bytes of one publication it was authorized for |
| **Grade Item storage** (`grade_item_storage`, `grade_items`) | per item: `.write.lock`, pairs `r.json` + `r.json.sha256`, `current.json` | write a revision, select, list, load, load current | history is append-only, contiguous, immutable; the pointer names a member of it and moves by compare-and-swap |
| Grade Item authoring and selection workflows | none (previews in memory) | preview, then commit after revalidation | a commit applies what was previewed or nothing |
| Memberships, evidence eligibility, attempt policies and decisions, reassessment, standards associations | the same store protocol, one family each; references to revisions of other families | author, select, list, resolve currentness | a current record depends on current records; references are acyclic |
| Proficiency mapping, standards proficiency, academic period proficiency | mapping revisions, persisted results | calculate, persist, select | results equal their definition; stale results are recognised |
| Grade policy and activation; conventional, standards and hybrid Grades | policy revisions, activations, calculation results | author, activate, assemble, calculate | weights renormalise, missing is not zero, one final rounding |
| Teacher Grade overrides | override revisions, withdrawals, pointers | author, select, withdraw, effective grade | a withdrawn override has no effect; the calculated Grade survives |
| Reporting snapshots, report export | definitions, frozen snapshots, profiles, receipts, external files | freeze, select, preview, commit, record receipt | a snapshot is one consistent state; an export happens at most once per receipt |
| Planning signals | policies, derivations, previews, reviews, exports, receipts | derive, preview, review, export, reconcile | only a reviewed, current derivation is exported |
| **Teacher-action kernel** (`teacher_action_orchestration`, `_contract`) | none of its own between calls | apply, select an existing policy, resume | a decision is applied once and reported truthfully |
| **Teacher-action receipts** (`teacher_action_receipts`) | one journal file per action, one lock per class | prepare, checkpoint, load, assess, list | a receipt never claims more than the canonical store holds |
| Guided ports, restart ports, recovery inbox | none | revalidate, observe, persist, select for one family | a port reports what the store says |
| Assessment setup | a correlation of two actions | apply both, restart | the second is never applied without the first |
| Benchmark plans, teacher profile and preferences | small revisioned or single files | author, select | compare-and-swap |
| Attention, readiness, reports, previews | none | recompute | read-only |
| Menus, navigation, command line, rendering | none | prompt, print | presentation |

`PROJECT.json` lists every component with all its files and its status.

How they interact.  Components call each other synchronously; there are no messages and no
threads.  What couples them is the shared directory: 25 storage modules use one protocol
(an exclusively created lock file, immutable revision pairs, a compare-and-swap pointer
replaced by `os.replace`), readers take no lock, and the kernel reaches a store through a
domain port whose steps (`revalidate_basis`, `observe`, `persist_exact`, `select_exact`)
each read the store again.

What is hard, and hard to test:

- *Interleaving of processes.*  Unlocked readers see a pair while it is created and removed;
  two calls of one action, two actions, another teacher and a resumed call interleave
  between every two steps.
- *Crashes.*  A process dies inside a locked section, between the two files of a pair,
  between a write and its journal entry, between the selection and its last checkpoint.
- *Partial failure.*  A system call fails, the clean-up of that failure fails too, a file is
  replaced and the caller sees an exception anyway.
- *Stale reads.*  What was reviewed, the pointer, the history and the receipt all may have
  moved when a step uses them.
- *Retry.*  APPLY is repeated, RESUME runs while the original call still does.

`PROJECT.json` "hazards" lists each of them at its line with the property that covers it, or
the reason why none does yet.

## 2. Plan

Written so that what everything else stands on comes first.

1. **Grade Item store**: `GradeItemHistory` (what a store promises), `GradeItemStorage` (how
   files and locks do it), `GradeItemStorageProofs`.  *Done.*
2. **Teacher-action kernel and receipts**: `TeacherAction` over the store promised by 1,
   `TeacherActionProofs`.  *Done.*
3. **Preparing an authorized invocation and the projection cache**: `ProjectionSnapshots`
   (write-once snapshots), `EvidenceProjection` (Core read without a lock, the entry
   protocol, unlocked readers), `ProjectionCacheProofs` (the entry protocol),
   `EvidenceProjectionProofs` (what the loads of Core's state show).  *Done.*
4. **Publication access**: `PublicationAccess`, one policy file under an optimistic protocol,
   `PublicationAccessProofs`.  *Done.*
5. **Teacher Grade overrides**: `OverrideDecisions` (what a reader of a family may rely on),
   `GradeOverrides` (previews, commits, and the base result in another store),
   `GradeOverridesProofs`.  *Done.*
6. **Reports and reporting snapshots**: `ReportingSnapshots` over stores that move while they
   are read, `ReportingSnapshotsProofs`.  *Done.*
7. *Open.*  The **receipt inbox** (`list_receipts`, the class limit) and the rebuilding of
   ports after a restart.
8. *Open.*  **Dependent families**: memberships, eligibility, attempt policies and decisions,
   reassessment, standards associations and results, as one module of revisioned records
   with references and a currentness relation.  Abstract specification: a current record
   depends on current records.  Theorem: supersession stays acyclic.
9. *Open.*  **Pure calculations**: standards proficiency (highest, lowest, median, mode),
   academic period aggregation, conventional, standards and hybrid Grades, as functions
   against reference definitions over bounded inputs.
10. *Open.*  **Report export and receipts, planning signals, assessment setup** (the kernel
    twice, under one correlation), **benchmark plans**.

A later module takes a store as `GradeItemHistory` (or, for overrides, `OverrideDecisions`),
not as files: the refinement theorems of section 11 are what justifies that.  The kernel does
so with Grade Items (its `Create` and `Select` are those of the history), and the report with
overrides (`SelectOverride` is a step that `OverrideDecisions` allows).

## 3. The Grade Item store

### GradeItemHistory: the promise

Two variables: `revision`, a function from revision numbers to contents, and `selected`.
`Append` adds the next number with a content the domain accepts after the last one
(`Transition`, which stands for `validate_grade_item_transition`); `Select` moves the
pointer if it equals the caller's expectation.  There is nothing else.

### GradeItemStorage: the files

| Model | Code (`grade_item_storage.py`) |
|---|---|
| `dir`, `lock`, `json[r]`, `side[r]`, `current`, `temp` | the item directory, `.write.lock`, `r.json`, `r.json.sha256`, `current.json`, `.current.json.*.tmp` |
| `Absent`, `Torn` | a file that does not exist; created by `open("xb")` and not yet filled and synced |
| a content | canonical bytes, identified with their SHA-256 (distinct bytes, distinct digests) |
| `EnsureDirectory`, `MakeDirectory`, `AcquireLock`, `CheckWrite`, `OpenJson` ... `SyncSide`, `VerifyWrite`, `ReleaseLock` | the steps of `write_grade_item_revision`, `_ensure_directory_chain`, `_write_revision_pair_exclusively` |
| `CheckSelection`, `OpenTemporary`, `ReplaceCurrent`, `VerifySelection` | `select_grade_item_revision`, `_publish_current_selection` |
| `ReadEntries`, `ReadNames`, `ReadJson`, `ReadOn`, `ReadReturns` | `load_current_grade_item_revision`, `list_grade_item_revisions`, and `list_grade_item_ids` for one item |
| `...Fails` | the `OSError` paths, among them those of the clean-up itself (`_remove_file`, `_remove_lock`) |
| `Crash` | the process is killed; its files stay, its lock becomes `Orphan` |

One step is one system call that others can see.  The reads a process makes while it holds
the lock (`check`, `verify`, `cas`, `verifysel`) are one step each: nobody else changes the
item then, which is what `LockDiscipline` shows.  Readers take no lock, so each of their
reads is a step of its own.

Properties.  `LockDiscipline`: between acquiring and removing the lock a process is alone.
`AcknowledgedDurable`, `LoadedDurable`, `ListedDurable`: what a caller was told of is committed
and stays.  `PointerCommitted`: the pointer names a whole committed pair by its exact digest.
`LinearHistory`, `HistoryImmutable`: the history is contiguous, obeys the transition rule and is
never rewritten.  `NoLostUpdate`: the pointer moves only from the revision its mover expected.
`FailClosed`: half a pair, a stray temporary file and a lock whose owner is gone stop later writes
and stay as they are.  `ImplementsHistory`: all of this implements `GradeItemHistory`, a pair
being part of the history once its writer can no longer undo it. `ListedDurable` has the condition
that no system call failed, because the code needs it: a listing may show a complete pair whose
writer then fails to sync and removes it.

## 4. The teacher-action kernel

`TeacherAction` models the calls of `apply_reviewed_teacher_action`,
`apply_reviewed_existing_policy_selection` and `resume_exact_teacher_selection`, each as a
sequence of steps that interleave with those of other calls.

| Model | Code |
|---|---|
| `revision`, `selected` | the canonical store, as promised by `GradeItemHistory`: `Create` and `Select` use its `Append` and `Select` |
| an action in `Authored` | a reviewed preview that writes revision `Given + 1` and selects it |
| an action in `Existing` | the reviewed selection of an attempt policy that is there already (`Given`) |
| `basis` | whether the profile, class, calendar, membership or policy that was reviewed is unchanged; `unknown` if it cannot be told |
| `receipt[a]` | the journal file: its generation (number of checkpoints), last stage, whether `observed_records` holds the target |
| `held[p]` | the receipt a call loaded or saved last, whose generation it expects |
| `Valid`, `Pointer`, `Satisfied` | `revalidate_basis`, `observe` and `_inspect` of the port |
| `Load`, `Prepare`, `Journal`, `Finalize` | `store.load`, `store.prepare`, `_append` with `record_checkpoint` |
| `Persist`, `Create` | the authoring commit's recheck of the history, then the store's write |
| `View`, `Recheck`, `Select` | the selection preview, the commit's recheck, the store's compare-and-swap |
| `Fail`, `LogFailure`, `Audit` | `_record_failure`, `_failure` with and without `audit_failure` |
| `AssessLoad`, `Weigh`, `Assess`, `Verdict` | `assess_teacher_action_recovery`, used by RESUME and to report an interrupted action |
| `...Raises` | an exception at that step, before or after its effect reached the disk |
| `OtherWrites`, `OtherSelects`, `BasisChanges` | other teachers' calls and changes of the reviewed sources |

A call whose write, selection or later check fails goes to `Fail`, which reads the canonical
store again, because an exception says nothing about what reached the disk.  `Earlier` is the rule
of `_append` that a checkpoint of an earlier stage than the receipt's last is skipped; a
resumed call therefore may pass stages without any comparison of generations, which is why
the properties below speak of the store and not of the journal.

Properties.  `WritesAreClaimed`: a written revision is covered by a claimed receipt, so a
restart never takes it for not started.  `ClaimsArePersisted`: neither result nor receipt
claims a revision the history does not hold.  `SuccessIsTrue`: success, and a finalized
receipt, only for a target that has been current.  `BlockedChangedNothing`:
`blocked_before_write` is said only by a call that changed nothing.  `NoChoiceOverwritten`:
a call moves the pointer only from the reviewed baseline to its own verified target, once
its receipt announced the selection.  `ClaimsAreConservative`: "the claim makes a restart
conservative" (`issue122-slice3-orchestration-kernel.md`) - once an action is claimed, not
written, and every call that might still write it is over (`MayWrite`), it is never written,
whatever calls follow.  `WrittenBecomesCurrent`: a decision that was written
becomes current as long as the teacher keeps choosing RESUME and nobody else interferes.
`made` and `touched` are history variables; no guard reads them.

## 5. Projecting and caching evidence

`EvidenceProjection` models every call of `prepare_publication_invocation` and
`cache_projected_inventory` (a call "project") and of
`load_authorized_projection_snapshot` with `assess_projection_snapshot` (a call "read"), all
about one publication `Target` of one series.

| Model | Code |
|---|---|
| `core` | Core's canonical records: the current registration, the length of the series, the withdrawn members.  Core is another package; its state is external and may change between any two reads |
| `LoadRegistration`, `LoadSeries`, `LoadWithdrawal` | one load of the canonical context, record by record, in the order of the code (`ingestion.py`) |
| `phase` | the loads of one call: before the authorization, after the manifest was verified, and again before the snapshot is written; a read loads once |
| `Drift`, `Authorize`, `Verify`, `ReadBytes`, `Confirm`, `Project` | the rest of the preparation, to the adapter's inventory |
| `policy`, `Allows` | the local policy file and the authorizer made from it (`publication_authorization.py`) |
| `dir`, `lock`, `marker`, `file`, `attempt` | a cache entry: its directory, `.write.lock`, `.scope-*`, and the snapshot, whose name holds the moment it was captured at (here: which attempt made it) |
| `Reauthorize` ... `Unlock` | the entry protocol of the writer; `WindowSteps` are those at which it may still remove the snapshot it created |
| `Permit`, `Find`, `Await`, `Read`, `Assess` | the unlocked reader and the verdict (`Reuse` is `assess_projection_snapshot`) |
| `...Raises`, `Crash` | failing system calls, the clean-up's among them; a killed process |

Properties.  `PreparedWasTrue`: what is prepared and cached is a context Core was in as a
whole at one moment of the call, though it was read in pieces.  `ReusableWasCurrent`: one load
is enough for the verdict reusable.  `ReadsConfined`: nothing is handed out that was withdrawn
all along, or in another scope than it was projected for.  `ReadsSettled`, `ReportedSettled`:
no reader and no writer reports a snapshot that its writer may still remove.
`ImplementsSnapshots`: every exact identity has at most one snapshot, written once
(`ProjectionSnapshots`).  `truth` is a history variable: the states Core was in since the
call began.

## 6. Granting access to publications

`PublicationAccess` models `preview_publication_access` and `commit_publication_access`.  A
preview reads the policy file twice: `Preview` takes the bytes (`before`) whose digest the
commit will compare, `ReadGrants` goes through `load_publication_authorizer` and takes the
grants and the version that the proposal extends.  Where there is no policy yet the second read
is left out.  The commit compares the bytes, writes a temporary file, compares again and renames
it.  There is no lock.  `Edit` is the teacher's editor.

Two things are history, seen by the properties only: `fresh`, the file has not been replaced
since the last comparison of that call, and the field `agreed` of a plan, both reads of its
preview gave the same bytes (the code never compares them).

Properties.  `AddsExactlyItsGrant`: a stored policy is the one that was there plus the one
grant that was confirmed, provided `fresh` and `agreed`; section 12 tells what happens without
either.  `NeverTorn`: no crash or failure leaves a policy
that cannot be loaded.  The type invariant bounds the temporary files that stay behind by the
number of crashes and failures.  `NothingOverwritten` is what the docstring says without the
proviso, and is violated (section 12).

## 7. Overriding a Grade

`OverrideDecisions` is the promise to readers: a history that only grows, by overrides and by
withdrawals of what is selected at that moment, and a selection that only moves forward.

`GradeOverrides` models the workflows step by step.

| Model | Code |
|---|---|
| `history`, `pointer`, `lock`, `torn` | the family: decision pairs, `current.json`, `.write.lock`, and what an unfinished write left (`teacher_grade_override_storage.py`) |
| `base` | the selected base Grade result: another store, another lock |
| `plan[p]` | the preview a teacher has reviewed and may commit at any later time, repeatedly |
| `ReadBase` ... `PreviewSelect`, `ReadReplaced` | the three previews (`_workflow`, `_lifecycle`) |
| `CompareHistory`, `Confirm` | what a commit checks before it calls the store; `replay` is the decision that was written already |
| `Exists`, `Lock`, `Check`, `Guard`, `CreateJson`, `CreateDigest`, `Reload`, `Unlock` | `write_teacher_grade_override_revision`; `Guard` is `precommit_guard`, called under the family's lock |
| `CompareAndSwap`, `FillPointer`, `RenamePointer` | `select_teacher_grade_override_revision` |
| `After`, `ReadSelected` | what a commit verifies once it has written |
| `Raise`, `Crash` | failing system calls, with clean-ups that succeed or fail; a killed process |

A pair is one variable here (`torn` tells the half pair): `GradeItemStorage` shows for the
same protocol what its files do.  The reads that a process makes under the lock are one step
each; those of the pointer and of the list before it are steps of their own.

Properties.  `ImplementsDecisions`: however previews, commits, failures and crashes
interleave, the family is an `OverrideDecisions`.  It is not obvious, since the latest
decision is looked up before the lock is taken and the store accepts any revision: what saves
it is that the pointer a selection expects was read after the list its target is taken from.
`AuthoredOnSelected`: an authoring that was reported as created was written while its source
was the selected result.  The guard alone does not give that (the results may move between the
guard and the write), nor does the verification after it; both together do, unless an older
result was selected again in between (`back`).

## 8. Reports and their snapshots

`ReportingSnapshots` models how rows are explained from stores that nothing locks, and how a
report is frozen.

| Model | Code |
|---|---|
| `world` | per student the selected result, the evidence and the selected override; the activated policy; whether a publication of the provenance has moved.  `Change` is a step of another process in one of these stores |
| `ReadBase` ... `BaseAgain` | one capture of a row (`current_grade_preview.py`), with the reads that are repeated to see whether they moved; `round` is the first or the second capture |
| `Fresh`, `Applicability`, `EffectiveSource`, `RowOf` | freshness of a result, `assess_teacher_grade_override_applicability`, `resolve_effective_grade` (`effective_grade.py`) and the row (`grade_report_preview.py`) |
| `Prepare`, `Commit`, `Report`, `Verify` | the preview of a freeze, its commit, and the passes of the freeze: the comparison with what was reviewed, the initial and the final observation, each after the publications were verified (`reporting_snapshot_workflow.py`, `reporting_snapshot_freeze.py`) |
| `Lock`, `Existing`, `WriteJson`, `WriteDigest`, `Unlock` | `write_reporting_snapshot` |
| `Raise`, `Crash` | failing system calls, whose clean-up may leave either file of the pair or the lock behind, and a killed process |

`moments` and `back` are history variables: what the stores have held since the call began,
and whether a store has returned to an older value.

Properties.  `RowsWereTrue`: a row was true at one moment of the call.
`EffectiveWasInForce`: a base Grade is only reported of a calculated result (one of the two in the
run is not), and an override is only reported as the effective Grade if at one moment it
was selected, of the result selected then, which was current then.  `FrozenWasOneState`: at
one and the same moment of the commit, with the publications in force, every result and override
of a committed snapshot was the selected one, and every row reported as current was current and
its Grade the effective one (`ShownIn`); the same holds of a pair of files that a failing commit
leaves behind.  A row reported as stale was so at a moment before and at
one after, but the code does not compare what made it stale, so at that moment the result may
have been current.  `NothingReplaced`: a snapshot file is never replaced, complete or torn.
`FrozenWasReviewed` is what the architecture decision says, and is violated (section 12).

The first three need the exception `back`: two equal reads of a result do not show that it stood
still.  The overrides need none, since `ImplementsDecisions` says that a selection never
returns.

## 9. Runs and bounds

| Run | Configuration | Shows |
|---|---|---|
| `store_select` | 2 processes, 2 revisions, 2 contents, write/select/load/list, 2 failing calls | `TypeOK`, `LockDiscipline`, `LoadedDurable`, `LinearHistory`, `ListedDurable`, `PointerCommitted`, `NoLostUpdate`, `FailClosed`, `ImplementsHistory` |
| `store_live` | the same, write/load/list/ids, 1 crash, fair | `AcknowledgedDurable`, `HistoryImmutable`, `LockReleased`, `CallsReturn` |
| `action_race` | 2 processes, 2 actions and an existing policy, baseline 1, 1 step of others | `SuccessIsTrue`, `ClaimsArePersisted`, `NoChoiceOverwritten` |
| `action_live` | 2 processes, 1 action, 1 crash, 1 raising step, fair | `TypeOK`, `WritesAreClaimed`, `BlockedChangedNothing`, `ClaimsAreConservative`, `WrittenBecomesCurrent` |
| `action_writers` | 2 calls of one action, no faults | `OneWriter` fails (section 12) |
| `projection_context` | 1 process, series of 2, 2 registrations, 2 scopes, 2 changes | `TypeOK`, `PreparedWasTrue`, `ReusableWasCurrent`, `ReadsConfined` |
| `projection_writers` | 2 processes, 1 entry, 2 inventories, 1 crash, 2 raising steps, fair | `ReadsSettled`, `ReportedSettled`, `ImplementsSnapshots`, `LockReleased` |
| `access_commit` | 2 processes, 2 grants, 2 edits, 1 crash, 1 raising step | `TypeOK`, `NeverTorn`, `AddsExactlyItsGrant` |
| `access_overwrite` | 2 processes, 3 grants, no faults | `NothingOverwritten` fails (section 12) |
| `overrides_decide` | 2 teachers, 2 results, 3 revisions, 2 changes of the base, 1 failure or crash | `TypeOK`, `AuthoredOnSelected`, `ImplementsDecisions` |
| `reporting_freeze` | 2 rows, 2 results, policies and evidences, 2 override decisions, 2 changes, 1 failure or crash | `TypeOK`, `RowsWereTrue`, `EffectiveWasInForce`, `FrozenWasOneState`, `NothingReplaced` |
| `reporting_reviewed` | the same, 1 change, no faults | `FrozenWasReviewed` fails (section 12) |

Why these bounds are enough.  Every fence in the code is between two parties (a lock and its
rival, a pointer's expectation and its mover, a generation and its writer, a reader and
whoever changes what it reads), so two processes produce every conflict; the theorems remove
the bound where it matters.  Two revisions are the least with a predecessor, a successor and
a gap; two contents the least with a conflicting rewrite and a transition that is refused
(`MCTransition` lets b follow a or b, and a follow nothing); three decisions the least with a
superseded override and a withdrawal.  One crash leaves every kind of residue; the second
failing call is the one that breaks a clean-up.  Two changes of an unlocked store are the
least with which a value moves away and back, or two values move between two reads of one; so
are two edits of the policy, one between the reads of a preview and one that puts it back.
A complete action makes seven checkpoints: 6 makes every action meet the limit of the
journal, 8 leaves room for a RESUME (the code's limit is 64).  In `action_race` the revision
bound leaves one number more than the actions need where another teacher can write it.  With
two rows a change can fall between rows; more rows add no new order.

`Symmetry` permutes processes, grants, scopes, registrations or results, in the runs without
liveness.  `CHECK_DEADLOCK` stays on everywhere: an idle process can always be called.

The exception `back` of `AuthoredOnSelected` is wider than what these bounds can use: a
counterexample without it takes about six changes of the base.  It is there because the code
compares selections by value, and the theorem holds for any number of changes.

## 10. Fairness

The code is synchronous: a call that was started runs until it returns or its process dies.
The modules therefore assume weak fairness of the steps of a started call (`Run`), for each
process, and nothing about starting calls, crashing, raising, or what other teachers do.
`LockReleased` says that a lock that is taken is released unless a process was killed or a
system call failed; `store_live` checks it, and that every call returns, with one crash,
for writing, loading and listing (a selection returns along the same exit path but is not in
that run).  `action_live` adds strong fairness of `Resume`: the teacher who finds the
interrupted action in the recovery inbox keeps choosing RESUME.  Without it a written decision
may stay uncurrent for ever, and the code says so; with weak fairness only, a teacher who
keeps choosing APPLY instead would be a counterexample, and no promise is made for that.
`GradeOverrides`, `PublicationAccess` and `ReportingSnapshots` state no liveness: their calls
are finite sequences of steps that are refused rather than retried.

That a call cannot go on for ever needs no fairness and is proved for every component
(`CallsAreFinite`, section 11); fairness only adds that a started call does take its next step.

## 11. Proofs

TLAPS proves, for every set of processes, every number of revisions, changes, crashes,
failures and checkpoints, and every set of contents, actions, results and grants:

- `GradeItemStorageProofs`: `TypeCorrect`, `LockSafe`, `PointerSafe`, `AcknowledgedSafe`,
  `LoadedSafe`, `LinearSafe`, `HistorySafe`, `SelectionSafe` and `Refinement`;
- `GradeItemFailureProofs`, over the invariant of the former: `ResidualsFailClosed`,
  `ListedSafe`, `CallsAreFinite`;
- `TeacherActionProofs`: `TypeCorrect`, `WritesClaimed`, `ClaimsPersisted`, `SuccessTrue`,
  `BlockedUntouched`, `ChoiceSafe`, `ClaimsConservative`, `ReceiptsGrow`, `KernelKeepsStore`,
  `CallsAreFinite`;
- `ProjectionCacheProofs`: `TypeCorrect`, `ReadsAreSettled`, `ReportsAreSettled`, `Refinement`;
- `EvidenceProjectionProofs`, over the types of the former: `PreparedTrue`, `ReusableCurrent`,
  `ReadsAreConfined`, `CallsAreFinite`;
- `PublicationAccessProofs`: `TypeCorrect`, `PolicyWhole`, `AddsExactly`, `CallsAreFinite`,
  `SoleWriterOverwritesNothing`;
- `GradeOverridesProofs`: `TypeCorrect`, `Authored`, `Implements`, `CallsAreFinite`;
- `ReportingSnapshotsProofs`: `TypeCorrect`, `RowsSafe`, `EffectiveSafe`, `FrozenSafe`,
  `NothingReplacedSafe`, `CallsAreFinite`.

Assumptions: `ConstantsAssumption`, `KernelAssumption`, `ProjectionAssumption`,
`AccessAssumption`, `OverrideAssumption` and `ReportingAssumption`, which only say that bounds
are natural numbers, that the marks (`Absent`, `Torn`, `NoProc`, `Orphan`, `Other`) are
distinct from the values they stand beside, and that what a call is given exists.  TLC
evaluates each of them on its runs.

*The store's argument.*  `TypeOK` is inductive only together with the kind of request of each
step (`RequestKind`).  `LockDiscipline` then needs nothing else.  Given the lock,
`WriterState` says what the files of a writer's own pair look like at each of its steps;
from it `CommittedStable` follows: no step changes a committed pair.  `SelectorState` and
`LoaderState` say that what a selector or an unlocked reader has read so far belongs to a
committed revision, and `Told` is what results promised.  Their conjunction is the
inductive invariant `IInv`.  Each property of a single state is a consequence of it, and the
action properties are those of one step taken under it.  `Refinement` maps a committed pair
to its content and the pointer to its revision: a writer's sync is `Append`, the
rename is `Select`, every other step stutters.

`FailClosed` needs one fact more (`CleanState`): a writer past its checks has found every other
revision whole or missing and no temporary file, and nobody else can change that before it
releases the lock; so where something is left over there is no such writer, and the check refuses
every new one.  An orphaned lock stops writers and selectors because whoever is inside a locked
section owns the lock (`LockDiscipline`), and an orphan has no owner.  `ListedDurable` is the same
question for a reader without a lock: as long as no call failed, only the clean-up of a failed
pair could remove what it has verified, and no writer is at a clean-up (`ListState`).

*The kernel's argument.*  The difficulty is that a call holds a receipt that may be
outdated and skips checkpoints.  `HeldInv` says that what it holds is the receipt of some
generations ago, and that receipts only grow; `StageInv` says what each stage implies for
the *store*, not for the journal (from `selection_preview` on, the target is there; from
`verification` on, it has been current); `ReceiptInv` says the same of the stage a receipt records;
`TruthInv` limits what a call may say.  `StageInv` survives other processes because history
and `made` only grow.  The theorems about states follow from the conjunction.

`ClaimsConservative` is about the future of an abandoned action, so it is proved step by step
(`AbandonedStays`): a later call of the action finds its receipt, which is claimed, and a claimed
receipt leads an APPLY to its report; a RESUME goes on only to select a target it finds written; a
call that paused before it had a receipt still counts as one that may write.  `ReceiptsGrow` is
the part of `HeldInv` a reader of the journal relies on.  `KernelKeepsStore` says that every step
of the kernel is a step of `GradeItemHistory` or leaves its variables alone; since
`GradeItemStorage` implements that history (`Refinement`), reasoning about the kernel over the
abstract store is justified.

*The projection's argument.*  A context is read in pieces, so no single load is a state Core
was in.  But series and withdrawals only grow, and the registration is read first.  If two
loads, one after the other, agree, then everything but the registration stood still from the
end of the first to the beginning of the second, and the registration the second load begins
with, equal to that of the first, falls into that time: the state at that moment is the one
that was read.  So comparing two loads is as good as a lock, and `PreparedTrue` follows.  For
`ReusableCurrent` one load is enough, because the verdict requires the target to be the head
and not withdrawn at the end, and then it was so when the registration was read.
`ReadsAreConfined` has the same witness.

*The cache's argument.*  A step changes only the entry its process works on, and only under its
lock; `Effect` says so once, and `Mine` what a call at each step knows of its entry, so that
`StepKeeps` reduces every action to its own process.  The reader is the difficult one: it lists
the directory, looks for the lock, and opens the file later, when another writer may hold the
lock.  A snapshot that is begun after the listing has another name (`attempt`), and the writer
of the snapshot it listed was gone when the lock was free: between, nothing under that name can
be begun or removed (`read` with `found = attempt` implies `~Begun`).  `Counted` bounds the
attempts by the faults: a second one needs an entry that is empty again, which only a clean-up
makes.  `Refinement` maps an entry to its snapshot once its writer may no longer remove it; the
step past the last failing call is `Capture`, every other step stutters.

*The argument for access.*  Every step that replaces the file makes every other process lose
`fresh`; a process that still has it at its rename finds the file it compared last, the one
its preview read first.  Its proposal extends what the preview read second by one grant, which
is the same file if the reads `agreed`.  What a rename stores is a whole policy
(`ProposalAdds`), and each temporary file belongs to a call that is under way or to one crash
or failing clean-up (`StrayInv`), which bounds their number.  `SoleWriterOverwritesNothing` adds
the assumption that there is one process and nobody edits (`MaxEdits = 0`): then `fresh` is never
lost, and a commit overwrites nothing.  It shows how far the finding of section 12 goes.

*The argument for overrides.*  Only the owner of the lock changes the history or the pointer
(`FamilyStep`), so what a writer finds under the lock still holds when it writes.  A process'
knowledge (`Knows`) is stated for an arbitrary state of family and result, so that one lemma
(`OthersKnow`) says that it survives a step of another process.  The history only grows, so the
pointer that a selection replaces, which lay inside the reviewed history, is below its target:
the selection moves forward.  The base result was the source at the guard and is the source
again after the write, so at the write it was the source, or it has come back.

*The argument for reports.*  What is read before a moment t and again, unchanged, after it was
there at t: an override because its decisions are only replaced by later ones
(`OverrideSqueezed`), the rest unless something came back (`Squeezed`).  `Between` says this of
a set of earlier moments and a set of later ones, and survives any change of the stores
(`BetweenGrows`).  A row takes for t the end of its first capture (`FirstBefore`); the whole
report takes the second verification of the publications (`Confirming`), before which every row
of the first observation was true once, and after which every row of the second was.  Both
rest on the same step: `Capturing` shows what a read adds to a capture for an arbitrary set of
moments that holds the present, so one lemma serves the first observation (all moments of the
call) and the second (those since t).  For a row reported as current, equal rows mean equal
results, activations and evidence, so the row was current at t (`ShownBetween`); two stale rows
may be stale for different reasons, which is why `FrozenWasOneState` says less of them.

*Why every call ends.*  Each component has a measure `StepsLeft`, the number of steps a call has
left at most, a function of its step and of the little that decides how often it turns (the
member of a series, the row and the round of a report, the stage of an action).
`CallsAreFinite` says of every step of the whole system: starting a call sets the measure to a
bound that depends on the constants only, every step, failure or crash of that call lowers it,
and no step of anybody else changes it.  So nothing another process does makes a call
start over: there is no retry and no waiting anywhere, which is the part of termination that
could be wrong in this code.  The bounds: a write of the store 12 steps, a selection 11, a
reader 2 * MaxRev + 4; a call of the kernel 91; a projection 3 * MaxLength + 23, a cached read
MaxLength + 7; a preview of access 2, a commit 6; an override's preview or commit 14; a report of N rows
14 N + 1, a freeze 42 N + 10.  One action is no step of a call and stays out: a caller that has
prepared an invocation may load the policy again before it caches (`Reload`).  What is missing
to `CallsReturn` and to the releasing of locks is that a step which is not the last one always
enables a next one; that needs ENABLED and is left to TLC.

Only model-checked: the liveness properties (`LockReleased`, `CallsReturn`,
`WrittenBecomesCurrent`), which are out of the prover's reach.  Every invariant and action
property of the passing runs is the statement of a theorem.

## 12. What the checks found

`OneWriter` states `docs/architecture/issue122-slice3-orchestration-kernel.md`: "Competing
attempts for the same action ID do not start a second write."  Two calls that both loaded no
receipt violate it: the second `prepare` returns the receipt which the first has already
claimed, and `_append` repeats the claim at that receipt's own generation.  Both calls reach
`persist_exact`.  The canonical store keeps the outcome right (the second write finds the
identical revision or fails its history check), and the other runs and theorems hold with
two writers; the claim as a fence does not hold.

`NothingOverwritten` states the docstring of `commit_publication_access`: it "does not silently
overwrite" a changed file.  Two commits that both passed the second comparison violate it: the
later rename removes the grant of the earlier one without a word.  `AddsExactlyItsGrant` is
what does hold, and `SoleWriterOverwritesNothing` shows that the docstring is right as long as
one process sets up access and nobody edits the file.

The proviso `agreed` of `AddsExactlyItsGrant` is a second window of the same code, and has no run
of its own: without it TLC refutes the property in `access_commit`.  The docstring of
`PublicationAccessPlan` calls a plan an "Immutable preview tied to exact current policy bytes",
but those bytes come from one read (`publication_authorization_setup.py`:175) and the grants from
another (:179).  If the policy is edited from A to B between them, the plan holds the digest of A
and the grants of B.  Usually the commit refuses it, since the file is B by then; if the file has
been put back to A, both comparisons pass and B with the new grant replaces A.  The same way an
invalid file can be replaced that was valid only while it was read a second time.

`FrozenWasReviewed` states `docs/decisions/0005-v03-grade-preview-and-reporting-snapshot-architecture.md`:
"This was what the teacher previewed."  A commit compares one observation with what was
reviewed, and then calls a freeze that makes two more and compares those with each other
only.  A change in between is frozen without having been reviewed.  What is frozen is still
of one moment (`FrozenWasOneState`).

Accepted by the code, visible in the models, and listed as hazards: a crash in a locked section
leaves the lock for ever; a rejected first write leaves an empty item directory on which
`list_grade_item_ids` fails; a process that dies between the selection and its checkpoints
leaves a receipt that nothing finalizes; a paused call may repeat a selection if another
teacher selects the baseline again in the meantime.  And one about overrides:
`docs/architecture/teacher-grade-overrides.md` says that "Normal teacher selection may select
only the latest authored immutable decision."  A selection compares the history before it takes
the lock, so a decision authored in between is later than the one it then selects.  The next
selection replaces it; the selection never moves back.

## 13. Not modelled

- The wording of confirmations, results and errors; JSON encoding and validation of fields;
  symlink and path checks; directory `fsync`.  They do not change which state is reached,
  except that a failing one raises, which the `...Fails` and `...Raises` actions allow.
- In the kernel, `observe` is one atomic read of the store; the store's own unlocked reads
  are split in `GradeItemStorage`.  `prepare` and `record_checkpoint` are one step each under
  the journal lock, with failures before and after the file is replaced.
- `list_receipts`, the class-wide limit on receipts, and two previews under one random
  128-bit action id.
- Of the projection: catalog discovery (a call starts with an arbitrary target), the evidence
  types and their serialization, the diagnostics report, foreign files in a cache entry.  A
  snapshot that is begun again after a failed attempt is assumed to get another name, as its
  moment of capture is part of it.
- Of overrides: a Grade, its rationale and the moment of a decision are abstracted to its
  author, so two decisions of one teacher about one result and the same moment are the same
  decision.
- Of reports: the reads of a calculation's assembly are abstracted to the activation and the
  evidence, the three calculation families to one.  Definitions, the provenance bindings of a
  snapshot, the selection of the current snapshot, the comparison of snapshots, their export
  and its receipts.  One process reports: others are shut out by the lock, and the exclusive
  creation of the two files, a second fence, is left out, so the model allows more there.
- The families other than Grade Item and attempt policy behind the kernel's port, and
  everything marked open in the plan.  Pure calculations (scales, proficiency, Grades) have no
  state; what matters about them to the modules here is which inputs a result was calculated
  from (`BasisOf`).
- Menus, navigation, rendering, reports and release scripts: presentation or read-only.

## 14. Running it

    tlc -workers 2 -config MCGradeItemStorage_select.cfg MCGradeItemStorage.tla
    tlc -workers 2 -config MCTeacherAction_race.cfg MCTeacherAction.tla
    tlc -workers 2 -config MCEvidenceProjection_context.cfg MCEvidenceProjection.tla
    tlc -workers 2 -config MCPublicationAccess_commit.cfg MCPublicationAccess.tla
    tlc -workers 2 -config MCGradeOverrides_decide.cfg MCGradeOverrides.tla
    tlc -workers 2 -config MCReportingSnapshots_freeze.cfg MCReportingSnapshots.tla
    tlapm GradeItemStorageProofs.tla

and likewise for the other configurations and `...Proofs` modules.  Every run takes from seconds
to two minutes; each proof module about two minutes.  Definitions marked "Faulty variant" are
mutations that `PROJECT.json` "mutants" substitutes for the definition they stand before; each
makes the property it is listed with fail.
