# Verification of COWBOT

This directory holds TLA+ modules that model COWBOT, the configurations with which TLC checks them on small
instances, and theorems about them that the TLA+ proof system (TLAPS) checks for every value of the constants.

COWBOT is two programs in one repository. One monitors a telemetry stream: it fits a predictor for each metric, turns
prediction errors into evidence, raises one alarm for each metric whose evidence crosses a threshold, and ranks the
alarms as root candidates. The other is the apparatus for evaluating the first on a *frozen holdout*, exactly once:
a sealed plan, a guarded runner, an executor, a publisher that claims a namespace and writes the results without
retry or rollback, and a verifier. The second is where the hard behaviour is (crashes, concurrent actors, partial
failures, one chance only), so it is modelled in most detail.

Contents: 1 inventory, 2 plan, 3 modules and code, 4 runs, 5 bounds, 6 fairness, 7 proofs, 8 what is only
model-checked, 9 disagreements, 10 what is not modelled, 11 running everything.

## 1. Inventory

Paths are relative to the repository. "Hard" names what a test would hardly reach; "correct" what has to hold.

### The frozen holdout

**One-shot result publication**, `cowbot/evaluation_publication.py`.
State: the directory `evaluation/results` (attempt marker, two staged files, two public files), its durability, the
phase of the call, which fixes the error code. Operations: `publish_evaluation_results` = claim by exclusive `mkdir`
and synced marker, bundle factory (the evaluation), validation, staged publication of `per-seed.v1.ndjson` and then
`summary.v1.json`, namespace checks before each, removal of the marker, final check, receipt.
Hard: a crash between any two system calls with any subset of unsynced names and bytes lost; overlapping calls;
somebody renaming the directory away. Correct: one evaluation in the life of the repository; the summary never
outlives the rows; public names are whole; a receipt is final; every call ends with a code that tells what is left.

**Result verifier**, `cowbot/evaluation_result_verifier.py`.
State: descriptors and identities of the files it has read; a listing; what git answered. It writes nothing. Entry
points: by path, and anchored at two retained directory descriptors. Hard: it takes no lock, and twenty sources, two or
three results and git are read one after the other. Correct: a receipt is about an instant that existed; a verdict on an
undisturbed bundle is the right one.

**One-shot runner**, `tools/run_frozen_holdout.py` (`perform_preflight`, `run_once`).
State: anchored descriptors, a sealed copy of the wheel and of the protocol, the snapshot of the distribution gate, the
receipt directory. Operations: preflight (each mutable thing is checked, and checked again last), publication with
the worker process as bundle factory, verification in another worker, receipt. Hard: everything checked can change
before it is used; the repository can be moved while descriptors keep pointing at it; the receipt is written after
the point of no return. Correct: each thing the intent says was true at an instant of the last look, when every retained
input was still the one retained; a receipt is issued only for the bundle that was published.

**Bounded child processes**, same file, `_run_bounded_process`.
State: a child in its own session, two pipes read through a selector, a deadline. Hard: output at the limit, helpers
that inherit the pipes, a child that does not die, a parent killed at any point. Correct: a result is the complete
output of a child that is gone; an error is true; nothing is left running; the call ends.

**Gate and private-tree snapshots**, same file, lines 1458-2079.
State: retained descriptors with metadata signatures and digests; private copies with an inotify queue. Hard: files that
change and change back between two looks; copies so young that a change within one tick of the file system's clock
leaves the signature as it was. Correct: an accepted gate is the one that was read; the child in the private tree
judged the bytes that were retained.

**Holdout protocol and namespace guard**, `cowbot/evaluation_protocol.py`: decoder of the frozen protocol, and
`assert_result_namespace_unclaimed`. **Result bundle documents**, `cowbot/evaluation_results.py`: canonical encoders and
decoders of rows, summary and attempt. Both are conversions; they keep no state.

**Holdout executor**, `cowbot/evaluation_executor.py`, and **plan, rows and reduction**,
`cowbot/evaluation_harness.py`.
State: the rows of the executor; the position, counters and `contract_valid` of the reducer. Operations: evaluate each
pair of arms (incident and control), reduce the executor's own rows, reduce rows read from anywhere. Hard: every
combination of failed arms and of lost, repeated, moved or damaged rows and exceptions of the iterator. Correct:
nothing that goes wrong can turn a rejection into an acceptance, and everything is accounted for.

### The monitor

**Telemetry contract and stream reader**, `cowbot/contracts.py`, `cowbot/stream.py`: schema, edges, samples; a lazy
reader with limits, strict order and a trailing probe.
**Monitor and alarm latch**, **Triage of alarms**, `cowbot/monitor.py`: replay over rows with one latched alarm for each
metric; topological order, minimum path lags, suppression of alarms an earlier ancestor explains, ranking.
Hard: several paths and parallel edges of different lags; alarms of ancestors after their descendants. Correct: schemas
are judged rightly; lags are minimal; no alarm disappears without a cause that is in the report; later rows take
nothing back.
**Linear algebra and numeric guards**, `cowbot/linalg.py`, `cowbot/_numeric.py`; **scenario simulator**,
`cowbot/scenario.py`: floating-point functions without interaction.

### Publication of ordinary outputs

**Paired simulation outputs**, `cowbot/cli.py`: stream and truth are staged and published as a pair, with or without
`--overwrite`, with backups and rollback. **Report and single-file publication**, `cowbot/report.py`,
`cowbot/stream.py`: one file, staged, synced, then replaced or linked. **Evidence recorders**,
`tools/record_evidence.py`, `tools/record_holdout_harness_evidence.py`, `tools/render_protocol_visual.py`: replacement
of committed files, manifest last, one of them transactional. Hard: a failure between two replacements, a failing
rollback, an interrupt, overlapping runs. Correct: the user is told the truth and former bytes still exist.

### Release

**Distribution gate**, `tools/run_distribution_gate.py`, `tools/verify_distribution.py`.
State: a fresh directory with two exports of one git tree, two builds, an sdist, an environment with the wheel
installed, outputs of a smoke run, and two receipts; digests in memory. Hard: each step takes by name what an earlier one
left, and the runner takes the directory later. Correct: what is sealed and run is of the tree the operator named.

### How they interact

    run_gate --> exports, wheels, sdist, two receipts               (DistributionGate)
    run_once --preflight--> git, sources, gate, private tree, namespace, twice
       |                                                            (FrozenRunner, PrivateTree)
       |  claim, factory, validate                                  (EvaluationPublication)
       |     factory = child process running the executor           (BoundedProcess, HoldoutRun)
       |     validate = reduction of the rows the child printed     (HoldoutRun)
       |  verify in another child, anchored                         (BoundedProcess, ResultVerifier)
       +  receipt, created exclusively                              (FrozenRunner)
    cowbot simulate --> stream, truth                               (StagedOutputs)
    cowbot inspect, analyze --> StreamReader                        (ReplayCommands)
       analyze --> replay --> triage                                (MonitorTriage) --> one file
    recorders       --> simulate, analyze, ... --> committed files  (EvidencePublication)

Calls are synchronous; the only shared state is the file system. Actors that overlap are other invocations of the same
program, the children, git, and whoever else can write there.

## 2. Plan

In the order of what matters most. Sections 3 to 8 describe what is done.

| # | Module | Composes | State |
| --- | --- | --- | --- |
| 1 | `EvaluationPublication`, abstract `OneShotNamespace` | implements `OneShotNamespace` | done, eleven theorems, the refinement among them |
| 2 | `ResultVerifier` | | done, three theorems |
| 3 | `BoundedProcess` | | done, five theorems |
| 4 | `HoldoutRun` (executor and reducer) | | done, five theorems |
| 5 | `StagedOutputs`, `EvidencePublication` | | done, nine theorems |
| 6 | `MonitorTriage` | | done, without the fit, six theorems |
| 7 | `FrozenRunner`: preflight, repeated checks, claim, worker, verification, receipt | `DistributionGate`, `PrivateTree`, with the claim, the worker and the verifier as one step each | done, six theorems |
| 8 | `ReplayCommands`: lazy reader, its limit and probe, its consumers, one-file publication | | done, four theorems |

Every invariant and every action property of a passing run is a theorem; the two liveness properties are not (section 8).

## 3. Modules and code

Every definition that stands for code is listed with its lines under `map` in `PROJECT.json`. One action is one system
call, callback or indivisible computation of the code; a handler that is a loop is an action for one turn.
Definitions whose name has an underscore (`Mkdir_ExistOk`) are *mutants*: they follow nothing, and stand for a
plausible bug each, by which a property is shown to depend on the code.

**`EvaluationPublication`.** `pc[r]` is the next system call of runner `r`, `stage[r]` the part of
`publish_evaluation_results` it is in, from which `FailCode` gives the error code of an `OSError`. The file system is
POSIX's: `live` and `disk` are the names in a directory and those known to be durable, `content` and `synced` the
bytes of the inodes and whether they are durable, `entry` and `diskEntry` what `evaluation/results` resolves to now
and after a crash. `Mkdir`, `OpenResults`, `SyncEvaluation` are the claim; `CreateFile`, `SyncFile`, `SyncDirectory`
are `_create_file` and the syncs, and between them a turn of the loop of `_write_all` is either `InterruptWrite` and
`RetryWrite`, or `OsWrite`, which takes any number of the bytes that are left, none included, and `AccountWrite`,
which counts them or raises (`offset` and `written` are the loop's variables); `EnterFactory`, `LeaveFactory`,
`ValidateBundle` the callbacks; `SecureSync`, `SecureCheck` are `_secure_namespace`; `LinkPublic`, `UnlinkStage` are
`_publish_staged_file`; `UnlinkAttempt`, `CheckFinal` the finalization. `Fault` is an `OSError` of any call, `Kill`
the end of the process, `Crash` of the machine: each unsynced name and file may survive or not. `MoveAside` and
`RemoveMarker` are the bystander. Two levels that the code opens (root and `evaluation/`) are one `entry`. The three
refusals before the claim are one action.

**`OneShotNamespace`** is what the above promises without files: a namespace is open, claimed or evaluated, artifacts
are recorded in order and never withdrawn, a receipt exists only for the pair, and a claim may be forgotten only while
nothing was evaluated. `ImplementsOneShot` is the refinement.

**`ResultVerifier`.** Bytes are abstracted to the run they belong to, an identity (device, inode, mode, links, size,
times) to whether the file was touched since a descriptor was kept. `pc` walks through the steps of
`_verify_open_evaluation_results`; `pending` is the rest of the pass over sources or results it is in. `anchored`
chooses the entry point; it decides where git is asked (`GitAnswers`) and whether the name of the root is compared.
`Environment` is everybody else: any file edited, created or removed, entries littered, the commit rewritten, the root
or `evaluation/` moved away and back, a failing call. `seen` is a history variable: the receipts that would have been
true at some instant so far.

**`HoldoutRun`.** `truth` is what the monitor finds in each arm, arbitrary and fixed. `ExecutePair` and `Abort` are
`execute_holdout`; the executor then reduces its own rows (`pc = "check"`, `ReturnRows`) and a reader reduces any stream
(`pc = "read"`): `ReduceRow` for each planned position, `ProbeExtra` for the one answer beyond, `NoIterator` if `iter`
itself raises, `Conclude`. An answer is a row of some position, a damaged row, the end or an exception. `actual` (the
endpoints of the truth) and `given` (every answer of the stream, in order) are history variables no action reads.
`MCHoldoutRun` has the two ways TLC looks at it.

**`BoundedProcess`.** The parent (`Spawn`, `Select`, `Read`, `Wait`, `KillGroup`, `Reap`, `Finally`) is
`_run_bounded_process`; `Arm` and `CheckParent` are the preamble of `_limited_python_code`. Children write, close, fork
a helper and exit as they like; bytes are counted. `Killed` is the death of the parent, with the kernel's signal to a
child that asked for it.

**`StagedOutputs`.** For each run of `cowbot simulate`, `pc` and `at` are the loop it is in and the output it is at:
`Preflight`, `Stage`, `Backup`, `Unplace`, `Copy` (the calls of `_backup_path`) and `Replace` (with `--overwrite`) or
`Link` (without), `Rollback` or `Unlink`, and the two `finally` blocks `TidyBackups` and `TidyStages`. `Fault`,
`Interrupt` and `Kill` differ in which handlers still run (`Finally`). `Foreign` is another program, which creates an
output, renames over it or removes it. Three settings are fixed at the start: which runs have `--overwrite`, whether a
run is `alone`, and whether others are `gentle` (only create). `displaced` records which outputs of a run without
`--overwrite` somebody else took away. Two things the code does, and the properties leave room for, by name:
- The clean-up after a failed link unlinks by name (`cli.py:231-233`). If a run with `--overwrite`, or another program's
  rename, has replaced the stream a run linked, and its link of the truth then fails, the clean-up removes that other
  file. `OthersAreKept` says of every run without `--overwrite`, among any others, that this is the only case.
- When `backup.unlink()` fails (`cli.py:169`), the rollback is complete and says "previous outputs restored", but the
  empty file of `mkstemp` stays, since no handler knows its name. `ReportIsTrue` says that only this report may leave one.

**`EvidencePublication`.** The two kinds of recorder share their steps; `transactional` tells them apart. `ReplaceTarget`
and `Note` are two steps because the code's rollback depends on the note. `Restore`, `Retain` and `Clean` are the rollback,
`_retain_failed_transaction` and the `finally` block of `main`.

**`DistributionGate`.** `gpc` is the step of `run_gate`; `gate[f]` are the bytes of a file below its root, told apart
only by how they relate to the tree the operator means: the same, with another file in the package, or with another file
elsewhere (metadata, the verifier, the build). `treeish` may be another tree than that. `Make` is a step that turns one
file into another; `Consistent` is the relation `verify_distribution` establishes; a receipt may be cut short.
`OutputsOf` says that a changed package may still write the right outputs.

**`PrivateTree`.** `VisitCopy` and `WatchCopy` are the snapshot of the private copies, `RecheckCopy` and `EndPass` each
pass over queue, signatures and digests, `ChildReads` the child between two of them. `MeddleWithCopy` may or may not
move the signature, since the clock is coarse and the copies are new: without the queue `ChildReadTheCopies` fails,
as its mutant shows.

**`FrozenRunner`** composes these two with the runner. `pc` names every check of `perform_preflight` in the order of the
code, the ones that are repeated at the end included (`LookAgain`), and then the steps of `run_once`. `RetainFile`,
`ReadReceipts`, `RecheckFile` are the gate snapshot; `kept` are the digests taken then, `touched` the files whose
signature somebody has moved since. `Reads` notes in the history `misread` a reading that is not followed by a look at the
signature; `Held` is one that is. `AskGit` is `_verify_git_state`: five children, one after the other, each a step.
`AskStatus` goes through the worktree part by part (`PartOrder`: the listed files of package and tools, the protocol, and
what no list names); it says something of our commit only if HEAD names it from its start on, which `steady` remembers
until HEAD is resolved (`AskHead`). Format, tree and second tell nothing more: another commit may have the same.
`ReadListed` is `_build_source_inventory`, which looks at the listed files only, one after the other, below the retained
root. `names` are what the names of the repository and of `evaluation/` lead to; a check that
goes by the name of a repository that was exchanged may find anything. `Claim`, `RecordRows`, `RecordSummary` stand
for the publisher, `Execute` for the worker and `Verify` for the verifying child: what they do inside are the modules
above. `FailCode` gives the error a failure at each step ends in; `INVALID_ROOT` and
`RECEIPT_EXISTS` may come before the claim or after it, and every error of the publisher is reported as aborted. What
somebody else does is `SomebodyElse`: change a gate file, at any time until the preflight is over, damage a receipt,
meddle with a copy, edit the worktree, move HEAD, exchange a directory, put another pair or another receipt.
Signatures of the gate's own files are taken to move with every change: they are older than the tick in which they are
retained. `witnessed` holds what the last look at each thing found while receipts and artifacts were all as recorded; it,
`strayed`, `misread`, `vouched` and `accepted` are history variables.

**`MonitorTriage`.** `Declare` builds any schema; `TakeReady` and `JudgeSchema` are `_topological_order` and its check;
`Relax` is one metric of `_minimum_path_lags`; `ObserveRow` is one monitored row for all metrics, which do not depend on
each other's evidence; `Rank` is the report, with `Explains`, `DownstreamCount` and `Before` for suppression, support
and sort key. Evidence is a level, since no decision of these functions looks at more than its order. The code works out
lags after the last row; they do not depend on rows, and the model works them out first so that each prefix of a
stream can be triaged. `Ranking` is the sorted list of the roots: `Before` orders them totally.

**`ReplayCommands`.** `kind[c]` says which of `inspect`, `analyze`, `write_path` command `c` is; `pc[c]` is its next
step. `HashStream` and `OpenStream` are the two openings of `inspect`, `ReadTelemetry` the one of `analyze`;
`TakeSample` hands one sample to the consumer and `EndOfStream` is the end of file or the one character looked for past
`MAX_SAMPLES`. A line is its index, or `Bad` if any other check refuses it. `Sync`, `Replace`, `LinkStage`,
`UnlinkStage`, `Tidy` are the publication of a staged file, the same in `write_path` and `publish_report_path`. A failure
between link and unlink reports an error although the name was given; the directory is not synced, so a crash
may also take the name back, which is what a kill just before leaves. `Crash` cuts what was not synced.

## 4. Runs

| Run | Distinct states | Shows |
| --- | --- | --- |
| `publication` | 16,918 | Two runners on one repository, any number of calls, failures, kills, crashes. `OneEvaluation`; `EvaluationIsRecorded` (what survives any crash says that an evaluation began); `SummaryIsLast`; `PublicNamesAreWhole`; `ReceiptIsFinal`; `OutcomeTellsWhatIsLeft`; `ImplementsOneShot`; `EveryRunEnds`, with any write interrupted, short or empty. |
| `publication_meddled` | 280,183 | The same with one act of a bystander at any point. `EvaluationsBounded`: a second evaluation needs one; `NoSummaryAfterEarlyHarm`, `ReceiptMeansUndisturbed`: the namespace checks hold summary and receipt back. |
| `verifier` | 4,404,344 | One verification, by path or anchored, from every initial content, against up to four changes. `VerifiedInstant`, `VerdictIsDeserved`. |
| `bounded` | 434,986 | One bounded call with every order of writes, closes, forks, exits, the deadline and faults. `ResultIsComplete`, `ErrorIsTrue`, `NothingIsLeftRunning`, `NoOrphanWorks`, `EveryCallEnds`. |
| `holdout` | 295,576 | Two pairs, every truth, every failing arm, every stream. `FailureNeverHelps`; `ValidMeansFaithful`: the contract is valid at the end of exactly the reductions that were given the executor's rows, in order, and then the end; `CountsAddUp`. |
| `staged` | 165,355 | Two runs on the same two paths, alone or overlapping, with another program. `ReportIsTrue`, `PreviousIsRecoverable`, `RivalsNeverMix`, `OthersAreKept`. |
| `evidence` | 21,118 | Both recorders, four targets, failing calls and restorations, interrupts, kills. `NewIsPrefix`, `FailureRestores`, `OldBytesExist`. |
| `triage` | 296,068 | Every schema of three metrics with up to six edges and every three rows. `SchemaIsJudged`, `LagsAreMinimal`, `SuppressionIsRooted`, `PrefixIsStable`. |
| `runner` | 2,094,193 | From the distribution gate to the receipt, with HEAD moved any number of times, two other acts of somebody else at any moment, any failing call, a kill anywhere. `SealedWheelIsOfTheTree`, `GateIsAsRead`, `ChildReadTheCopies`, `IntentWasTrue`, `ReceiptIsTrue`. |
| `replay` | 1,285,373 | Any two of `inspect`, `analyze` and `write_path` at once on one stream and one report, failing, killed, or stopped by a crash of the machine. `AcceptedIsExact`, `OutputsAreWhole`, `ExistingIsKept`. |
| `publication_marker` | | violated: section 9. |
| `evidence_interrupted` | | violated: section 9. |

Each property is explained where it is defined, at the end of its module. `CHECK_DEADLOCK FALSE` stands where a single
call is modelled that ends. The two publication runs check deadlock: a runner can always be called again.

Some conditions in the properties are there because the code does not give more.

- `VerifiedInstant` asks that no name by which git or a source is reached was moved (`NamesHeld`; for the anchored
  entry point the name of the root does not matter). Without it the verification *by path* can be led astray: the
  repository is moved away while git is asked and moved back before names are compared. The verifier's docstring calls
  the root "a filesystem trust anchor", and the runner uses the anchored entry point.
- `ReportIsTrue` and `PreviousIsRecoverable` exclude runs that a `KeyboardInterrupt` reached: between the two
  replacements only the `finally` blocks run, and they remove the backups. `RivalsNeverMix` is about runs without
  `--overwrite`: nothing keeps two overlapping runs with it from mixing their outputs. These are the two hazards of
  `PROJECT.json` without a property (`cowbot/cli.py:188` and `:221`): no text of the repository rules them out.
- `IntentWasTrue` is about several instants, not one: a clean worktree, HEAD and the listed files are told by different
  children and readings, and somebody who moves HEAD back after the status and before `rev-parse`, or edits a file once
  it is read, may have kept them from ever holding together. What the code gives is that each was found during the last
  look, with receipts and artifacts as recorded, since the gate is compared after it. For the listed files nothing else
  is asked, as they are read below the retained root. For HEAD neither name may have been moved after the runner opened
  it: an exchanged repository is told from the first only if a check falls into the exchange. For files that no list
  names HEAD must also have stood still from the status until it was resolved. Without any of these conditions TLC finds
  a counterexample.
  `ReceiptIsTrue` needs no such condition.
- `AcceptedIsExact` lets the digest of `inspect` differ from what it counted if the stream was replaced meanwhile: it
  opens the file twice.

What the properties of the newer runs rest on: `SealedWheelIsOfTheTree` on `docs/distribution-integrity.md`, which leaves
it to the one-shot publication to bind the completed artifacts independently; `OutputsAreWhole` and `ExistingIsKept`
on `docs/method.md:195-197`.

## 5. Bounds

- `publication`: two runners and three inodes. Properties relate at most one runner that goes on with others that have
  ended or compete for the same directory, and a run that ends may begin again, so a third runner adds only renaming.
  A runner holds one directory; a directory nothing refers to may be reused, so three are one for each runner
  and a fresh one. A file has two bytes (`Payload`), so that a write can take none, a part, the rest or all; the theorems
  hold for any number. `publication_meddled` has a fourth, since a directory can be moved aside and still be held, and
  `MaxMeddles = 1`: the properties are about one act; two could restore what the first broke. Runners and inodes are
  symmetric there. `publication` uses no symmetry, because it checks liveness.
- `verifier`: two runs (what is read is either the bundle's or not), two sources (the protocol, which is read twice and
  through another directory, and one other), four disturbances: enough to change something away and back on either
  side of a check twice. The theorem has no such bound.
- `bounded`: limits of two bytes and none, chunks and pipes of two bytes, at most three bytes ever sent: an output
  below, at and above the limit, a full pipe, and a read that takes only part of it.
- `holdout`: two pairs, thresholds 2, 1, 1, 1: each threshold can be met, met exactly and missed, and rows can be moved
  between pairs and between arms. The run has the view `Recorded`: the record `given` of the stream would multiply every
  state by the streams that lead to it; the view keeps its length and whether it is the beginning of the executor's
  rows, which is all the property reads and all that the next answer can change. The theorems hold for any number of
  pairs.
- `staged`: two runs, two paths, as in the code. The constraint `Telling` leaves out the executions in which no property
  says anything (every run overwrites and they overlap) or in which ruder programs do the same and more. The view `Seen`
  leaves out, where runs overlap, what only the properties of a lone run read and no action does (what a run found, its
  stages, its message). The theorems have neither.
- `evidence`: four targets, so that a rollback has a beginning, a middle, an end and a manifest.
- `triage`: three metrics with two possible lags (all acyclic and cyclic graphs, both of two parallel edges; of twelve
  possible edges up to six, which is every acyclic schema), three rows, levels 0 to 2 (below, at and above the
  threshold, so that peaks differ between alarms). `SchemaIsJudged` and `LagsAreMinimal` were also checked with
  four metrics, five edges and no rows (351,000 states), where paths of three edges compete.

- `runner`: two acts of somebody else: something can be changed and changed back, or two things changed in turn, which
  is what each repeated check is there for. Moves of HEAD are not counted, so it can be away for the status and back when
  it is resolved, in both questions. A gate file is no longer changed once the preflight is over, since nobody reads it
  then. The view `Told` takes runs that are over together by what the properties read, and the constraint `Begins`
  leaves out runs that find a listed file edited: only a change that puts it back takes them past the first inventory,
  and a file can be edited afterwards as well. The theorems have no bound on acts, no view and no constraint.
- `replay`: two commands; `MAX_SAMPLES` 2, one row before the first monitored one and one observation, so that a stream
  and a report can be below, at and above each limit; streams of up to three lines. The theorems have none of
  these bounds.

## 6. Fairness

- `publication`: `WF(Step(r))` and `SF(OsWrite(r))` for each runner. The only waits of a call are its callbacks, and the
  factory is a child process with a deadline (`BoundedProcess`). Its only loop is `_write_all`, where a signal may send
  any turn back (`InterruptWrite`): strong fairness says that not every call of `os.write` is interrupted for ever, which
  is weaker than what happens, since the interpreter itself repeats an interrupted call unless a handler raises (PEP 475).
  How much a call takes is not constrained: all may be short. The end is owed to the code, which counts what was taken
  and raises when that is nothing; with another turn instead (the mutant) `EveryRunEnds` fails. Nothing is asked of
  failures or the environment.
- `bounded`: `WF(Parent)`, since the parent is never blocked for longer than its select or wait timeouts, and
  `WF(Deadline)`, since time passes. Nothing is asked of the children: they may write, hold pipes open, or hang.

The other modules state safety only: their calls are loops over fixed lists.

## 7. Proofs

All theorems are checked by `tlapm` from the named assumptions on the constants only (the `ASSUME`s at the head of each
module), which TLC evaluates in the runs. A leaf cites what it uses; `THEOREM`s are at the end of each module.

**`EvaluationPublicationProofs`**, for any number of runners and inodes.
- `TypeCorrect == Spec => []TypeOK`. The type alone is not inductive: `Fail(r)` needs an error code for the stage, and
  the directory operations need an open descriptor. `RunInv` adds `Fits` (which program counters belong to which
  stages) and that a descriptor is held exactly from the open to the end of the run. How a run can move (`Goto`,
  `Enter`, `Stop`) is settled by one lemma each; then every action is one step.
- `AtMostOneEvaluation == Spec => []OneEvaluation`. The invariant is `Quiet`: while nobody meddles, `ClaimInv` holds: a
  run past its `mkdir` (`Owner`) holds the directory that the name leads to and there is at most one; past the sync of
  the parent (`Durable`) the claim survives a crash; an owner that has not entered its factory (`Fresh`) means no
  evaluation so far; and once there was one, the claim is durable for ever. `OneEvaluation` is not inductive without
  it: the step that matters is `Crash`, which forgets a claim only if it was not synced, and then no factory was entered.
- `EvaluationOutlivesEverything`, `SummaryComesLast`, `NamesAreBoundToWholeFiles`, `ReceiptsAreFinal`,
  `ErrorCodesTellWhatIsLeft`. The invariant is `QuietPub`: while nobody meddles, `PubInv`. `Progress` says for each
  stage and system call which names the owner's directory holds (`LiveAt`), which of them are durable (`DiskAt`) and
  which bytes are whole; while a file is written it ties a full count to whole bytes, and `LoopInv` keeps the counts
  of the loop of `_write_all` within `Payload`. A run may end after any of these calls and leave the directory like
  that; what remains true then is `Good` (no public name without its bytes, no summary without rows), `RecordedIn`
  and, after a receipt or a judged outcome, `Finished` or `Leaves`. Each is preserved by a crash because it speaks
  only of what is durable.
- `PublicationImplementsOneShot`, with `MaxMeddles = 0`: `Spec => ImplementsOneShot`. `Unevaluated` and `Recording` say
  once how the abstract state may change before and after the evaluation; `RecordedGrows` goes through the actions.
  A crash may make the summary durable that was only visible, but then, by `Good`, the rows already were.

- `EvaluationsAreBounded == Spec => []EvaluationsBounded`, whatever a bystander does. `BudgetInv` counts claims: each run
  between its `mkdir` and its factory (`Claimants`) may still evaluate, and so may one more while there is no directory
  (`Room`); evaluations, claimants and room together are at most `1 + meddles`. A run moves one unit from `Room` to
  `Claimants` to `evaluations`; only an act of the bystander adds one. That is not inductive over `Crash`, which
  makes room again: the last conjunct says that while the claim is not durable, what was evaluated or may be by a run past
  its sync was paid for by acts.
- `NoSummaryAfterHarm`, `ReceiptsMeanUndisturbed`: after the one act, a run it hit is `Disturbed`. Its directory is no
  longer the current one, or it is current, without its marker, and the run is the only one and past creating it
  (`Unmarked`). Either way the next look at the namespace ends the run, and one stands before every artifact.

**`ResultVerifierProofs`**, for any inventory, any number of runs and of changes.
- `TypeCorrect`, and `ReceiptIsOfAnInstant == Spec => []VerifiedInstant`. The instant is the second question to git.
  `HeldInv` and `CaptureInv`: an untouched file still has the bytes that were read, and they are the run's. `SeenInv`
  turns that round: after the question, if none of the files still to be visited was touched, the receipt was true at
  the question. Each comparison that follows discharges one file; at the end none is left. This is why the order
  "retain the sources, ask git again, compare" is right, for an inventory of any size.

- `VerdictsAreDeserved == Spec => []VerdictIsDeserved`. `Undisturbed` says what has been found to agree at each step of
  the verifier. A refusal is deserved if the bundle is `Consistent` with no run at all; the proof shows for each check
  that fails which conjunct of `Agreement` fails for every run.

**`HoldoutRunProofs`**, for every number of pairs and all thresholds.
- `TypeCorrect`; `FailuresCannotHelp == Spec => []FailureNeverHelps`; `ContractIsFaithful`; `Accounted`;
  `ExecutorNeverTrips`. The invariant of the second is `Dominated`: whatever the stream answered, the tally has at most
  the detections and localizations of the truth so far and at least its false alarms. It needs `TruthInv` (what a
  kind of arm can show at all), since a position that cannot be counted costs the one false alarm its arm could have
  given. `CheckInv` says that the executor's own stream is sound as far as it was read, so its check never fails.
  `ContractIsFaithful` compares a flag with a sequence: `GivenInv` says that while the contract is valid the record is
  the beginning of the executor's rows, of the length the reducer has read, and that once it is not, the record holds
  an answer that is none of theirs; an exhausted stream, where the record stops growing, has an invalid contract.

**`FrozenRunnerProofs`**, for any number of acts by others.
- `TheRightWheelIsSealed`, `NothingWasMisread`, `TheChildReadTheCopies`, `TheIntentWasTrue`, `TheReceiptIsTrue`. None
  of the five is inductive: each speaks of the end of a preflight of thirty-five steps. `SealInv` follows digests from
  the export that is made again out of the object database, over the relation the child's verdict establishes and the
  digest in the receipt, to the sealed wheel; nothing is assumed of the gate. `RetainInv`: an untouched retained file
  holds what was read. `ReadInv`: what was misread is touched, and the last pass has not come to it. `IntentInv`: the
  same for each thing the last look should have found by now (`Due`), which is why git and the lists are asked before
  the gate is compared again and not after. `PartInv`: a look at one part after another leaves none out. `TreeInv`:
  once all copies are watched, a change leaves an event for good; so a pass without one saw the written bytes, and a
  child between two such passes too. `ReceiptInv`: the last steps.

**`BoundedProcessProofs`**, for all limits, pipe and chunk sizes.
- `ResultsAreComplete`, `ErrorsAreTrue`, `GroupIsGone`, `NoOrphans`. `Counted`: what was read and
  what is in the pipe is what was sent. `Drained`: a stream that is no longer polled is empty and nobody holds it, which
  is why the end of file of both streams makes a result complete. `Killing`: once the group was sent the
  signal, child and helper can only end.

**`OutputProofs`**, of the two modules that publish several files. It extends both,
which is why `EvidencePublication` shares no name with `StagedOutputs`; the two specifications are independent.

`StagedOutputs`, for any number of runs:
- `RivalsAreKeptApart`, for runs without `--overwrite` beside programs that only create files. The stream is linked
  before the truth, so its name acts as a claim (`ClaimInv`): a run goes on to the truth only while the stream it linked
  is there, and only that run removes it.
- `NothingForeignIsLost`, for a run without `--overwrite` among any others. `HoldInv`: a name it linked and may still
  unlink holds its own file, or was displaced.
- `ReportsAreTrue`, `PreviousIsNotLost`, for a run that is alone. `TidyInv` follows a run's stages and backups, which are
  its own affair; `AloneInv` says for each step what the two paths hold: `Recoverable` (in place or in a backup) on the
  way forward and in the rollback, the former pair after a complete rollback, the new pair after success. Neither report
  is inductive: the rollback must know that the truth was not replaced, and `tidy_backups` that nothing needs a backup.

`EvidencePublication`, for any number of targets:
- `ManifestIsLast`, `PlainFailureRestores`, `FormerBytesExist`. Until an interrupt, the step tells exactly which targets
  are new, noted and backed up, on the way forward and on the way back.

**`ReplayCommandsProofs`**, for any number of commands and any limits.
- `AcceptedStreamsAreExact`, `PublishedFilesAreWhole`, `ExistingOutputIsKept`. A command is followed along its own program
  counter: what it has seen is in order (`Prefix`), it is past the end only if that was all (`Complete`), and what it
  gives a name is synced (`Durable`). All that another command can do to it is to replace the stream between the two
  openings of `inspect` (`StandsStill`, `Digested`).

**`MonitorTriageProofs`**, for any number of metrics, any finite set of lags, and any stream.
- `SchemasAreJudged == Spec => []SchemaIsJudged`. `OrderInv`: `incoming` counts the *open* edges of a metric, whose parents
  are not ordered yet; `ready` are the metrics left that have none; an ordered metric stands behind its parents. If a
  metric is left when nothing is ready, each of those left has a parent among them, which is what `Cyclic` says; if none
  is left, a cycle would have a member that comes first, and its parent comes before it.
- `PathLagsAreMinimal == Spec => []LagsAreMinimal`. `LagsInv`: after each metric that is followed, all lags solve the
  shortest-path equation over the edges from metrics followed so far (`Through`). The step changes only children of the
  metric, none of which was followed. `Far` stands for "no path" in the model, so a real lag must stay below it: by
  `Apart`, a lag is at most the largest lag of an edge times the distance in the order.
- `LagsAreThoseOfShortestWalks == Spec => []WalksAreMinimal` goes beyond the run: a lag is the least total of all walks
  along edges, of *any* length, and one of them has it. By least counterexample: the first node of a walk that is cheaper
  than its lag, and the first metric in the order whose lag is that of no walk.
- `SuppressionsAreRooted`, `PrefixesAreStable`. Lags obey the triangle inequality (`Triangle`), so whatever explains
  an explainer explains what it explains. Of the alarms that explain a metric the earliest is therefore not explained:
  it is a root, and the ranking, which exists because `Before` is a strict total order, holds it. An alarm of a later
  row comes after all others, so it can explain none of them: nothing that was reported changes.

`TypeOK` of the proved modules is proved and not repeated in their runs.

## 8. Only model-checked

Liveness (`EveryRunEnds`, `EveryCallEnds`): TLAPS has no rule for fairness that its installed backends carry out.

`ENABLED` is out of its reach too, so the two stay with the runs `publication` and `bounded`.

Nothing else is left to the runs. Results that would need induction over data with an operator as its parameter are out of
reach of the installed provers; where one is needed (walks, orders) the proof takes a least counterexample instead.
`WalksAreMinimal` is the opposite case, proved and not run: it quantifies over sequences of any length. No module declares
a `RECURSIVE` operator.

## 9. Disagreements between text and code

- `publication_marker`. `docs/frozen-execution.md:93` says "The summary is the sole completeness marker". A run that
  stops between the link of the summary and the removal of its stage name (`cowbot/evaluation_publication.py:237-245`)
  leaves a visible summary in a directory with a third entry, which the verifier refuses. Only the verifier's listing
  tells completeness.
- `evidence_interrupted`. `docs/evidence/README.md:30-34` says that a write which does not succeed rolls back, or
  retains the backups. A `KeyboardInterrupt` between `os.replace` and `published.append`
  (`tools/record_evidence.py:1479-1484`), or during the rollback, whose handlers catch `OSError` only (1506), leaves a
  target replaced, and `main` removes the stage with its backup (1608-1610).

## 10. Not modelled

- Floating point: ridge regression, numeric guards, scenario simulator, calibration and conformal ranks, Wilson
  intervals. TLC has no reals and the provers no floating point; no decision modelled here depends on their values,
  only on the order of evidence and on counts.
- Formats: JSON text and canonical encodings, ZIP, gzip, tar and wheel metadata, SVG, Markdown. Deterministic functions
  of bytes; the models use whether bytes belong together.
- The parsers of `verify_distribution` and the decoders of protocol, rows, summary and attempt: deterministic functions of
  bytes without state. The models have the relation they establish (`Consistent`, `Decodes`, the reduction of rows).
- The runner's confirmation token and other arguments, which are compared with constants. Whether the platform keeps
  what it promises: sealed memory files cannot be changed, inotify reports every write, a digest tells bytes apart.
- Inside the modelled parts: modes, owners and link counts of files are folded into "the check fails"
  (`Fault`, or `touched` in the verifier); path-shape checks before `cowbot simulate` starts; the text of messages; a
  `KeyboardInterrupt` that arrives inside the exception handler of `_run_bounded_process`.

## 11. Running everything

    tlasany EvaluationPublication.tla
    tlc -workers 2 -config publication.cfg MCEvaluationPublication
    tlapm EvaluationPublicationProofs.tla

Each run's module and configuration are listed under `runs` in `PROJECT.json`, each mutant under `mutants`: with the
body of `of` replaced by a use of `as`, TLC finds the property violated.
