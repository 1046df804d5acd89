# UpgradeLab in TLA+

A model of UpgradeLab, the durable backend for dependency upgrade repair: its
run store with leases, fencing tokens and an effect ledger, the repair pipeline and
the OpenRath workflow that work in Git worktrees on top of it, and the parts
around them: context selection, the repairer's request, the patch policy,
bytecode, the queue of runs, reports and the benchmark. The definitions are
translated from `src/src/upgradelab/`; `PROJECT.json` names, for each of them,
the lines it stands for. Line references below are to that directory.

## The system

| component | state | operations | interacts with |
|---|---|---|---|
| run store (`store.py`, `models.py`) | one SQLite database: runs, effects, checkpoints, events | ten writing operations, each one `BEGIN IMMEDIATE` transaction; four reads | called by every worker process and by the OpenRath adapter |
| repair pipeline (`pipeline.py`) | local variables of `_execute` | head check, reproduce, repair, apply, verify, checkpoint, judge, complete; `_fail` | store, workspace, repairer |
| workspace (`workspace.py`) | the files of a Git worktree, the bytecode beside them | run a command, `apply_patch`, reverse check, delete bytecode | store (effect ledger), git, the test commands, Python's import |
| command line (`cli.py`) | none | submit, worker, show, events, report, demo | all of the above |
| OpenRath adapter (`openrath.py`) | OpenRath's own step state | reproduce, repair, apply, verify as retried steps | store by `acquire_run`, workspace |
| context selector (`context.py`) | local variables of `select` | seeds from a traceback, neighbours from imports, a budget | reads the worktree; called by the pipeline |
| repairers (`repairers.py`) | none | read the selected files, ask a process, check its answer | worktree, repairer process |
| patch policy (`policy.py`) | local variables of `inspect` | scan a patch, judge it | pipeline and `apply_patch` |
| report (`report.py`) | none | three reads and a page | store, while workers write |
| benchmark (`benchmark.py`) | none | repair case after case, record results | a store, a worktree and a pipeline for each |
| fingerprints, errors | none | hash; exception types | all |

What is hard. Worker processes share nothing but the database and the worktree.
A worker may die or stall between any two steps; its lease runs out and another
worker, very likely with the *same* owner name (`local-worker` is the default),
takes the run over under the next fencing token; the first may then wake up.
The store fences the writes of the first; nothing fences its `git apply`. The
operation in the ledger and the patch in the worktree are two pieces of state
that no transaction covers. Every operation reads the clock before it waits for
the write lock (`store.py:200-202`, `315-316`). SQLite bounds that wait; nothing
bounds how long the process stalls around it, so an operation may act on a time
that is arbitrarily old.

Under OpenRath there is a second durable store, and no transaction covers both.
All attempts of a workflow share one owner name, and a retry re-enters the live
lease of the attempt it replaces, which may still be running. What a test
executes is not always the source that is there: Python trusts bytecode of the
same second and size. What is measured of a file, what the repairer is shown of
it, and what is patched are three moments. And a set of paths has another order
in every process.

What makes each component correct:

- *store*: a token names one holder; writes to a run are in token order; a live
  lease is never taken; a late holder is shut out at a takeover; an ended run is
  frozen; the
  audit events explain the rows; the ledger has one executor at a time, one
  request per key, and never loses a confirmed result.
- *pipeline and workspace*: a run that succeeded really has its patch in the
  worktree, passing test and acceptance; at most one patch per run; what the
  ledger confirms is there; every run ends; an interrupted patch is reconciled.
- *OpenRath adapter*: the two stores tell one story, under step retries that
  re-enter a live lease; one executor at a time; every workflow ends.
- *bytecode*: a verification executes the source it is about.
- *context and repairers*: budgets are kept, nothing is left out that fits, what
  is withheld is not shown, and the evidence says what was shown.
- *policy*: an accepted patch touches what it declares and nothing protected.
- *queue*: no run waits for ever behind another.
- *report and benchmark*: what they say of a run is what the store holds.

## Modules

**EffectContract** is the abstract specification of the effect ledger: a run
goes through epochs, an operation is idle, open, in doubt, done or void, and
five actions say who may move it. It has no leases, no clock and no rows.

**RunStore** is `SQLiteRunStore`. Its variables are the tables (`runs`,
`effects`, `checkpoints`, `events`), the wall clock, and `leases`, every `Lease`
value ever handed to a caller. An action is one committed transaction; an
operation that raises rolls back and changes nothing. Callers are arbitrary: any
lease of `leases` may be used at any later time, so stalled, dead and revived
workers, duplicated calls and calls in any order are all included.

| code | definition |
|---|---|
| `create_run`, `claim_next`, `acquire_run` | `CreateRun`, `ClaimNext`, `AcquireRun` and `ReenterRun` (re-entry writes nothing) |
| `_require_lease` | `HoldsLease` |
| `renew_lease`, `transition`, `advance_stage`, `record_checkpoint` | the actions of the same names |
| `begin_effect` | `BeginEffect`, by outcome: `EffectStarts`, `EffectRestarts`, `EffectBecomesUnknown` write; `EffectConflicts`, `EffectReplays`, `EffectUnsettled` do not |
| `finish_effect`, `reconcile_effect` | `FinishEffect`, `ReconcileEffect` |
| `now = self.clock()` before the transaction | the parameter `now`, from `ClockReads`: any time up to the present |

Data is abstracted: a task, a request (name and hash), a result and an error
message are members of small sets. Events keep what properties look at (type,
operation key, status or stage reached) and additionally the owner and token
the transaction was admitted with, which for some event types the payload does
not store: it is a history of who wrote. `updated_at` and the `error` column of
an effect are left out, as is `expires_at` of a `Lease` value, which no caller
reads. The compare-and-swap on `revision` cannot fail inside an immediate
transaction, so only the increment is modelled.

**GitWorkspace** extends RunStore with worker processes and worktrees, and has
what the two programs over them share: `apply_patch` under the ledger and the
measurements of a verification. A worker is a record: the next thing it does,
its lease, its candidate, and what it measured. Each store call, each command
and each pure decision is an action of its own, so anything may happen in
between. `since` says when each process was done with its last step (`Over`): the
clock of a store call was read then or later (`ReadsOf`), and the call may stall
for any time before it is committed. A process whose lease has run out may so
commit the one call it was in, however late, as long as nobody has taken the run
over. `GitApplyKilled` is the timeout of git, before or after it wrote. A
worktree is the set of patches applied on top of its HEAD. Constants say which
patches fix a run's test, which pass its acceptance command, which apply to the
base commit, and which touch the same files; git refuses a patch that does not
apply or that meets one of those. The requests of the ledger are the patches.
Deliberately simplified: commands are deterministic, and a run passes as soon as
one patch that makes it pass is there; git applies a patch wholly or not at all;
nobody but the workers edits a worktree; the fingerprint for an effect's
evidence is read in the step of the transaction that stores it.

**RepairPipeline** is the worker command's program. `Raises` is any exception
that `execute` turns into a failed run (`pipeline.py:58-64`), also one of
`transition` after its commit, when it reads the run again (`store.py:348`);
`LoseLease` is `LeaseLost`, which it does not; `Crash` is the end of a process.

**OpenRathWorkflow** is the adapter's program over the same GitWorkspace. Its
variable `outer` is what the OpenRath runtime persists of a workflow: the step
it is at, how many attempts of it raised, the candidate the repair step
returned, and who runs the current attempt. The runtime is not in the
repository; the model takes from the adapter's declarations that an attempt that
raises is repeated as its `RetryPolicy` says, that an attempt may be given up
(`GiveUp`) while its process goes on (`IsCurrent` is then false and what it
returns is dropped), and that a submission is idempotent. `Acquire` is
`acquire_run` with its three outcomes: a new lease, the live one again, an
exception. `StoreSuccess` is the commit of the successful transition: the step
returns after it (`Complete`) or raises (`SuccessUnreported`, `store.py:348`). A
constant `KeyOf` gives every patch its operation key.

**ReportReader** is `write_html_report` beside an arbitrary store: three reads,
on three connections.

**ContextSelector** is `select`: seeds, expansion seed by seed, then one action
per candidate. A checkout is a record of sizes, dotted names, imports, withheld
files and the traceback. `rank` is the order in which this process iterates over
a set of paths, chosen when a call begins. The design document
(`UpgradeLab项目设计.md:43`) wants direct callers before the rest; the code lists
what a failing file imports before what imports it, and so does the model.

**RepairRequest** extends ContextSelector with `SubprocessRepairer.propose`,
while a stalled worker's one patch may change the files (`Disturb`; `stalled`
says that it has yet to come).

**PatchPolicy** is `inspect`, one action per kind of line. A line is told by how
it starts, by the names on it, and by what it is to git (`role`, and in `git` the
paths that git takes from it), which the code does not look at and the properties
do. The two sorts of names part ways where git reads headers that the scan skips
(`rename to`, `copy to`), takes off another prefix than `a/` and `b/`, or reads a
name with blanks or quotes differently. `ReadForGit` is the hypothesis that they
do not, in a patch.

**BytecodeCache** is a worktree's one patched file, its bytecode, and the test
commands that import it in three steps (look, read, write), under the lease and
ledger protocol reduced to what decides who runs when. A test command survives
its worker. Clock readings may be of any age, so a claim may come with an expiry
that is already past.

**WorkerQueue** is the queue over many runs without a bound on time, so that
starvation can be stated: a run's lease is live or lapsed, nothing more. Assumed:
a claim is committed promptly after its clock reading, and opening a worktree
takes less time than a lease lasts.

**BenchmarkSuite** extends RepairPipeline with the driver that takes its cases
through it. It has one RunStore stand for the stores of all cases, which share
nothing and follow each other.

The `MC` modules are the instances for TLC; the bounds on clocks and events are
there and in no other module. The modules whose names end in `Proofs` hold the
theorems:

| module | about |
|---|---|
| `RunStoreProofs`, `ReportProofs` | RunStore and its contract, ReportReader |
| `WorkspaceProofs` | lemmas on what a step of any program over GitWorkspace leaves true |
| `PipelineProofs`, `BenchmarkProofs` | RepairPipeline, and BenchmarkSuite, which refines it |
| `WorkflowProofs` | OpenRathWorkflow |
| `ContextProofs` | ContextSelector and RepairRequest |
| `PatchProofs` | PatchPolicy and BytecodeCache: a patch before and after it is applied |

## Runs

| run | configuration | shows |
|---|---|---|
| `store` | `MCReport.cfg`: 1 run, 2 owners, 1 key, 2 requests, clock to 2, 6 events; a page while there are 4 | rows name a holder exactly while held; a token names one lease; writes are in token order; no live lease is taken over; ended runs are frozen; the audit log explains status, stage, token and holder, and the ledger (except for the restart of a failed operation, which has no event, `store.py:515-531`); the ledger implements EffectContract; a page of an ended run is final, a timeline reaches its row, the checkpoint shown is the latest listed |
| `pipeline` | 1 run, 2 workers of one name, 4 patches, clock to 2, fair | a success is verified; one patch per run; verification is of the confirmed patch; what is confirmed is applied; one worker per token; at most the call a worker is in goes through after its lease ran out; every submitted run ends |
| `openrath` | 1 workflow, 2 workers, 3 patches, clock to 1, fair | success in both stores or in none; a success is verified; one executor per lease; only the persisted candidate; every workflow ends |
| `request` | 3 files, every import graph, tracebacks of up to 2 paths; files of changing size, 7 kinds of answers | budgets; nothing left out that fits; exact truncation; failing files first; the evidence names what the repairer was shown, and nothing withheld |
| `policy` | every patch of up to 4 lines of 15 kinds, every declaration | accepted paths are declared and unprotected, if the headers name to the scan what they name to git; a plain patch is judged by its headers |
| `bytecode` | 2 workers, 3 test commands, 3 seconds | a verification executes the patched source; a confirmed operation needs no invalidation |
| `queue_served` | 3 runs, one without a worktree, 2 workers, fair | the other runs end |
| `benchmark` | 2 cases, clock to 3, clock readings as old as the driver's last step | pipeline and store never diverge; the suite counts what the worktrees show |
| `waiting` | `MCRunStore`: 1 run, fair claims and time | **violated**: expiry recovery |
| `pipeline_recovery` | 1 run, 2 workers, 1 patch, without fairness | **violated**: an interrupted patch is reconciled |
| `pipeline_zombie` | as above | **violated**: an ended run's worktree is frozen |
| `openrath_retry` | 1 workflow; crashes, and git killed by its timeout | **violated**: a patch that is there is accepted by the retry |

Eight further configurations each check one property that a document suggests
and the code does not keep; TLC finds every one violated within a minute. They
are kept beside the runs for whoever takes up the point:

| configuration | module | property |
|---|---|---|
| `MCPipelineShared.cfg` | `MCRepairPipeline` | `SuccessIsItsOwn`: a success is due to the run's own patch (2 runs, 1 worktree) |
| `MCOpenRathStored.cfg` | `MCOpenRath` | `StoredSuccessReported`: a stored success is reported |
| `MCOpenRathEnded.cfg` | `MCOpenRath` | `EndedTogether`: a workflow that ended has ended its domain run |
| `MCContextOrder.cfg` | `MCContext` | `Reproducible`: the same failure has the same context |
| `MCRequestBound.cfg` | `MCRequest` | `RequestBounded`: the request keeps the byte budget |
| `MCPatchPolicyContent.cfg` | `MCPatchPolicy` | `ActualPathsDecide`: the diff of a file whose paths are in order is not refused |
| `MCWorkerQueueGone.cfg` | `MCWorkerQueue` | `EveryRunSettled`: every run ends (2 runs, fair) |
| `MCWorkerQueueCandidates.cfg` | `MCWorkerQueue` | `CandidatesBounded`: at most two candidates |

Why the bounds are enough. A lease lasts one tick, so a clock that reaches *n*
allows *n* + 1 leases of one run, two or three takeovers in every instance:
executor, successor, and in most of them a successor of the successor that finds
the doubt already recorded. Clock readings are of any age in the store, and of any
age since its last step for a worker. Runs share no rows; the
order of claims among several is in `queue_served` and `benchmark`. Six events
hold a full story of one operation: created, claimed, started, recovered,
doubted, settled. While a page is written the `store` run has no operation and
four events (created, claimed, a checkpoint or a stage, the end): the page does
not show the ledger, and reads an operation's events as it reads any. Four
patches are the kinds the pipeline tells apart: one that passes everything, one
that only satisfies the visible test, one that fixes nothing, one that git
refuses.
Where nothing but safety is checked, owners and workers of one name are declared
symmetric. Runs do not check for deadlock,
since the clock stops and all runs may have ended.

Two workers are the current attempt and one that was given up; a third would be
a second of the latter kind. The clock to 1 allows a lease, its expiry under an
attempt that goes on, and the takeover; the safety properties are also checked
with a clock to 2 (`MCOpenRathLonger.cfg`, by symmetry of the workers). The
`openrath` runs tell states apart by a VIEW that leaves out the audit events,
the handed-out leases, all checkpoints but the last, and the counters of a row:
histories that no action of the workflow and no property of these runs reads,
and that retries would let grow for ever. Three files are a failing one, one it
imports and one that imports it; one name may belong to two of them. In
`request`, requests are made in the checkouts that a stalled worker's patch may
change, and every other checkout is for the selection. Four lines are the three
headers of a file and a line of it. Three seconds are a claim, a takeover and
the takeover of that; three test commands are two that are waited for and one
that lost its worker. `MaxCandidates` counts to one more than the documents
allow.

### Fairness

`pipeline` assumes that time passes and that every worker takes its next
step if it stays able to: an operating system schedules a live process, and the
worker command is run again whenever a worker has ended (it handles one run per
call, `cli.py:74-89`). It does not assume that a crash ever happens or stops
happening; a crash is possible as long as the lease still runs out before the
clock stops. `MaxClock` has one effect that is an assumption about the world:
the last attempt is not overtaken by its expiry. Nothing in the pipeline renews
a lease, so a run whose attempts always take longer than the lease (300 seconds,
with commands of up to 120 seconds each) would indeed be repeated for ever.
`waiting` assumes that time passes and workers keep asking for the run.

`openrath` assumes that the runtime starts, records and repeats attempts,
that it notices a process that is gone, that time passes and processes go on,
and that in the end nothing crashes and no attempt that goes on is given up. It
does not assume that a retry gets a fresh lease; it mostly does not.

`queue_served` assumes that workers go on and stop crashing, that leases lapse,
that an attempt which begins again and again fits into a lease at last (strong
fairness of `End`), and that a run which is again and again the next in line for
an idle worker is claimed (strong fairness of its claim). The last assumption
says that workers are called more often than a lease lapses. It is needed: if
every call comes just after the unfixable run's lease has lapsed, the code gives
each of them that run, and the others wait for ever.

## Disagreements between the code and its documents

The first four are runs, the others the further configurations.

1. `waiting`. Claims consider RUNNING rows only (`store.py:205`, `246`) and an
   expired holder is refused everything, so a WAITING run whose lease ran out
   can never be resumed, canceled or failed. The README promises expiry recovery.
   No caller in the repository moves a run to WAITING yet; the store lets it.
2. `pipeline_recovery`. A worker is lost after `git apply`, before the
   confirmation. Its successor reruns the test first (`pipeline.py:73-75`),
   sees it pass thanks to the very patch, and fails the run as not reproducibly
   failing. The reconciliation the project page describes is reached only if the
   interrupted patch did not fix the test.
3. `pipeline_zombie`. The lease is checked before `git apply`, not during it; a
   stalled worker patches the worktree of a run that was taken over and ended.
4. `openrath_retry`. The apply step is declared idempotent and repeated up to
   three times, but a repetition inside the lease re-enters under the same token.
   The ledger takes the operation for the repetition's own (`store.py:532`), so
   it is not put in doubt and cannot be reconciled, and the workflow fails with
   its patch in the worktree. Only a repetition after the lease ran out recovers.
5. `MCPipelineShared`. Two runs for one worktree see each other's patches; one
   may succeed with a patch that does nothing. The design document gives each
   candidate its own worktree; `submit` does not.
6. `MCOpenRathStored`. If the success was stored and the attempt was lost before
   it returned, or raised because `transition` could not read the run again
   (`store.py:348`), the next attempt cannot acquire the ended run and fails. It
   takes one of these (theorem `StoredSuccessIsReported`).
7. `MCOpenRathEnded`. Only the verify step ends the domain run; after a failure in
   an earlier step it stays open, and the queue's workers may claim it. At the
   verify step it takes an exception or a lease that ran out (theorem
   `FailedVerificationEnds`).
8. `MCContextOrder`. Which importers the budget admits, and which of two files
   with one module name an import leads to, depends on the order of a set.
9. `MCRequestBound`. The byte budget is kept by sizes at selection; the contents
   are read later.
10. `MCPatchPolicyContent`. A removed line `-- x` or an added `++ x` is taken for a
    file header, so the proper diff of a declared file is refused. On such lines
    the scan errs on the strict side (`AcceptedPathsDeclared`). It does not where
    git reads names that the scan does not: a patch that renames or copies a
    declared file onto another by extended headers (`rename to`, `copy to`), or
    whose paths have other prefixes, or blanks and quotes, may be accepted although
    it changes a file that is not declared, or is protected. The repository's
    README (lines 106-107) says that the actual paths of a patch must match the
    declaration; that holds under `ReadForGit` only.
11. `MCWorkerQueueGone`. The worktree is opened between the claim and `execute`.
    If it is gone the exception ends the process and the run is never failed.
12. `MCWorkerQueueCandidates`. Attempts, and with them candidates, are not limited;
    `max_rounds` (`models.py:51`) is stored and read nowhere.

Two results that came close to being violations deserve a reader's attention.
In `bytecode`, a test command that lost its worker may write bytecode of the base
after the invalidation. It is harmless because it writes the second it read
before, and the patch of a successor comes at least one lease after the claim: a
lease of less than a second would break `VerifiesPatchedSource`. In the page of `store`, the
order row, events, checkpoint is what makes the page hold together: each of the
two other orders that were tried breaks a property.

## Proofs

Every safety invariant and action property of the passing runs is a theorem. The
theorems hold for every set of runs, workers, owners, keys, patches,
worktrees, files, lines and tests, every lease length, with no
bound on clocks, events or retries. Each rests on an inductive invariant that
TLC checked before it was proved. (The MC modules extend the proof modules for
this; a configuration is for the MC module of the same instance.)

| invariant | configuration | distinct states |
|---|---|---|
| `PipelineInv` | `MCPipelineProofs.cfg`: the instance of `pipeline`, without fairness | 579,721 |
| `PipelineInv` | `MCPipelineProofsShared.cfg`: 2 runs in one worktree | 4,200,976 |
| `WorkflowInv`, `FindingsInv`, `DomainInv` | `MCWorkflowProofs.cfg`: the instance of `openrath` | 269,932 |
| `AttendedInv` | the same with `SPECIFICATION AttendedSpec` | 190,652 |
| `FailureInv` | the same with `SPECIFICATION UninterruptedSpec` | 199,796 |
| `WorkflowInv` | `MCWorkflowProofsShared.cfg`: 2 workflows in one worktree, 1 patch | 3,274,100 |
| `SuiteInv`, `PipelineInv` | `MCBenchmarkProofs.cfg`: the instance of `benchmark` | 55,823 |
| `ContextInv`, `CompleteInv`, `RequestInv`, `QuietInv` | `MCContextProofs.cfg`: the instance of `request` | 1,964,052 |
| `BytecodeInv` | `MCBytecodeProofs.cfg`: the instance of `bytecode` | 135,645 |

### Assumptions

The assumptions on constants are those the modules name, and TLC evaluates them
in the runs. Most are typing. The others, with their reason:

- `StoreAssumption`: run ids are numbered, NULL (`None`) is not one of the other
  values, a lease has a positive length.
- `EvidenceAssumption`, `PipelineAssumption`: the store's text columns take the
  evidence and the error messages that the programs write. The pipeline has one
  operation key.
- `WorkflowAssumption`: nobody (`None`) is not a worker.
- `SuiteAssumption`: the cases of the benchmark have a worktree each
  (`benchmark.py:184-190`); a command that did not run has no outcome.
- `RequestAssumption`: a patch does not change which files are withheld, which
  depends on their paths alone (`policy.py:122`).
- `BytecodeAssumption`: a lease lasts a second at least.

`WorkflowSuccessVerified` has a hypothesis besides: `Unshared`, every run has a
worktree to itself. It is needed. Attempts of the verify step may overlap within
one lease, and a checkpoint belongs to the run, not to the attempt. If two runs
share a worktree, the patch of the other may come between the measurements of
the two attempts; they differ, one attempt completes the run with what it found,
and the last checkpoint has what the other found. TLC shows this with two
runs in one worktree, 49 steps deep. The pipeline does not have this problem (a
worker writes its checkpoint under a token that is its own), and
`SucceededRunVerified` no such hypothesis.

### The store and its readers

`Inv` is typing, `LeaseWellFormed`, `TokenOrder`, `OneHolderPerToken` and
`FencedWrites`. None of the last two is inductive alone: that a new token is
fresh needs every lease and event to be at or below the run's token
(`TokenOrder`), and that an admitted caller's token *is* the run's token on a
held row needs the row to name nobody otherwise (`LeaseWellFormed`, via lemma
`Admitted`). One lemma per operation says what it writes; `StepKinds` reduces
every step to four kinds (created, granted, re-entered, written by the holder)
or an unchanged store, and the invariant, the action properties and the
refinement argue about the kinds only. From it: `TypeCorrect`,
`HeldRunsNameHolder`, `TokensInOrder`, `TokenNamesOneHolder`,
`StaleWritesRejected`; the action properties `FinishedRunsFrozen`,
`LiveLeasesRespected`; and `LedgerImplementsContract`, the
refinement of EffectContract with `Slots` and `Epochs` as the mapping.

`AuditInv`: the log explains row (`LogExplainsRow`) and ledger
(`LogExplainsLedger`), and has one event per checkpoint, which only the page
needs. The two are inductive over `Inv`; what makes them so is one lemma per
operation that says which event it appends and what it leaves alone, and one
lemma on the last event of a kind in a log with one more event.

ReportProofs, for any number of report processes beside any store: what was read
of an ended run is still true (`ReportOf`), since an ended run does not change
(lemma `EndedRunFrozen`); hence `EndedPageIsFinal`. Of a run that goes on, the
log is read after the row, so some beginning of it explains the row
(`TimelineExplainsRow`); and the checkpoint is read after the log, so it is none
of those before the last one listed (`ShownCheckpointIsLatest`). `PageInv` says
that for each place a reader can be at.

### The programs over store and worktree

WorkspaceProofs says, for any program, what each action of GitWorkspace does to
store and worktree. `Knows(w, k)` is what a process knows from what it did or
read, and what nobody takes back, although nothing is locked: that the operation
was begun with its own patch, is confirmed, that the patch is there, that the
test passed. It stays true when the process stalls and others go on, because
ledger and worktrees only grow (`StoreGrows`, `TreesGrow`) and because whoever
moves the ledger is honest (`Honest`): it confirms only what is in the worktree,
and patches the worktree only with what was begun.

`PipelineInv` is `Inv`, typing, `Standing` of each worker (it works under a
lease of its run, what it knows is so, and while its token is the run's it judges
what the last checkpoint recorded), `OneWorkerPerToken`, `ConfirmedIsApplied`,
`AppliedIsBegun` and `SuccessIsVerified`. Each part needs others: a confirmation
is true because of what the worker knows; a success is verified because the last
checkpoint is its own, and that needs the token to name one worker. That a
worktree gets one patch follows from `AppliedIsBegun` and the ledger's one
request per key. `PipelineUsesStore` has every behaviour of the pipeline as one
of `StoreSpec`, so what is proved of the store holds of it
(`PipelineRunsStayEnded`, `PipelineFollowsContract`). `OneLateCallAtMost`: the
clock of a call is no older than the step before it (`SinceTyped`, `ReadsOf`), so
once the expiry lies before that step the holder is refused, and so is everybody
else since the token names one worker; only a takeover writes.
`OwnWorktreeOwnSuccess`
bounds the fifth disagreement above: without shared worktrees a run succeeds on
its own patch.

`WorkflowInv` adds what the runtime persists: `OneCandidate` (the ledger of a
run has at most the operation of the persisted candidate, and the verify step is
reached with that confirmed), `DomainSucceeded`, and per process `Brings` (what
the current attempt brings back) and `ExecutesStarted` (a process that executes
an operation under the run's token is the one the ledger was told of), without
which `OneExecutorPerLease` is not inductive: attempts that share a lease are
told apart by the ledger alone. `FindingsInv`, under `Unshared`: whatever attempt
of the verify step measures, it finds what the candidate alone decides
(`Finding`), so overlapping attempts write the same checkpoint and the same
result.

Two more theorems bound the sixth and the seventh disagreement above: each says
which steps of the environment the counterexamples need, as a hypothesis that
these steps do not occur. `StoredSuccessIsReported`: a success is lost only if an
attempt of the verify step is given up while it goes on, is gone between its
last store call and the runtime's, or raises after that call was committed
(`AttemptLost`); exceptions elsewhere, other crashes, lapsed leases and
repetitions do no harm. `FailedVerificationEnds`: a workflow
that fails in its verify step leaves the domain run open only if a current
attempt raised from outside or had lost its lease (`VerifyInterrupted`); crashes
and given-up attempts do no harm. TLC reaches a succeeded run under the first
hypothesis and a failed verify step under the second. Both rest on `DomainInv`:
only a workflow under way has a current attempt, and its domain run never waits
and is leased under the workflow's owner name alone, so acquire_run refuses only
a run that has ended. (That is so among attempts of workflows. Beside workers of
the queue, which may claim the domain run, the verify step can be refused a
lease that is another's.) `AttemptStep` says what any step of an attempt does to
domain run and process, `RuntimeStep` what any step of the runtime leaves alone.

BenchmarkProofs: `SuiteIsPipeline` makes the suite a behaviour of the pipeline, so
`PipelineInv` is at hand. `SuiteInv` adds that a worktree holds the patch of its
case at most, that the driver's measurements are still so when it reports them
(`Aware`; it is the only worker), and that settled cases were counted as the
store has them (`Counted`). Hence `SuiteNeverDiverges` and `SuiteResultVerified`.

### Context, request, policy, bytecode

`ContextInv`: what is listed is within the budgets, without repetition and never
withheld, and everything listed has been seen (`Listed`), which is why nothing is
listed twice. `CompleteInv`: what a call has seen, the candidates to come and the
neighbours of the seeds to come are together all sources (`Sources`), and the
flag says whether something seen and not withheld is not listed. A call that
returns has seen all, hence `ManifestSaysTruth`. Both for every finite checkout,
import graph, traceback and order of iteration. `RequestInv` is for a worktree
that another worker may patch at any moment: a returned call changes no more, and
the files read are the first ones listed (`EvidenceIsRequest`,
`RequestContextBounded`). The manifest is true of the checkout that the selection
saw, so `QuietManifestSaysTruth` is for the time before such a patch.

`SelectionInv` is about the budget: the bytes counted are the sum of the sizes of
what is listed (`SizesAddUp`), and a file that was left out does not fit with
what is listed (`LeftOutTooLarge`), nor a seed with the seeds before it
(`SeedsFirst`). The last needs that until a seed is considered all that was
considered are the seeds before it (`SeedsLead`): expansion appends behind the
seeds. A file that did not fit stays out because sums only grow
(`TooManyStays`). Hence `SelectionFull` and `FailingFilesLead`, and of a request,
before another worker's patch (`QuietInv`), `QuietSelectionIsFull` and
`QuietFailingFilesLead`. The sum over a set is the fold of the community modules,
a recursive function on sets that takes any element it chooses. That it is
defined, is a natural number, and does not depend on the choice needs induction,
and the induction theorems cannot be instantiated by the installed provers.
`WFMin`, which has no operator for a parameter, can: a set of finite sets that
are counterexamples has one of least cardinality (`Smallest`), and it leads to a
contradiction (`SumsExist`, `SumsAgree`, `SumType`). `SumOfRest` is what the
selection uses: the sum is the size of any one element and the sum of the rest.

`PolicyInv`: the paths named on the lines scanned so far have been collected
(`Collected`). A patch is accepted only when every line was scanned, so the
headers' names are among the paths that were judged, whatever else was taken for
a header: `AcceptedPathsAreDeclared`, for patches whose headers name to the scan
what they name to git (`ReadForGit`). The hypothesis is needed: see the tenth
disagreement. `PlainInv` counts, for a patch whose lines
cannot be mistaken, exactly the headers' names and the changed lines scanned so
far: `PlainPatchIsInspected`.

`BytecodeInv` says when the danger can arise. Before the patch all that is being
compiled carries the second of the checkout (`BeforePatch`). After it, bytecode
of the base that is still to be written carries another second than the patch's
(`AfterPatch`): either a second has passed, or the patch came in the second of
the checkout, and then one attempt has run at most, since a lease outlasts that
second, and its test command has ended (`FirstSecond`). So once the stale
bytecode is deleted none comes back (`Safe`, `Known`), and the test command a
verification waits for began after that (`Verifications`):
`VerificationRunsSource` and `ConfirmedStaysFresh`, for any number of workers and
tests and any time.

### Only model-checked

- The liveness properties `EveryRunEnds`, `EveryWorkflowEnds` and
  `PendingRunsServed`, and fairness and ENABLED generally.
- The properties that the code violates, which are counterexamples.

## Not modelled

Not modelled: TaskSpec validation and JSON round trips (pure), the text of
output and reports (with the withholding of acceptance output in a page),
decoding of command output, path normalization and pattern matching of the
policy (sets of paths instead), how git parses a header (a set of paths per line
instead), parsing of Python and tracebacks, the demo
fixture, the durations a benchmark measures, SQLite itself, OpenRath itself, and
partial writes of git.
